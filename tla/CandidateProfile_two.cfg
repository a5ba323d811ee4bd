SPECIFICATION ProfileSpec
CONSTANTS
  Headline = {"typed", "from cv"}
  Role = {"engineer"}
  Entry = {"e1", "own"}
  Own = {"own"}
  Section <- MCSection
  Draft <- MCDraft
  MaxUploads = 2
  MaxCopies = 2
  Nil = Nil
  Request <- MCRequest
  MaxInFlight = 2
  MaxFailures = 1
INVARIANTS NoDuplicateEntries LatestCvDecides
PROPERTIES DocumentedLanguagesStay
