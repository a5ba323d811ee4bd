SPECIFICATION JobsSpec
CONSTANTS
  Nil = Nil
  a = a
  b = b
  engineer = engineer
  here = here
  there = there
  Request = {1, 2, 3}
  Posting <- MCPosting
  Role <- Siblings
  Place <- SamePlace
  Titled <- MCTitled
  CorpusMenus <- MCMenus
  MaxVersion = 2
  MaxInFlight = 2
  MaxStops = 1
INVARIANTS RefreshIsRecompute FeaturesUpToDate InteractionsCounted
PROPERTIES SavedRowsKeepTheirOwn
CHECK_DEADLOCK FALSE
