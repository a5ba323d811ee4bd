CONSTANTS
  None = None
  Kind <- LineKind
  Section <- MCSection
  Feature <- MCFeature
  Header <- MCHeader
  Inline <- MCInline
  Payload <- MCPayload
  Joined <- MCJoined
  Width <- MCWidth
  Document <- MCDocument
  NoText = NoText
  Raises = Raises
  File <- MCFile
  Answer <- MCAnswer
  Mode = {"off", "ocr", "auto", "all"}
  Gibberish = {"@#"}
  Fragment = {"go"}
  Contaminated = {"phone", "phone sql"}
  Short = {"go", "sql"}
  NamesIn <- MCNames
  Lacking = {"no company"}
  TokensOf <- MCTokens
  Compact = {"sql", "go", "rust", "c++/f#", "phone"}
  MaxCvs = 2
  MaxStops = 1
  Name = {"SQL", "sql", "Go"}
  KeyOf <- MCKeyOf
  Note = {"note"}
  NoValue = NoValue
  Call = {1, 2, 3, 4}
  MaxSkills = 2
  MaxCalls = 2
  Absent = Absent
  Empty <- MCEmpty
  Folded <- MCFolded
  Says <- MCSays
  Upload <- MCUpload
  MaxRuns = 2
  MaxPicks = 2
  MaxRequests = 4
  Unknown = Unknown
  Text <- MCText
  Signals <- MCSignals
  FirstWins <- MCFirstWins
  ThisYear = 2026
  Posting <- MCPosting
  Profile <- MCProfile
  Listable <- MCSkills
  Addable <- MCAddable
  MaxEntries = 2
SPECIFICATION Spec
INVARIANTS CvReadWhole NothingInvented EvidenceOfItsSkill MatchIsExplained
PROPERTIES ClearedByTrustedCv ReviewKeepsItsWord
CHECK_DEADLOCK FALSE
