CONSTANTS
  None = None
  Says <- MCSays
  Lowered <- MCLowered
  IdOf <- MCIdOf
  Sources <- MCSources
  Answers <- MCAnswers
  Pages <- MCPages
  Settings <- MCSettings
  Length <- MCLength
  Bodies <- MCBodies
  SourceOf <- MCSourceOf
  MaxChars = 1200
  Overlap = 1
  Rank = {1, 2, 3}
  MinRank = 2
  TopK = 3
  Limits <- MCLimits
  Window = 1
  Nothing = Nothing
  HeadingOf <- MCHeadingOf
  LineSize <- MCSize
  Boilerplate = {"Jobs powered by"}
  TermsOf <- MCTermsOf
  Sites <- MCSites
  Asker = {a1, a2}
  a1 = a1
  a2 = a2
  TTL = 1
  LastTick = 2
  NoJob = NoJob
  Requests = 3
  KnownJob = {"j1", "j2"}
  Context <- MCContext
  Kind <- MCKind
  About <- MCAbout
  Prompts <- MCPrompts
  Replies <- MCReplies
  MostTalks = 2
  HasCv = TRUE
  RecentMessages = 2
SPECIFICATION Spec
INVARIANTS EmptyOnlyWithoutListing SameForEveryReader ContextOfTheText SnapshotIsHonest
           NothingWithoutQuestion KeepsToItsJob
CHECK_DEADLOCK FALSE
