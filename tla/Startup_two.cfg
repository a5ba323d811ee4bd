SPECIFICATION FairStartupSpec
CONSTANTS
  p1 = p1
  p2 = p2
  Opening = {p1, p2}
  Script <- MCScript
  Files <- MCFiles
  MaxKills = 1
INVARIANTS OpenedIsWhole FailsOnlyWhenRaced
PROPERTIES OpensInTheEnd
CHECK_DEADLOCK FALSE
