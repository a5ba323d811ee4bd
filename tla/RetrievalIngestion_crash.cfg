SPECIFICATION IngestSpec
CONSTANTS
  Worker = {}
  Enqueuer = {1, 2}
  Doc = {1, 2}
  MaxChunk = 4
  MaxJob = 3
  Nil = Nil
  b1 = b1
  b2 = b2
  Body = {b1, b2}
  Empty = Empty
  ChunksIn <- MCOneChunk
  MaxInFlight = 1
  MaxFailures = 1
INVARIANT IndexFollowsProfile
CHECK_DEADLOCK FALSE
