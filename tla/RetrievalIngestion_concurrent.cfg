SPECIFICATION FairIngestSpec
CONSTANTS
  Worker = {w1}
  Enqueuer = {1, 2}
  Doc = {1, 2}
  MaxChunk = 3
  MaxJob = 3
  Nil = Nil
  b1 = b1
  b2 = b2
  Body = {b1, b2}
  Empty = Empty
  ChunksIn <- MCChunks
  MaxInFlight = 2
  MaxFailures = 1
INVARIANTS SearchFindsOneText
PROPERTIES ChunksGetReady
CHECK_DEADLOCK FALSE
