SPECIFICATION FairSpec
CONSTANTS
  Worker = {w1, w2}
  Enqueuer = {1}
  Doc = {d1}
  MaxChunk = 2
  MaxJob = 2
  Nil = Nil
INVARIANTS NoOrphanRows HeldJobLeftQueue QueuedChunkHasQueuedJob
PROPERTIES QueueDrains
CHECK_DEADLOCK FALSE
