SPECIFICATION FairSpec
CONSTANTS
  Threads = {t1, t2}
  is_thread_safe = TRUE
  cells_size = 2
  FirstLengths = {59, 60}
  FieldLengths = {59, 60}
  MaxCalls = 5
  MaxChunks = 4
INVARIANTS NoOverlap IndexesInRange NoChunkLost GrowsOnDemand
PROPERTIES MallocProgress
CHECK_DEADLOCK FALSE
