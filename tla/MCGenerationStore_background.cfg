SPECIFICATION FairSpec
CONSTANTS
  w1 = w1
  d1 = d1
  d2 = d2
  c1 = c1
  c2 = c2
  Writer = {w1}
  Remover = {d1, d2}
  ByDocument = {d2}
  Chunk = {c1, c2}
  Batches <- TwoBatches
  MaxConcurrency = 1
  DeleteBatch = 1
  Absent = Absent
  Faults = {"error", "lost", "partial", "put", "crash"}
  MaxFaults = 2
INVARIANT CleanupLeavesNothing
CHECK_DEADLOCK FALSE
