SPECIFICATION FairSpec
CONSTANTS
  w1 = w1
  w2 = w2
  j1 = j1
  j2 = j2
  Worker = {w1, w2}
  Job = {j1, j2}
  NoWorker = NoWorker
  NoJob = NoJob
  Message <- TwoMessages
  JobOf <- OneEach
  Fifo = TRUE
  Faults = {"crash", "failure", "visible", "expire", "beat"}
  MaxReceives = 3
  MaxFence = 3
  MaxFaults = 2
INVARIANT NoJobForgotten
CHECK_DEADLOCK FALSE
