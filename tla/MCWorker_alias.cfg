SPECIFICATION Spec
CONSTANTS
  w1 = w1
  w2 = w2
  j1 = j1
  j2 = j2
  Worker = {w1, w2}
  Job = {j1, j2}
  NoWorker = NoWorker
  NoJob = NoJob
  Message <- TwoMessages
  JobOf <- OneEach
  Fifo = FALSE
  Faults = {"crash"}
  MaxReceives = 3
  MaxFence = 3
  MaxFaults = 1
INVARIANT ReuseAccepted
CHECK_DEADLOCK FALSE
