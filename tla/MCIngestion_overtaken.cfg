SPECIFICATION Spec
CONSTANTS
  a1 = a1
  a2 = a2
  a3 = a3
  j1 = j1
  j2 = j2
  j3 = j3
  f1 = f1
  f2 = f2
  f3 = f3
  Attempt = {a1, a2, a3}
  Job = {j1, j2, j3}
  Fingerprint = {f1, f2, f3}
  JobOf <- OneEach
  FingerprintOf <- ThreeFingerprints
  NoAttempt = NoAttempt
  NoJob = NoJob
  NoFingerprint = NoFingerprint
  Faults = {"expire", "lost_reply"}
  Serial = FALSE
  MaxFence = 3
  MaxFaults = 3
INVARIANT NoOrphans
CHECK_DEADLOCK FALSE
