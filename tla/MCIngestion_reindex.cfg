SPECIFICATION Spec
CONSTANTS
  a1 = a1
  a2 = a2
  a3 = a3
  j1 = j1
  j2 = j2
  j3 = j3
  f1 = f1
  f2 = f2
  f3 = f3
  Attempt = {a1, a2}
  Job = {j1, j2}
  Fingerprint = {f1, f2}
  JobOf <- OwnJob
  FingerprintOf <- OwnFingerprint
  NoAttempt = NoAttempt
  NoJob = NoJob
  NoFingerprint = NoFingerprint
  Faults = {}
  Serial = TRUE
  MaxFence = 2
  MaxFaults = 0
INVARIANT NoActivationConflict
CHECK_DEADLOCK FALSE
