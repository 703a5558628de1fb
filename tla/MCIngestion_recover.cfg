SPECIFICATION FairSpec
CONSTANTS
  a1 = a1
  a2 = a2
  a3 = a3
  j1 = j1
  j2 = j2
  j3 = j3
  f1 = f1
  f2 = f2
  f3 = f3
  Attempt = {a1, a2, a3}
  Job = {j1}
  Fingerprint = {f1}
  JobOf <- OneJob
  FingerprintOf <- OneFingerprint
  NoAttempt = NoAttempt
  NoJob = NoJob
  NoFingerprint = NoFingerprint
  Faults = {"expire", "crash", "invalid"}
  Serial = TRUE
  MaxFence = 3
  MaxFaults = 4
INVARIANT RunningJobRecoverable
PROPERTIES LeaseReturned RunningSettles
CHECK_DEADLOCK FALSE
