SPECIFICATION Spec
CONSTANTS
  a1 = a1
  a2 = a2
  a3 = a3
  a4 = a4
  job = job
  submit = submit
  Attempt = {a1, a2, a3, a4}
  Owner = {job, submit}
  OwnerOf <- SharedOwner
  NoAttempt = NoAttempt
  NoOwner = NoOwner
  TTL = 1
  MaxTime = 2
SYMMETRY Deliveries
INVARIANTS
  IInv
  ExclusiveUnlessReused
  FencesDistinctUntilRelease
CHECK_DEADLOCK FALSE
