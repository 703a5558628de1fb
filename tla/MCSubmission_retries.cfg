SPECIFICATION FairSpec
CONSTANTS
  r1 = r1
  r2 = r2
  k1 = k1
  s1 = s1
  Request = {r1, r2}
  Key = {k1}
  Session = {s1}
  NoSession = NoSession
  KeyOf <- OneKey
  SessionOf <- OneSession
  Faults = {"crash", "expire", "unsent", "sent", "lifecycle", "other"}
  MaxFence = 3
  MaxPuts = 2
  MaxSent = 4
  MaxFaults = 2
INVARIANTS TypeOK SourceNeverMismatched DispatchedJobReady
PROPERTIES NeverBackToUploaded PromotionCompletes PendingRedispatched
CHECK_DEADLOCK FALSE
