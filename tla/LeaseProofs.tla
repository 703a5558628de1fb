---------------------------- MODULE LeaseProofs ----------------------------
(***************************************************************************)
(* The invariant of the lease for any number of attempts and owners, any   *)
(* TTL and any clock bound.                                                *)
(***************************************************************************)
EXTENDS Lease, TLAPS

USE LeaseAssumption DEF Starting, Holding, Ended, NoLease, NoClaim, Item

\* Every action keeps the variables in their types.
LEMMA TypeStep == TypeOK /\ [Next]_vars => TypeOK'
<1> SUFFICES ASSUME TypeOK, [Next]_vars PROVE TypeOK'
  OBVIOUS
<1> USE DEF TypeOK
<1>1. CASE Tick
  BY <1>1 DEF Tick
<1>2. ASSUME NEW a \in Attempt, Begin(a) PROVE TypeOK'
  BY <1>2 DEF Begin
<1>3. ASSUME NEW a \in Attempt, ReadLease(a) PROVE TypeOK'
  BY <1>3 DEF ReadLease
<1>4. ASSUME NEW a \in Attempt, Acquire(a) PROVE TypeOK'
  BY <1>4 DEF Acquire, Granted
<1>5. ASSUME NEW a \in Attempt, AcquireUnanswered(a) PROVE TypeOK'
  BY <1>5 DEF AcquireUnanswered, Granted
<1>6. ASSUME NEW a \in Attempt, AcquireRejected(a) PROVE TypeOK'
  BY <1>6 DEF AcquireRejected
<1>7. ASSUME NEW a \in Attempt, BeginRenew(a) PROVE TypeOK'
  BY <1>7 DEF BeginRenew
<1>8. ASSUME NEW a \in Attempt, Renew(a) PROVE TypeOK'
  <2>1. [claim EXCEPT ![a].expires = sampled[a] + TTL]
            \in [Attempt -> [fence: Nat, expires: Nat]]
    OBVIOUS
  <2>2. item' \in Item
    BY <1>8 DEF Renew
  <2> QED
    BY <1>8, <2>1, <2>2 DEF Renew
<1>9. ASSUME NEW a \in Attempt, RenewFails(a) PROVE TypeOK'
  BY <1>9 DEF RenewFails
<1>10. ASSUME NEW a \in Attempt, Release(a) PROVE TypeOK'
  BY <1>10 DEF Release
<1>11. ASSUME NEW a \in Attempt, Crash(a) PROVE TypeOK'
  BY <1>11 DEF Crash
<1>12. CASE UNCHANGED vars
  BY <1>12 DEF vars
<1> QED
  BY <1>1, <1>2, <1>3, <1>4, <1>5, <1>6, <1>7, <1>8, <1>9, <1>10, <1>11, <1>12
  DEF Next, Step

\* The type invariant of the lease, for every set of attempts.
THEOREM LeaseTypeCorrect == Spec => []TypeOK
<1>1. Init => TypeOK
  BY DEF Init, TypeOK
<1> QED
  BY <1>1, TypeStep, PTL DEF Spec

\* What one step may do to the part of the state an attempt owns: an action
\* of another attempt leaves its place, its clock sample and its claim alone.
LEMMA OthersUntouched ==
  ASSUME TypeOK, NEW a \in Attempt, NEW b \in Attempt, a # b, Step(b)
  PROVE  /\ pc'[a] = pc[a] /\ sampled'[a] = sampled[a] /\ claim'[a] = claim[a]
         /\ a \in beating' <=> a \in beating
BY DEF TypeOK, Step, Begin, ReadLease, Acquire, AcquireUnanswered, AcquireRejected,
       BeginRenew, Renew, RenewFails, Release, Crash

\* The clock sample of a call is never ahead of the clock, and an attempt
\* that has not acquired has left no trace.
LEMMA SamplesStep == TypeOK /\ Samples /\ [Next]_vars => Samples'
<1> SUFFICES ASSUME TypeOK, Samples, [Next]_vars, NEW a \in Attempt
             PROVE  /\ (sampled[a] <= now)'
                    /\ (pc[a] \in Starting =>
                           a \notin beating /\ item.execution # a /\ claim[a] = NoClaim)'
  BY DEF Samples
<1> USE DEF TypeOK, Samples
<1>1. CASE Tick
  BY <1>1 DEF Tick
<1>2. CASE Step(a)
  BY <1>2 DEF Step, Begin, ReadLease, Acquire, AcquireUnanswered, AcquireRejected,
       BeginRenew, Renew, RenewFails, Release, Crash, Granted, CanRenew
<1>3. ASSUME NEW b \in Attempt, b # a, Step(b)
      PROVE  /\ (sampled[a] <= now)'
             /\ (pc[a] \in Starting =>
                    a \notin beating /\ item.execution # a /\ claim[a] = NoClaim)'
  <2>1. now' = now /\ (item'.execution = a => item.execution = a)
    BY <1>3 DEF Step, Begin, ReadLease, Acquire, AcquireUnanswered, AcquireRejected,
       BeginRenew, Renew, RenewFails, Release, Crash, Granted
  <2> QED
    BY <1>3, <2>1, OthersUntouched
<1>4. CASE UNCHANGED vars
  BY <1>4 DEF vars
<1> QED
  BY <1>1, <1>2, <1>3, <1>4 DEF Next

\* The stored item keeps belonging to the attempt that acquired it.
LEMMA StoredItemStep == TypeOK /\ Samples /\ StoredItem /\ [Next]_vars => StoredItem'
<1> SUFFICES ASSUME TypeOK, Samples, StoredItem, [Next]_vars PROVE StoredItem'
  OBVIOUS
<1> USE DEF TypeOK, Samples, StoredItem
<1>1. CASE Tick
  BY <1>1 DEF Tick
<1>2. ASSUME NEW b \in Attempt, Begin(b) PROVE StoredItem'
  BY <1>2 DEF Begin
<1>3. ASSUME NEW b \in Attempt, ReadLease(b) PROVE StoredItem'
  BY <1>3 DEF ReadLease
<1>4. ASSUME NEW b \in Attempt, Acquire(b) PROVE StoredItem'
  BY <1>4 DEF Acquire, Granted
<1>5. ASSUME NEW b \in Attempt, AcquireUnanswered(b) PROVE StoredItem'
  BY <1>5 DEF AcquireUnanswered, Granted
<1>6. ASSUME NEW b \in Attempt, AcquireRejected(b) PROVE StoredItem'
  BY <1>6 DEF AcquireRejected
<1>7. ASSUME NEW b \in Attempt, BeginRenew(b) PROVE StoredItem'
  BY <1>7 DEF BeginRenew
<1>8. ASSUME NEW b \in Attempt, Renew(b) PROVE StoredItem'
  <2>1. /\ item.execution = b
        /\ item' = [item EXCEPT !.expires = sampled[b] + TTL]
        /\ pc' = pc /\ sampled' = sampled
    BY <1>8 DEF Renew, CanRenew
  <2>2. pc[b] \in Holding => claim'[b].fence = claim[b].fence
                             /\ claim'[b].expires <= sampled[b] + TTL
    BY <1>8, <2>1 DEF Renew
  <2>3. item'.owner = item.owner /\ item'.execution = b /\ item'.fence = item.fence
        /\ item'.expires = sampled[b] + TTL
    BY <2>1
  <2> QED
    BY <2>1, <2>2, <2>3
<1>9. ASSUME NEW b \in Attempt, RenewFails(b) PROVE StoredItem'
  <2>1. CASE item' = item
    BY <1>9, <2>1 DEF RenewFails
  <2>2. CASE item' = [item EXCEPT !.expires = sampled[b] + TTL] /\ CanRenew(b)
    BY <1>9, <2>2 DEF RenewFails, CanRenew
  <2> QED
    BY <1>9, <2>1, <2>2 DEF RenewFails
<1>10. ASSUME NEW b \in Attempt, Release(b) PROVE StoredItem'
  BY <1>10 DEF Release
<1>11. ASSUME NEW b \in Attempt, Crash(b) PROVE StoredItem'
  BY <1>11 DEF Crash
<1>12. CASE UNCHANGED vars
  BY <1>12 DEF vars
<1> QED
  BY <1>1, <1>2, <1>3, <1>4, <1>5, <1>6, <1>7, <1>8, <1>9, <1>10, <1>11, <1>12
  DEF Next, Step

\* An attempt that has given its lease up keeps its claim.
LEMMA ReleasedIsFinal ==
  ASSUME TypeOK, Samples, [Next]_vars, NEW c \in Attempt, pc[c] = "released"
  PROVE  pc'[c] = "released" /\ claim'[c] = claim[c]
<1>1. CASE Tick \/ UNCHANGED vars
  BY <1>1 DEF Tick, vars
<1>2. CASE Step(c)
  BY <1>2 DEF TypeOK, Samples, Step, Begin, ReadLease, Acquire, AcquireUnanswered,
     AcquireRejected, BeginRenew, Renew, RenewFails, Release, Crash
<1>3. ASSUME NEW b \in Attempt, b # c, Step(b)
      PROVE  pc'[c] = "released" /\ claim'[c] = claim[c]
  BY <1>3, OthersUntouched
<1> QED
  BY <1>1, <1>2, <1>3 DEF Next

\* The witness of Reused survives as long as the token it shares does.
LEMMA ReusedPersists ==
  ASSUME TypeOK, Samples, [Next]_vars, NEW a \in Attempt, Reused(a),
         claim'[a].fence = claim[a].fence
  PROVE  Reused(a)'
BY ReleasedIsFinal DEF Reused

\* The step that matters: whatever another attempt does to the item of a live
\* claim, it deletes it by a release that presents the same job and token.
LEMMA LiveClaimStep ==
  TypeOK /\ Samples /\ StoredItem /\ LiveClaimStored /\ [Next]_vars => LiveClaimStored'
<1> SUFFICES ASSUME TypeOK, Samples, StoredItem, LiveClaimStored, [Next]_vars,
                    NEW a \in Attempt, Live(a)'
             PROVE  (item.execution = a)' \/ Reused(a)'
  BY DEF LiveClaimStored
<1> USE DEF TypeOK, Live
<1>1. CASE Tick \/ UNCHANGED vars
  <2>1. Live(a) /\ item' = item /\ claim' = claim
    BY <1>1 DEF Tick, vars
  <2> QED
    BY <2>1, ReusedPersists DEF LiveClaimStored
<1>2. CASE Step(a)
  <2>1. CASE Acquire(a)
    BY <2>1 DEF Acquire, Granted
  <2>2. CASE BeginRenew(a)
    <3>1. Live(a) /\ item' = item /\ claim' = claim
      BY <2>2 DEF BeginRenew
    <3> QED
      BY <3>1, ReusedPersists DEF LiveClaimStored
  <2>3. CASE Renew(a)
    BY <2>3 DEF Renew, CanRenew
  <2> QED
    BY <1>2, <2>1, <2>2, <2>3 DEF Step, Begin, ReadLease, AcquireUnanswered,
       AcquireRejected, RenewFails, Release, Crash
<1>3. ASSUME NEW b \in Attempt, b # a, Step(b)
      PROVE  (item.execution = a)' \/ Reused(a)'
  <2>1. /\ now' = now /\ pc'[a] = pc[a] /\ claim'[a] = claim[a] /\ Live(a)
        /\ sampled'[a] = sampled[a]
    BY <1>3, OthersUntouched DEF Step, Begin, ReadLease, Acquire, AcquireUnanswered,
       AcquireRejected, BeginRenew, Renew, RenewFails, Release, Crash
  <2>2. CASE Reused(a)
    BY <2>1, <2>2, ReusedPersists
  <2>3. CASE item.execution = a
    <3>1. /\ item.owner = OwnerOf[a] /\ item.fence = claim[a].fence
          /\ now < item.expires /\ item.fence > 0 /\ sampled[b] <= now
      BY <2>1, <2>3 DEF StoredItem, Holding, Samples
    <3>2. ~CanAcquire(b)
      BY <3>1 DEF CanAcquire
    <3>3. CASE Release(b)
      <4>1. CASE CanRelease(b)
        <5>1. OwnerOf[b] = OwnerOf[a] /\ claim'[b].fence = claim'[a].fence
          BY <2>1, <3>1, <3>3, <4>1 DEF Release, CanRelease
        <5>2. pc'[b] = "released"
          BY <3>3, <4>1 DEF Release
        <5> QED
          BY <1>3, <5>1, <5>2 DEF Reused
      <4>2. CASE ~CanRelease(b)
        BY <2>3, <3>3, <4>2 DEF Release
      <4> QED
        BY <4>1, <4>2
    <3>4. CASE ~Release(b)
      BY <1>3, <2>3, <3>2, <3>4 DEF Step, Begin, ReadLease, Acquire, AcquireUnanswered,
         AcquireRejected, BeginRenew, Renew, RenewFails, Crash
    <3> QED
      BY <3>3, <3>4
  <2> QED
    BY <2>1, <2>2, <2>3 DEF LiveClaimStored
<1> QED
  BY <1>1, <1>2, <1>3 DEF Next

\* Tokens grow from the stored one, so without a delete none comes back.
LEMMA FenceStep ==
  TypeOK /\ Samples /\ StoredItem /\ StoredFenceIsLargest /\ [Next]_vars
      => StoredFenceIsLargest'
<1> SUFFICES ASSUME TypeOK, Samples, StoredItem, StoredFenceIsLargest, [Next]_vars,
                    \A c \in Attempt : pc'[c] # "released"
             PROVE  \A a \in Attempt :
                      /\ claim'[a].fence <= item'.fence
                      /\ claim'[a].fence > 0 /\ claim'[a].fence = item'.fence
                            => item'.execution = a
                      /\ \A b \in Attempt : a # b /\ claim'[a].fence > 0
                            => claim'[a].fence # claim'[b].fence
  BY DEF StoredFenceIsLargest
<1>1. \A c \in Attempt : pc[c] # "released"
  BY ReleasedIsFinal
<1> USE <1>1 DEF TypeOK, StoredFenceIsLargest
<1>2. CASE \E d \in Attempt : Acquire(d)
  <2> PICK d \in Attempt : Acquire(d)
    BY <1>2
  <2>1. /\ claim' = [claim EXCEPT ![d] = [fence |-> item.fence + 1,
                                          expires |-> sampled[d] + TTL]]
        /\ item'.fence = item.fence + 1 /\ item'.execution = d
    BY DEF Acquire, Granted
  <2>2. /\ claim'[d].fence = item.fence + 1
        /\ \A a \in Attempt : a # d => claim'[a].fence <= item.fence
                                       /\ claim'[a] = claim[a]
    BY <2>1
  <2> QED
    BY <2>1, <2>2
<1>3. CASE \E d \in Attempt : AcquireUnanswered(d)
  BY <1>3 DEF AcquireUnanswered, Granted
<1>4. CASE ~(\E d \in Attempt : Acquire(d) \/ AcquireUnanswered(d))
  <2>1. item'.fence = item.fence /\ item'.execution = item.execution
    BY <1>4 DEF Next, Step, Tick, vars, Begin, ReadLease, AcquireRejected, BeginRenew,
       Renew, RenewFails, Release, Crash
  <2>2. \A a \in Attempt : claim'[a].fence = claim[a].fence
    BY <1>4 DEF Next, Step, Tick, vars, Begin, ReadLease, AcquireRejected, BeginRenew,
       Renew, RenewFails, Release, Crash
  <2> QED
    BY <2>1, <2>2
<1> QED
  BY <1>2, <1>3, <1>4

\* The conjunction is inductive.
THEOREM LeaseInvariant == Spec => []IInv
<1>1. Init => IInv
  BY DEF Init, IInv, TypeOK, StoredItem, Samples, LiveClaimStored, Live,
     StoredFenceIsLargest
<1>2. IInv /\ [Next]_vars => IInv'
  BY TypeStep, SamplesStep, StoredItemStep, LiveClaimStep, FenceStep DEF IInv
<1> QED
  BY <1>1, <1>2, PTL DEF Spec

\* Mutual exclusion of unexpired leases up to the reuse of a fencing token:
\* two live claims cannot both be the stored item.
THEOREM LeaseExclusiveUnlessReused == Spec => []ExclusiveUnlessReused
<1>1. IInv => ExclusiveUnlessReused
  BY DEF IInv, LiveClaimStored, ExclusiveUnlessReused
<1> QED
  BY <1>1, LeaseInvariant, PTL

\* Fencing tokens identify acquisitions until the first delete.
THEOREM LeaseFencesDistinct == Spec => []FencesDistinctUntilRelease
<1>1. IInv => FencesDistinctUntilRelease
  BY DEF IInv, StoredFenceIsLargest, FencesDistinctUntilRelease
<1> QED
  BY <1>1, LeaseInvariant, PTL

\* When no job is delivered twice the lease is a lock: at most one attempt
\* works under an unexpired lease, whatever is delayed, lost or crashed.
THEOREM LeaseExclusive ==
  ASSUME \A a, b \in Attempt : OwnerOf[a] = OwnerOf[b] => a = b
  PROVE  Spec => []Exclusive
<1>1. ExclusiveUnlessReused => Exclusive
  BY DEF ExclusiveUnlessReused, Exclusive, Reused
<1> QED
  BY <1>1, LeaseExclusiveUnlessReused, PTL
=============================================================================
