------------------------------- MODULE Lease -------------------------------
(***************************************************************************)
(* The document-version lease: one DynamoDB item per tenant, document and  *)
(* source version, taken by conditional update, renewed by the heartbeat   *)
(* and given up by a conditional delete                                    *)
(* (DynamoDocumentIngestionLeaseRepository), as used by the submission     *)
(* service, by DocumentIngestionService and by the worker's heartbeat.     *)
(*                                                                         *)
(* An Attempt is one execution of ingest() or of submit_ingestion(): it    *)
(* takes the lease at most once.  OwnerOf maps it to its owner token (the  *)
(* job id), so that two deliveries of one job are two attempts of one      *)
(* owner.  Every call reads the caller's clock first and reaches the table *)
(* later: the value read is kept in sampled.                               *)
(***************************************************************************)
EXTENDS Naturals

CONSTANTS Attempt,    \* execution tokens
          Owner,      \* owner tokens: job ids, and submit:<job id>
          OwnerOf,    \* the owner token each attempt presents
          NoAttempt, NoOwner,
          TTL,        \* lease_ttl_seconds, in ticks
          MaxTime     \* bound on the clock

ASSUME LeaseAssumption ==
    /\ OwnerOf \in [Attempt -> Owner]
    /\ NoAttempt \notin Attempt
    /\ NoOwner \notin Owner
    /\ TTL \in Nat \ {0}
    /\ MaxTime \in Nat

VARIABLES now,      \* the clock
          item,     \* the lease item, NoLease when it is absent
          pc,       \* where each attempt is
          sampled,  \* the clock value the attempt's current call carries
          claim,    \* the fencing token and expiry the attempt believes in
          beating   \* attempts with a renewal on its way to the table

vars == <<now, item, pc, sampled, claim, beating>>

-----------------------------------------------------------------------------
(* Types *)

NoLease == [owner |-> NoOwner, execution |-> NoAttempt, fence |-> 0, expires |-> 0]
NoClaim == [fence |-> 0, expires |-> 0]

Item == [owner: Owner \cup {NoOwner}, execution: Attempt \cup {NoAttempt},
         fence: Nat, expires: Nat]

Starting == {"idle", "reading", "writing"}
Holding  == {"held", "lost"}      \* between acquire and release; lost: the heartbeat failed
Ended    == {"refused", "released", "gone"}

TypeOK ==
    /\ now \in Nat
    /\ item \in Item
    /\ pc \in [Attempt -> Starting \cup Holding \cup Ended]
    /\ sampled \in [Attempt -> Nat]
    /\ claim \in [Attempt -> [fence: Nat, expires: Nat]]
    /\ beating \in SUBSET Attempt

-----------------------------------------------------------------------------
(* Faulty variants, put in place of the conditions below to show which       *)
(* property each of them is needed for                                       *)

\* a renewal that compares the job and the token but not the execution
RenewAnyExecution(a) == item.owner = OwnerOf[a] /\ item.expires > sampled[a]
\* a delete without its condition
ReleaseUnconditionally(a) == TRUE
\* a takeover that keeps the stored token
TakeoverKeepsFence(a) ==
    [owner |-> OwnerOf[a], execution |-> a,
     fence |-> IF item = NoLease THEN 1 ELSE item.fence, expires |-> sampled[a] + TTL]

-----------------------------------------------------------------------------
(* The conditions of the three writes *)

\* attribute_not_exists(expiresAt) OR expiresAt <= :now
CanAcquire(a) == item = NoLease \/ item.expires <= sampled[a]

\* ownerToken, fencingToken and executionToken match AND expiresAt > :now
CanRenew(a) ==
    /\ item.owner = OwnerOf[a]
    /\ item.fence = claim[a].fence
    /\ item.execution = a
    /\ item.expires > sampled[a]

\* ownerToken and fencingToken match; the execution token is not compared
CanRelease(a) ==
    /\ item.owner = OwnerOf[a]
    /\ item.fence = claim[a].fence

\* The item the update writes: the token grows from the stored one, or from 0
Granted(a) ==
    [owner |-> OwnerOf[a], execution |-> a,
     fence |-> item.fence + 1, expires |-> sampled[a] + TTL]

-----------------------------------------------------------------------------
Init ==
    /\ now = 0
    /\ item = NoLease
    /\ pc = [a \in Attempt |-> "idle"]
    /\ sampled = [a \in Attempt |-> 0]
    /\ claim = [a \in Attempt |-> NoClaim]
    /\ beating = {}

Tick ==
    /\ now < MaxTime
    /\ now' = now + 1
    /\ UNCHANGED <<item, pc, sampled, claim, beating>>

\* The caller reads its clock and calls acquire.
Begin(a) ==
    /\ pc[a] = "idle"
    /\ pc' = [pc EXCEPT ![a] = "reading"]
    /\ sampled' = [sampled EXCEPT ![a] = now]
    /\ UNCHANGED <<now, item, claim, beating>>

\* acquire reads the item first and gives up on one that has not expired,
\* even on one of the same owner.
ReadLease(a) ==
    /\ pc[a] = "reading"
    /\ pc' = [pc EXCEPT ![a] = IF item.expires > sampled[a] THEN "refused" ELSE "writing"]
    /\ UNCHANGED <<now, item, sampled, claim, beating>>

\* The conditional update is applied and answered.
Acquire(a) ==
    /\ pc[a] = "writing"
    /\ CanAcquire(a)
    /\ item' = Granted(a)
    /\ claim' = [claim EXCEPT ![a] = [fence |-> Granted(a).fence, expires |-> Granted(a).expires]]
    /\ pc' = [pc EXCEPT ![a] = "held"]
    /\ UNCHANGED <<now, sampled, beating>>

\* The update is applied but its answer is lost: the caller sees an error and
\* never learns its token.
AcquireUnanswered(a) ==
    /\ pc[a] = "writing"
    /\ CanAcquire(a)
    /\ item' = Granted(a)
    /\ pc' = [pc EXCEPT ![a] = "gone"]
    /\ UNCHANGED <<now, sampled, claim, beating>>

\* The condition is rejected; whatever the second read finds, not acquired.
AcquireRejected(a) ==
    /\ pc[a] = "writing"
    /\ ~CanAcquire(a)
    /\ pc' = [pc EXCEPT ![a] = "refused"]
    /\ UNCHANGED <<now, item, sampled, claim, beating>>

\* The heartbeat reads the clock and sends a renewal.
BeginRenew(a) ==
    /\ pc[a] = "held"
    /\ a \notin beating
    /\ sampled' = [sampled EXCEPT ![a] = now]
    /\ beating' = beating \cup {a}
    /\ UNCHANGED <<now, item, pc, claim>>

\* The renewal is applied.  It may land after the attempt has ended: the
\* thread that carries it outlives a cancelled coroutine.
Renew(a) ==
    /\ a \in beating
    /\ CanRenew(a)
    /\ item' = [item EXCEPT !.expires = sampled[a] + TTL]
    /\ claim' = IF pc[a] = "held"
                THEN [claim EXCEPT ![a].expires = sampled[a] + TTL]
                ELSE claim
    /\ beating' = beating \ {a}
    /\ UNCHANGED <<now, pc, sampled>>

\* The renewal is rejected, or fails, or is applied without an answer: the
\* heartbeat ends and the ingestion is cancelled.
RenewFails(a) ==
    /\ a \in beating
    /\ item' \in {item} \cup
                 {i \in {[item EXCEPT !.expires = sampled[a] + TTL]} : CanRenew(a)}
    /\ pc' = [pc EXCEPT ![a] = IF @ = "held" THEN "lost" ELSE @]
    /\ beating' = beating \ {a}
    /\ UNCHANGED <<now, sampled, claim>>

\* The finally clause deletes the item if owner and token still match.
Release(a) ==
    /\ pc[a] \in Holding
    /\ IF CanRelease(a)
       THEN /\ item' = NoLease
            /\ pc' = [pc EXCEPT ![a] = "released"]
       ELSE /\ pc' = [pc EXCEPT ![a] = "gone"]
            /\ UNCHANGED item
    /\ UNCHANGED <<now, sampled, claim, beating>>

\* The process dies, or the delete fails: the item stays until it expires.
Crash(a) ==
    /\ pc[a] \in {"reading", "writing"} \cup Holding
    /\ pc' = [pc EXCEPT ![a] = "gone"]
    /\ UNCHANGED <<now, item, sampled, claim, beating>>

Step(a) ==
    \/ Begin(a)
    \/ ReadLease(a)
    \/ Acquire(a)
    \/ AcquireUnanswered(a)
    \/ AcquireRejected(a)
    \/ BeginRenew(a)
    \/ Renew(a)
    \/ RenewFails(a)
    \/ Release(a)
    \/ Crash(a)

Next == Tick \/ \E a \in Attempt : Step(a)

Spec == Init /\ [][Next]_vars

-----------------------------------------------------------------------------
(* Properties *)

\* The attempt works under a lease it believes unexpired.
Live(a) == pc[a] = "held" /\ now < claim[a].expires

\* Another attempt of the same job held the same token and has deleted the item.
Reused(a) ==
    \E c \in Attempt \ {a} : /\ OwnerOf[c] = OwnerOf[a]
                             /\ claim[c].fence = claim[a].fence
                             /\ pc[c] = "released"

\* Two attempts work under an unexpired lease at the same time only if the
\* release of a third delivery of the same job, whose token had been issued
\* again after an earlier delete, removed the lease of one of them.
ExclusiveUnlessReused ==
    \A a, b \in Attempt : a # b /\ Live(a) /\ Live(b) => Reused(a) \/ Reused(b)

\* As long as no delete has been applied, no two attempts were ever granted
\* the same fencing token: an expired lease is taken over with a higher one.
FencesDistinctUntilRelease ==
    (\A c \in Attempt : pc[c] # "released") =>
        \A a, b \in Attempt : a # b /\ claim[a].fence > 0 => claim[a].fence # claim[b].fence

\* With one attempt per owner token (no job delivered twice), an unexpired
\* lease excludes every other attempt: the claim of submit_ingestion and of
\* ingest that a document version has one writer.
Exclusive ==
    \A a, b \in Attempt : Live(a) /\ Live(b) => a = b

\* ADR-0008: "leases use conditional expiration checks and monotonically
\* increasing fencing tokens".  A granted token exceeds every token granted
\* before.
\* The code does not keep this; MCLease_FencingMonotonic.cfg shows how.
FencingMonotonic ==
    [][\A a \in Attempt : claim'[a].fence # claim[a].fence =>
           \A b \in Attempt : claim[b].fence < claim'[a].fence]_vars

\* ADR-0010: "Same-job redelivery cannot renew or release a replacement
\* execution lease".  The item of one execution is deleted by that execution.
\* The code does not keep this; MCLease_ReplacementNotReleased.cfg shows how.
ReplacementNotReleased ==
    [][\A a \in Attempt : item.execution = a /\ item' = NoLease => pc'[a] = "released"]_vars

-----------------------------------------------------------------------------
(* The inductive invariant *)

\* The stored item belongs to an attempt that has acquired, carries the token
\* granted to it, and expires no earlier than the attempt believes.
StoredItem ==
    /\ item.execution = NoAttempt => item = NoLease
    /\ \A a \in Attempt : item.execution = a =>
          /\ item.owner = OwnerOf[a]
          /\ item.fence > 0
          /\ item.expires <= sampled[a] + TTL
          /\ pc[a] \in Holding =>
                item.fence = claim[a].fence /\ claim[a].expires <= item.expires

\* Calls carry a clock value of the past; an attempt that has not acquired
\* has no claim, no item and no renewal under way.
Samples ==
    \A a \in Attempt :
        /\ sampled[a] <= now
        /\ pc[a] \in Starting =>
              a \notin beating /\ item.execution # a /\ claim[a] = NoClaim

\* A live claim is the stored one, unless its item was deleted under it.
LiveClaimStored ==
    \A a \in Attempt : Live(a) => item.execution = a \/ Reused(a)

\* Without a delete, the stored token is the largest and only its holder has it.
StoredFenceIsLargest ==
    (\A c \in Attempt : pc[c] # "released") =>
        \A a \in Attempt :
            /\ claim[a].fence <= item.fence
            /\ claim[a].fence > 0 /\ claim[a].fence = item.fence => item.execution = a
            /\ \A b \in Attempt :
                  a # b /\ claim[a].fence > 0 => claim[a].fence # claim[b].fence

IInv ==
    /\ TypeOK
    /\ StoredItem
    /\ Samples
    /\ LiveClaimStored
    /\ StoredFenceIsLargest
=============================================================================
