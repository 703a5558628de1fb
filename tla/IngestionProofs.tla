-------------------------- MODULE IngestionProofs --------------------------
(***************************************************************************)
(* Proofs about ingest() for any number of attempts, jobs, fingerprints    *)
(* and faults: the four records of a publication agree, and whatever       *)
(* happens between the calls, ingestion implements module Publication.     *)
(***************************************************************************)
EXTENDS Ingestion, TLAPS

USE IngestionAssumption

-----------------------------------------------------------------------------
(* Steps                                                                   *)

\* What a step writes is one call of one attempt, or a part of it, or the
\* lease runs out.
LEMMA StoresStep ==
  ASSUME [Next]_vars
  PROVE  \/ UNCHANGED stores
         \/ Expire
         \/ \E a \in Attempt : \E call \in Calls(a) : Effect(a, call) \/ PartOf(a, call)
<1> USE DEF Calls
<1>1. CASE UNCHANGED vars
  BY <1>1 DEF vars
<1>2. CASE Expire
  BY <1>2
<1>3. ASSUME NEW a \in Attempt, Step(a)
      PROVE  UNCHANGED stores \/ \E call \in Calls(a) : Effect(a, call) \/ PartOf(a, call)
  <2>1. CASE GetDocument(a) \/ FindExisting(a) \/ LeaseBusy(a) \/ LeaseBlocked(a) \/ RereadLease(a)
             \/ ClaimRejected(a) \/ FindWinner(a) \/ SaveProcessingRejected(a)
             \/ ActivateRejected(a) \/ Reconcile(a) \/ RereadDocument(a) \/ FailJobRejected(a)
    BY <2>1 DEF GetDocument, FindExisting, LeaseBusy, LeaseBlocked, RereadLease, ClaimRejected,
       FindWinner, SaveProcessingRejected, ActivateRejected, Reconcile, RereadDocument,
       FailJobRejected
  <2>2. CASE AcquireLease(a) \/ ClaimJob(a) \/ SaveBuilding(a) \/ SaveProcessing(a)
    BY <2>2 DEF AcquireLease, ClaimJob, SaveBuilding, SaveProcessing, Effect
  <2>3. CASE PutChunks(a) \/ UpsertVectors(a) \/ SaveReady(a) \/ Activate(a)
    BY <2>3 DEF PutChunks, UpsertVectors, SaveReady, Activate, Effect
  <2>4. CASE SupersedeGeneration(a) \/ RetireData(a) \/ CleanupData(a) \/ FailGeneration(a)
    BY <2>4 DEF SupersedeGeneration, RetireData, CleanupData, FailGeneration, Effect
  <2>5. CASE RestoreDocument(a) \/ FailJob(a) \/ ReleaseLease(a)
    BY <2>5 DEF RestoreDocument, FailJob, ReleaseLease, Effect
  <2> QED
    BY <1>3, <2>1, <2>2, <2>3, <2>4, <2>5 DEF Step
<1>4. ASSUME NEW a \in Attempt, Land(a)
      PROVE  UNCHANGED stores \/ \E call \in Calls(a) : Effect(a, call) \/ PartOf(a, call)
  BY <1>4 DEF Land
<1>5. ASSUME NEW a \in Attempt, Fault(a)
      PROVE  UNCHANGED stores \/ \E call \in Calls(a) : Effect(a, call) \/ PartOf(a, call)
  BY <1>5 DEF Fault, RejectContent, CallFails, ReplyLost, ReconcileUnread, Cancel, Crash
<1> QED
  BY <1>1, <1>2, <1>3, <1>4, <1>5 DEF Next

\* What an attempt remembers changes in four of its own steps.
LEMMA LocalStep ==
  ASSUME TypeOK, [Next]_vars, NEW a \in Attempt
  PROVE  \/ local'[a] = local[a]
         \/ GetDocument(a) \/ AcquireLease(a) \/ SaveProcessing(a) \/ RereadDocument(a)
<1> USE DEF TypeOK
<1>1. CASE UNCHANGED vars \/ Expire
  BY <1>1 DEF vars, Expire, control
<1>2. ASSUME NEW b \in Attempt, Step(b)
      PROVE  \/ local'[a] = local[a]
             \/ a = b /\ (GetDocument(b) \/ AcquireLease(b) \/ SaveProcessing(b) \/ RereadDocument(b))
  BY <1>2 DEF Step, GetDocument, FindExisting, AcquireLease, LeaseBusy, LeaseBlocked, RereadLease,
     ClaimJob, ClaimRejected, FindWinner, SaveBuilding, SaveProcessing, SaveProcessingRejected,
     PutChunks, UpsertVectors, SaveReady, Activate, ActivateRejected, Reconcile,
     SupersedeGeneration, RetireData, CleanupData, FailGeneration, RereadDocument,
     RestoreDocument, FailJob, FailJobRejected, ReleaseLease
<1>3. ASSUME NEW b \in Attempt, Land(b) \/ Fault(b)
      PROVE  local'[a] = local[a]
  BY <1>3 DEF Land, Fault, RejectContent, CallFails, ReplyLost, ReconcileUnread, Cancel, Crash
<1> QED
  BY <1>1, <1>2, <1>3 DEF Next

-----------------------------------------------------------------------------
(* Types                                                                   *)

StoresOK ==
    /\ doc \in Document
    /\ lease \in LeaseItem
    /\ jobs \in [Job -> JobItem]
    /\ markers \in [Fingerprint -> Marker]
    /\ gens \in [Gen -> {"none", "building", "ready", "active", "failed", "superseded"}]
    /\ chunks \in [Gen -> Amount]
    /\ vectors \in [Gen -> Amount]

\* What is deleted in part leaves an amount.
LEMMA RemainsTyped == \A before \in Amount : Remains(before) \subseteq Amount
BY DEF Remains, Amount

\* A generation under construction is one, or none.
LEMMA GenTyped ==
  /\ \A g \in Gen : g.fp \in Fingerprint /\ g.job \in Job /\ g.fence \in 1..MaxFence
  /\ \A g \in MaybeGen : g.fence \in 0..MaxFence
  /\ NoGen \in MaybeGen /\ NoGen \notin Gen /\ NoGen.fence = 0
  /\ NoGen.fp = NoFingerprint /\ NoGen.job = NoJob
BY DEF Gen, MaybeGen, NoGen

\* Updates of single fields stay in the types of the records.
LEMMA DocumentUpdated ==
  ASSUME NEW d \in Document,
         NEW status \in {"uploaded", "processing", "indexed", "failed"}
  PROVE  /\ d.active \in MaybeGen /\ d.revision \in Nat
         /\ [d EXCEPT !.status = status, !.revision = @ + 1] \in Document
<1>1. d.active \in MaybeGen /\ d.revision \in Nat /\ d.revision + 1 \in Nat
  BY DEF Document
<1> QED
  BY <1>1 DEF Document

LEMMA JobUpdated ==
  ASSUME NEW f \in [Job -> JobItem], NEW j,
         NEW status \in {"pending", "running", "succeeded", "failed"}
  PROVE  [f EXCEPT ![j].status = status] \in [Job -> JobItem]
BY DEF JobItem

LEMMA MarkerUpdated ==
  ASSUME NEW m \in [Fingerprint -> Marker], NEW f,
         NEW status \in {"none", "running", "succeeded", "failed"}
  PROVE  [m EXCEPT ![f].status = status] \in [Fingerprint -> Marker]
BY DEF Marker

\* What an attempt remembers.
Memory == [active: MaybeGen, revision: Nat, gen: MaybeGen]

LEMMA MemoryUpdated ==
  ASSUME NEW m \in [Attempt -> Memory], NEW a \in Attempt, NEW g \in MaybeGen, NEW n \in Nat
  PROVE  /\ [m EXCEPT ![a].active = g, ![a].revision = n] \in [Attempt -> Memory]
         /\ [m EXCEPT ![a].revision = n] \in [Attempt -> Memory]
         /\ [m EXCEPT ![a].gen = g] \in [Attempt -> Memory]
         /\ m[a].active \in MaybeGen /\ m[a].revision \in Nat /\ m[a].gen \in MaybeGen
BY DEF Memory

\* The write of a call keeps the stores in their types.
LEMMA EffectTyped ==
  ASSUME TypeOK, NEW a \in Attempt, NEW call, Effect(a, call) \/ PartOf(a, call)
  PROVE  StoresOK'
<1> USE DEF TypeOK, StoresOK
<1> /\ local[a].gen \in MaybeGen /\ local[a].active \in MaybeGen /\ JobOf[a] \in Job
    /\ FingerprintOf[a] \in Fingerprint
  OBVIOUS
<1>1. CASE TakeLease(a)
  BY <1>1 DEF TakeLease, LeaseItem
<1>2. CASE DeleteLease(a)
  BY <1>2 DEF DeleteLease, NoLease, LeaseItem
<1>3. CASE WriteClaim(a)
  <2>1. jobs' \in [Job -> JobItem]
    BY <1>3 DEF WriteClaim, JobItem
  <2>2. markers' \in [Fingerprint -> Marker]
    BY <1>3 DEF WriteClaim, Marker
  <2> QED
    BY <1>3, <2>1, <2>2 DEF WriteClaim
<1>4. ASSUME NEW g, NEW status \in {"building", "ready", "superseded", "failed"},
             WriteGeneration(g, status)
      PROVE  StoresOK'
  BY <1>4 DEF WriteGeneration
<1>5. CASE WriteProcessing(a) \/ WriteRestored(a)
  <2>1. /\ [doc EXCEPT !.status = "processing", !.revision = @ + 1] \in Document
        /\ [doc EXCEPT !.status = "failed", !.revision = @ + 1] \in Document
    BY DocumentUpdated
  <2> QED
    BY <1>5, <2>1 DEF WriteProcessing, WriteRestored
<1>6. ASSUME NEW amount \in {"part", "all"}, WriteChunks(a, amount) \/ WriteVectors(a, amount)
      PROVE  StoresOK'
  BY <1>6 DEF WriteChunks, WriteVectors, Amount
<1>7. ASSUME NEW g, NEW partial, DeleteData(g, partial)
      PROVE  StoresOK'
  <2>1. PICK left \in Amount : chunks' = [chunks EXCEPT ![g] = left]
    <3>1. CASE g \in Gen
      BY <1>7, <3>1, RemainsTyped DEF DeleteData, Amount
    <3>2. CASE g \notin Gen
      <4>1. chunks' = chunks
        BY <1>7, <3>2 DEF DeleteData
      <4> QED
        BY <3>2, <4>1 DEF Amount
    <3> QED
      BY <3>1, <3>2
  <2>2. PICK rest \in Amount : vectors' = [vectors EXCEPT ![g] = rest]
    <3>1. CASE g \in Gen
      BY <1>7, <3>1, RemainsTyped DEF DeleteData, Amount
    <3>2. CASE g \notin Gen
      <4>1. vectors' = vectors
        BY <1>7, <3>2 DEF DeleteData
      <4> QED
        BY <3>2, <4>1 DEF Amount
    <3> QED
      BY <3>1, <3>2
  <2> QED
    BY <1>7, <2>1, <2>2 DEF DeleteData
<1>8. CASE WriteActivation(a)
  <2> DEFINE g == local[a].gen
  <2>1. doc' \in Document
    BY <1>8, DocumentUpdated DEF WriteActivation, Document
  <2>2. jobs' \in [Job -> JobItem]
    <3>1. [jobs EXCEPT ![g.job].status = "succeeded"] \in [Job -> JobItem]
      BY JobUpdated
    <3> QED
      BY <1>8, <3>1 DEF WriteActivation, JobItem
  <2>3. markers' \in [Fingerprint -> Marker]
    BY <1>8, MarkerUpdated DEF WriteActivation
  <2> QED
    BY <1>8, <2>1, <2>2, <2>3 DEF WriteActivation
<1>9. CASE WriteFailure(a)
  BY <1>9, JobUpdated, MarkerUpdated DEF WriteFailure
<1> QED
  BY <1>1, <1>2, <1>3, <1>4, <1>5, <1>6, <1>7, <1>8, <1>9 DEF Effect, PartOf

LEMMA StoresTyped == TypeOK /\ [Next]_vars => StoresOK'
<1> SUFFICES ASSUME TypeOK, [Next]_vars PROVE StoresOK'
  OBVIOUS
<1>1. CASE UNCHANGED stores
  BY <1>1 DEF stores, StoresOK, TypeOK
<1>2. CASE Expire
  BY <1>2 DEF Expire, StoresOK, TypeOK, LeaseItem
<1> QED
  BY <1>1, <1>2, StoresStep, EffectTyped

ControlOK ==
    /\ pc \in [Attempt -> Place]
    /\ local \in [Attempt -> Memory]
    /\ inflight \in [Attempt -> Write \cup {"none"}]
    /\ result \in [Attempt -> Result]
    /\ budget \in 0..MaxFaults

\* Every exception leads to a place.
LEMMA HandlerTyped ==
  \A place \in Write \cup {"blocked", "winner", "reread"} : Handler(place) \in Place
BY DEF Handler, Write, Place, Held, Prepare, Produce, Recover

\* Every step of an attempt takes it to a place.
LEMMA StepTyped == ASSUME TypeOK, NEW a \in Attempt, Step(a) PROVE ControlOK'
<1> USE DEF TypeOK, ControlOK, Goto, Finish
<1> DEFINE Moved == \E place \in Place, outcome \in Result :
        /\ pc' = [pc EXCEPT ![a] = place]
        /\ result' = result \/ result' = [result EXCEPT ![a] = outcome]
<1>1. Moved
  BY Step(a) DEF Step, GetDocument, FindExisting, AcquireLease, LeaseBusy, LeaseBlocked, RereadLease,
     ClaimJob, ClaimRejected, FindWinner, SaveBuilding, SaveProcessing, SaveProcessingRejected,
     PutChunks, UpsertVectors, SaveReady, Activate, ActivateRejected, Reconcile,
     SupersedeGeneration, RetireData, CleanupData, FailGeneration, RereadDocument,
     RestoreDocument, FailJob, FailJobRejected, ReleaseLease, AfterPublication,
     Place, Held, Prepare, Produce, Recover, Result
<1>2. inflight' = inflight /\ budget' = budget
  BY Step(a) DEF Step, GetDocument, FindExisting, AcquireLease, LeaseBusy, LeaseBlocked, RereadLease,
     ClaimJob, ClaimRejected, FindWinner, SaveBuilding, SaveProcessing, SaveProcessingRejected,
     PutChunks, UpsertVectors, SaveReady, Activate, ActivateRejected, Reconcile,
     SupersedeGeneration, RetireData, CleanupData, FailGeneration, RereadDocument,
     RestoreDocument, FailJob, FailJobRejected, ReleaseLease
<1>3. local' \in [Attempt -> Memory]
  <2> /\ local \in [Attempt -> Memory]
      /\ doc.active \in MaybeGen /\ doc.revision \in Nat
    BY DocumentUpdated DEF Memory
  <2>1. CASE GetDocument(a)
    BY <2>1, MemoryUpdated DEF GetDocument
  <2>2. CASE AcquireLease(a)
    <3>1. lease.fence + 1 \in 1..MaxFence
      BY <2>2 DEF AcquireLease, TakeLease, LeaseItem
    <3>2. NewGen(a) \in MaybeGen
      BY <3>1 DEF NewGen, Gen, MaybeGen
    <3> QED
      BY <2>2, <3>2, MemoryUpdated DEF AcquireLease
  <2>3. CASE SaveProcessing(a)
    <3>1. local[a].revision + 1 \in Nat
      BY MemoryUpdated
    <3>2. [local EXCEPT ![a].revision = @ + 1] \in [Attempt -> Memory]
      BY <3>1, MemoryUpdated
    <3> QED
      BY <2>3, <3>2 DEF SaveProcessing
  <2>4. CASE RereadDocument(a)
    <3>1. [local EXCEPT ![a].revision = doc.revision] \in [Attempt -> Memory]
      BY MemoryUpdated
    <3> QED
      BY <2>4, <3>1 DEF RereadDocument
  <2>5. CASE local' = local
    BY <2>5
  <2> QED
    BY <2>1, <2>2, <2>3, <2>4, <2>5, Step(a) DEF Step, FindExisting, LeaseBusy, LeaseBlocked,
       RereadLease, ClaimJob, ClaimRejected, FindWinner, SaveBuilding, SaveProcessingRejected,
       PutChunks, UpsertVectors, SaveReady, Activate, ActivateRejected, Reconcile,
       SupersedeGeneration, RetireData, CleanupData, FailGeneration,
       RestoreDocument, FailJob, FailJobRejected, ReleaseLease
<1>4. PICK place \in Place, outcome \in Result :
        /\ pc' = [pc EXCEPT ![a] = place]
        /\ result' = result \/ result' = [result EXCEPT ![a] = outcome]
  BY <1>1
<1>5. pc' \in [Attempt -> Place] /\ result' \in [Attempt -> Result]
  BY <1>4
<1> QED
  BY <1>2, <1>3, <1>5

LEMMA FaultTyped == ASSUME TypeOK, NEW a \in Attempt, Fault(a) PROVE ControlOK'
<1> USE DEF TypeOK, ControlOK, Memory, Goto, Finish, Strike
<1>1. budget' \in 0..MaxFaults
  BY Fault(a) DEF Fault, RejectContent, CallFails, ReplyLost, ReconcileUnread, Cancel, Crash
<1>2. CASE RejectContent(a) \/ ReconcileUnread(a) \/ Crash(a)
  BY <1>1, <1>2 DEF RejectContent, ReconcileUnread, Crash, Place, Held, Recover, Result
<1>3. CASE CallFails(a) \/ ReplyLost(a)
  <2>1. Handler(pc[a]) \in Place
    BY <1>3, HandlerTyped DEF CallFails, ReplyLost
  <2>2. pc' \in [Attempt -> Place] /\ result' \in [Attempt -> Result]
    <3>1. Raise(a)
      BY <1>3 DEF CallFails, ReplyLost
    <3>2. "error" \in Result
      BY DEF Result
    <3> QED
      BY <2>1, <3>1, <3>2 DEF Raise
  <2> QED
    BY <1>1, <1>3, <2>1, <2>2 DEF CallFails, ReplyLost, Memory
<1>4. CASE Cancel(a)
  BY <1>1, <1>4 DEF Cancel, Place, Held, Result
<1> QED
  BY <1>2, <1>3, <1>4 DEF Fault

\* Every action keeps the variables in their types.
LEMMA TypeStep == TypeOK /\ [Next]_vars => TypeOK'
<1> SUFFICES ASSUME TypeOK, [Next]_vars PROVE ControlOK'
  BY StoresTyped DEF TypeOK, StoresOK, ControlOK, Memory
<1>1. CASE UNCHANGED vars
  BY <1>1 DEF vars, control, TypeOK, ControlOK, Memory
<1>2. CASE Expire
  BY <1>2 DEF Expire, Strike, control, TypeOK, ControlOK, Memory
<1>3. ASSUME NEW a \in Attempt, Land(a) PROVE ControlOK'
  BY <1>3 DEF Land, TypeOK, ControlOK, Memory
<1> QED
  BY <1>1, <1>2, <1>3, StepTyped, FaultTyped DEF Next

LEMMA TypeInit == Init => TypeOK
<1> SUFFICES ASSUME Init PROVE TypeOK
  OBVIOUS
<1> USE DEF Init
<1>1. doc \in Document /\ lease \in LeaseItem
  BY GenTyped DEF Document, LeaseItem, NoLease
<1>2. jobs \in [Job -> JobItem] /\ markers \in [Fingerprint -> Marker]
  BY GenTyped DEF JobItem, Marker, NoMarker
<1> QED
  BY <1>1, <1>2, GenTyped DEF TypeOK, Amount, Place, Result

\* The types of the records, the stores and the attempts, for every set of
\* attempts and whatever faults strike.
THEOREM IngestionTypeCorrect == Spec => []TypeOK
BY TypeInit, TypeStep, PTL DEF Spec

-----------------------------------------------------------------------------
(* The inductive invariant                                                 *)

\* The document, the jobs and the markers are written by five calls only.
LEMMA RecordsStep ==
  ASSUME [Next]_vars
  PROVE  \/ UNCHANGED <<doc, jobs, markers>>
         \/ \E a \in Attempt :
              \/ "processing" \in Calls(a) /\ WriteProcessing(a)
              \/ "restore" \in Calls(a) /\ WriteRestored(a)
              \/ WriteClaim(a) \/ WriteActivation(a) \/ WriteFailure(a)
<1>1. CASE UNCHANGED stores \/ Expire
  BY <1>1 DEF stores, Expire
<1>2. ASSUME NEW a \in Attempt, NEW call \in Calls(a), Effect(a, call)
      PROVE  \/ UNCHANGED <<doc, jobs, markers>>
             \/ "processing" \in Calls(a) /\ WriteProcessing(a)
             \/ "restore" \in Calls(a) /\ WriteRestored(a)
             \/ WriteClaim(a) \/ WriteActivation(a) \/ WriteFailure(a)
  BY <1>2 DEF Effect, TakeLease, WriteGeneration, WriteChunks, WriteVectors, DeleteData, DeleteLease
<1>3. ASSUME NEW a \in Attempt, NEW call \in Calls(a), PartOf(a, call)
      PROVE  UNCHANGED <<doc, jobs, markers>>
  BY <1>3 DEF PartOf, WriteChunks, WriteVectors, DeleteData
<1> QED
  BY <1>1, <1>2, <1>3, StoresStep

\* No exception leads back to a start, to a save of PROCESSING or to a restore.
LEMMA HandlerLeads ==
  \A place \in Write \cup {"blocked", "winner", "reread"} :
      Handler(place) \notin {"idle", "processing", "restore"}
BY DEF Handler, Write, Prepare

\* How an attempt comes to the calls the invariant is about.
LEMMA CallsStep ==
  ASSUME TypeOK, [Next]_vars, NEW b \in Attempt
  PROVE  /\ pc'[b] = "idle" => pc[b] = "idle" /\ inflight'[b] \in {inflight[b], "none"}
         /\ "processing" \in Calls(b)' =>
                "processing" \in Calls(b) \/ (local[b].active = NoGen /\ local' = local)
         /\ "restore" \in Calls(b)' => "restore" \in Calls(b) \/ RereadDocument(b)
<1> DEFINE Goal(a) ==
         /\ pc'[a] = "idle" => pc[a] = "idle" /\ inflight'[a] \in {inflight[a], "none"}
         /\ "processing" \in Calls(a)' =>
                "processing" \in Calls(a) \/ (local[a].active = NoGen /\ local' = local)
         /\ "restore" \in Calls(a)' => "restore" \in Calls(a) \/ RereadDocument(a)
<1> USE DEF TypeOK, Calls, Goto, Finish
<1>1. CASE UNCHANGED vars \/ Expire
  BY <1>1 DEF vars, Expire, control
<1>2. ASSUME NEW a \in Attempt, a # b, Step(a) \/ Land(a) \/ Fault(a)
      PROVE  pc'[b] = pc[b] /\ inflight'[b] = inflight[b]
  <2>1. CASE Step(a)
    BY <1>2, <2>1 DEF Step, GetDocument, FindExisting, AcquireLease, LeaseBusy, LeaseBlocked, RereadLease,
       ClaimJob, ClaimRejected, FindWinner, SaveBuilding, SaveProcessing, SaveProcessingRejected,
       PutChunks, UpsertVectors, SaveReady, Activate, ActivateRejected, Reconcile,
       SupersedeGeneration, RetireData, CleanupData, FailGeneration, RereadDocument,
       RestoreDocument, FailJob, FailJobRejected, ReleaseLease
  <2>2. CASE Land(a) \/ Fault(a)
    BY <1>2, <2>2 DEF Land, Fault, RejectContent, CallFails, ReplyLost, ReconcileUnread, Raise,
       Cancel, Crash
  <2> QED
    BY <1>2, <2>1, <2>2
<1>3. CASE Step(b)
  BY <1>3 DEF Step, GetDocument, FindExisting, AcquireLease, LeaseBusy, LeaseBlocked, RereadLease,
     ClaimJob, ClaimRejected, FindWinner, SaveBuilding, SaveProcessing, SaveProcessingRejected,
     PutChunks, UpsertVectors, SaveReady, Activate, ActivateRejected, Reconcile,
     SupersedeGeneration, RetireData, CleanupData, FailGeneration, RereadDocument,
     RestoreDocument, FailJob, FailJobRejected, ReleaseLease, AfterPublication
<1>4. CASE Land(b)
  BY <1>4 DEF Land
<1>5. CASE CallFails(b) \/ ReplyLost(b)
  <2>1. pc'[b] = Handler(pc[b]) /\ inflight' = inflight
    BY <1>5 DEF CallFails, ReplyLost, Raise
  <2>2. Handler(pc[b]) \notin {"idle", "processing", "restore"}
    BY <1>5, HandlerLeads DEF CallFails, ReplyLost
  <2> QED
    BY <2>1, <2>2
<1>6. CASE RejectContent(b) \/ ReconcileUnread(b) \/ Crash(b)
  BY <1>6 DEF RejectContent, ReconcileUnread, Crash
<1>7. CASE Cancel(b)
  BY <1>7 DEF Cancel
<1> QED
  BY <1>1, <1>2, <1>3, <1>4, <1>5, <1>6, <1>7 DEF Next, Fault

\* A write of the document moves its revision on, so that what was read before
\* is told apart from what is written now.
LEMMA RevisionStep ==
  ASSUME TypeOK, [Next]_vars
  PROVE  /\ doc' # doc => doc'.revision = doc.revision + 1
         /\ doc.revision \in Nat /\ doc.active \in MaybeGen
<1> /\ doc.revision \in Nat /\ doc.active \in MaybeGen /\ doc \in Document
  BY DocumentUpdated DEF TypeOK
<1>1. ASSUME NEW a \in Attempt, WriteProcessing(a) \/ WriteRestored(a)
      PROVE  doc'.revision = doc.revision + 1
  BY <1>1 DEF WriteProcessing, WriteRestored, Document
<1>2. ASSUME NEW a \in Attempt, WriteActivation(a)
      PROVE  doc'.revision = doc.revision + 1
  BY <1>2 DEF WriteActivation
<1>3. ASSUME NEW a \in Attempt, WriteClaim(a) \/ WriteFailure(a)
      PROVE  doc' = doc
  BY <1>3 DEF WriteClaim, WriteFailure
<1> QED
  BY <1>1, <1>2, <1>3, RecordsStep

LEMMA RevisionCurrentStep ==
  ASSUME TypeOK, RevisionCurrent, [Next]_vars
  PROVE  RevisionCurrent'
<1> SUFFICES ASSUME NEW a \in Attempt
             PROVE  /\ local'[a].revision <= doc'.revision
                    /\ local'[a].revision = doc'.revision => doc'.active \in {NoGen, local'[a].active}
  BY DEF RevisionCurrent
<1> /\ doc.revision \in Nat /\ doc.active \in MaybeGen /\ doc \in Document
    /\ local \in [Attempt -> Memory] /\ local[a].revision \in Nat
  BY RevisionStep, MemoryUpdated DEF TypeOK, Memory
<1> /\ local[a].revision <= doc.revision
    /\ local[a].revision = doc.revision => doc.active \in {NoGen, local[a].active}
  BY DEF RevisionCurrent
<1>1. CASE local'[a] = local[a]
  BY <1>1, RevisionStep
<1>2. CASE GetDocument(a)
  <2>1. doc' = doc /\ local'[a].revision = doc.revision /\ local'[a].active = doc.active
    BY <1>2 DEF GetDocument, stores, Memory
  <2> QED
    BY <2>1
<1>3. CASE AcquireLease(a)
  <2>1. doc' = doc /\ local'[a].revision = local[a].revision /\ local'[a].active = local[a].active
    BY <1>3 DEF AcquireLease, TakeLease, Memory
  <2> QED
    BY <2>1
<1>4. CASE SaveProcessing(a)
  <2>1. /\ local'[a].revision = local[a].revision + 1 /\ local'[a].active = local[a].active
        /\ doc'.revision = doc.revision + 1 /\ doc.revision = local[a].revision
        /\ doc'.active = doc.active
    BY <1>4 DEF SaveProcessing, WriteProcessing, Memory, Document
  <2> QED
    BY <2>1
<1>5. CASE RereadDocument(a)
  <2>1. CASE local' = local
    BY <2>1, <1>5 DEF RereadDocument, stores
  <2>2. CASE local' # local
    <3>1. doc' = doc /\ local'[a].revision = doc.revision /\ doc.active = NoGen
      BY <1>5, <2>2 DEF RereadDocument, stores, Memory
    <3> QED
      BY <3>1
  <2> QED
    BY <2>1, <2>2
<1> QED
  BY <1>1, <1>2, <1>3, <1>4, <1>5, LocalStep

\* Which generation an attempt read as active is settled with its first call.
LEMMA ActiveReadOnce ==
  ASSUME TypeOK, [Next]_vars, NEW a \in Attempt
  PROVE  local'[a].active = local[a].active \/ GetDocument(a)
<1> local \in [Attempt -> Memory]
  BY DEF TypeOK, Memory
<1> QED
  BY LocalStep DEF AcquireLease, SaveProcessing, RereadDocument, Memory

LEMMA ProcessingUnpublishedStep ==
  ASSUME TypeOK, IdleIsFresh, ProcessingUnpublished, [Next]_vars
  PROVE  ProcessingUnpublished'
<1> SUFFICES ASSUME NEW a \in Attempt, "processing" \in Calls(a)'
             PROVE  local'[a].active = NoGen
  BY DEF ProcessingUnpublished
<1>1. CASE GetDocument(a)
  BY <1>1 DEF GetDocument, IdleIsFresh, Calls, Goto, TypeOK
<1>2. CASE local'[a].active = local[a].active
  BY <1>2, CallsStep DEF ProcessingUnpublished
<1> QED
  BY <1>1, <1>2, ActiveReadOnce

LEMMA RestoreUnpublishedStep ==
  ASSUME TypeOK, IdleIsFresh, RevisionCurrent, RestoreUnpublished, [Next]_vars
  PROVE  RestoreUnpublished'
<1> SUFFICES ASSUME NEW a \in Attempt, "restore" \in Calls(a)',
                    local'[a].revision = doc'.revision
             PROVE  doc'.active = NoGen
  BY DEF RestoreUnpublished
<1> /\ doc.revision \in Nat /\ doc \in Document
    /\ local \in [Attempt -> Memory] /\ local[a].revision \in Nat
    /\ local[a].revision <= doc.revision
  BY RevisionStep, MemoryUpdated DEF TypeOK, Memory, RevisionCurrent
<1>1. CASE RereadDocument(a)
  <2>1. doc' = doc /\ inflight' = inflight
    BY <1>1 DEF RereadDocument, stores
  <2>2. CASE doc.active # NoGen
    <3>1. local' = local /\ pc'[a] # "restore"
      BY <1>1, <2>2 DEF RereadDocument, Goto, TypeOK
    <3> QED
      BY <2>1, <3>1 DEF Calls, RestoreUnpublished
  <2> QED
    BY <2>1, <2>2
<1>2. CASE GetDocument(a)
  BY <1>2 DEF GetDocument, IdleIsFresh, Calls, Goto, TypeOK
<1>3. CASE SaveProcessing(a)
  <2>1. doc'.active = doc.active /\ local[a].revision = doc.revision
    BY <1>3 DEF SaveProcessing, WriteProcessing, Document
  <2> QED
    BY <1>3, <2>1, CallsStep DEF RestoreUnpublished, SaveProcessing, RereadDocument
<1>4. CASE local'[a].revision = local[a].revision /\ ~RereadDocument(a)
  <2>1. doc' = doc
    BY <1>4, RevisionStep
  <2> QED
    BY <1>4, <2>1, CallsStep DEF RestoreUnpublished
<1> QED
  BY <1>1, <1>2, <1>3, <1>4, LocalStep DEF AcquireLease, Memory

-----------------------------------------------------------------------------
(* What the transactions do to the jobs and the markers                     *)

\* The records between which a claim, an activation or a failure is decided.
LEMMA RecordsTyped ==
  ASSUME TypeOK, NEW j \in Job, NEW f \in Fingerprint
  PROVE  /\ jobs[j].gen \in MaybeGen /\ jobs[j].status \in {"pending", "running", "succeeded", "failed"}
         /\ markers[f].gen \in MaybeGen
BY DEF TypeOK, JobItem, Marker

\* Where a success is marked.
LEMMA MarkerOfSuccess ==
  ASSUME TypeOK, SuccessMarked, NEW j \in Job, jobs[j].status = "succeeded"
  PROVE  LET g == jobs[j].gen IN
         /\ g \in Gen /\ g # NoGen /\ g.fp \in Fingerprint
         /\ markers[g.fp] = [gen |-> g, status |-> "succeeded"]
         /\ markers[g.fp].gen = g /\ markers[g.fp].status = "succeeded"
<1>1. jobs[j].gen # NoGen /\ jobs[j].gen \in MaybeGen
  BY RecordsTyped DEF SuccessMarked, TypeOK, JobItem
<1>2. jobs[j].gen \in Gen /\ jobs[j].gen.fp \in Fingerprint
  BY <1>1, GenTyped DEF MaybeGen
<1>3. markers[jobs[j].gen.fp] = [gen |-> jobs[j].gen, status |-> "succeeded"]
  BY DEF SuccessMarked
<1> QED
  BY <1>1, <1>2, <1>3

\* A claim takes over no success, of a job or on a marker.
LEMMA ClaimSpares ==
  ASSUME TypeOK, NEW a \in Attempt, WriteClaim(a)
  PROVE  /\ \A j \in Job : jobs[j].status = "succeeded" => jobs'[j] = jobs[j]
         /\ \A f \in Fingerprint : markers[f].status = "succeeded" => markers'[f] = markers[f]
         /\ \A j \in Job : jobs'[j] = jobs[j] \/ (/\ jobs'[j].status = "running"
                                                  /\ jobs'[j].gen.job = j)
         /\ doc' = doc
<1> DEFINE g == local[a].gen
<1>1. /\ jobs' = [jobs EXCEPT ![g.job] = [status |-> "running", gen |-> g, completed |-> NoAttempt]]
      /\ markers' = [markers EXCEPT ![g.fp] = [gen |-> g, status |-> "running"]]
      /\ doc' = doc
      /\ jobs[g.job].status # "succeeded"
      /\ markers[g.fp].status # "succeeded"
  BY DEF WriteClaim, CanClaim, Replaceable, NoMarker
<1> QED
  BY <1>1 DEF TypeOK

\* A failure withdraws no success.
LEMMA FailureSpares ==
  ASSUME TypeOK, NEW a \in Attempt, WriteFailure(a)
  PROVE  /\ \A j \in Job : jobs[j].status = "succeeded" => jobs'[j] = jobs[j]
         /\ \A f \in Fingerprint : markers[f].status = "succeeded" => markers'[f] = markers[f]
         /\ \A j \in Job : jobs'[j] = jobs[j] \/ (/\ jobs'[j].status = "failed"
                                                  /\ jobs'[j].gen = jobs[j].gen)
         /\ doc' = doc
<1> DEFINE g == local[a].gen
<1>1. /\ jobs' = [jobs EXCEPT ![g.job].status = "failed"]
      /\ markers' = [markers EXCEPT ![g.fp].status = "failed"]
      /\ doc' = doc
      /\ jobs[g.job].status # "succeeded"
      /\ markers[g.fp].status # "succeeded"
  BY DEF WriteFailure, CanFail
<1> QED
  BY <1>1 DEF TypeOK, JobItem, Marker

\* An activation publishes a generation of a job that ran, for a fingerprint
\* that no other job has published.
LEMMA ActivationPublishes ==
  ASSUME TypeOK, JobsOwnGeneration, SuccessMarked, NEW a \in Attempt, WriteActivation(a)
  PROVE  LET g == local[a].gen IN
         /\ g \in Gen /\ doc.active.fence < g.fence
         /\ doc'.active = g /\ doc'.status = "indexed"
         /\ jobs[g.job].status = "running" /\ jobs[g.job].gen = g
         /\ jobs'[g.job].status = "succeeded" /\ jobs'[g.job].gen = g
         /\ markers'[g.fp] = [gen |-> g, status |-> "succeeded"]
         /\ \A j \in Job : j # g.job => jobs'[j] = jobs[j]
         /\ \A f \in Fingerprint : f # g.fp => markers'[f] = markers[f]
         /\ \A j \in Job : jobs[j].status = "succeeded" => jobs[j].gen.fp # g.fp
<1> DEFINE g == local[a].gen
<1>1. g \in MaybeGen /\ doc.active \in MaybeGen
  BY DEF TypeOK, Document
<1>2. doc.active.fence < g.fence /\ doc.active.fence >= 0
  BY <1>1, GenTyped DEF WriteActivation, CanPublish
<1>3. g \in Gen
  BY <1>1, <1>2, GenTyped DEF MaybeGen
<1>4. g.job \in Job /\ g.fp \in Fingerprint
  BY <1>3, GenTyped
<1>5. /\ jobs[g.job].status = "running" /\ jobs[g.job].gen = g /\ markers[g.fp].gen = g
      /\ doc' = [status |-> "indexed", active |-> g, revision |-> doc.revision + 1]
      /\ jobs' = [jobs EXCEPT ![g.job].status = "succeeded", ![g.job].completed = a]
      /\ markers' = [markers EXCEPT ![g.fp].status = "succeeded"]
  BY DEF WriteActivation, CanPublish
<1>6. /\ jobs'[g.job].status = "succeeded" /\ jobs'[g.job].gen = g
      /\ \A j \in Job : j # g.job => jobs'[j] = jobs[j]
  BY <1>4, <1>5 DEF TypeOK, JobItem
<1>7. /\ markers'[g.fp] = [gen |-> g, status |-> "succeeded"]
      /\ \A f \in Fingerprint : f # g.fp => markers'[f] = markers[f]
  BY <1>4, <1>5 DEF TypeOK, Marker
<1>8. ASSUME NEW j \in Job, jobs[j].status = "succeeded", jobs[j].gen.fp = g.fp
      PROVE  FALSE
  <2>1. jobs[j].gen # NoGen /\ markers[g.fp].gen = jobs[j].gen
    BY <1>8, MarkerOfSuccess
  <2>2. jobs[j].gen = g /\ g.job = j
    BY <1>5, <2>1 DEF JobsOwnGeneration
  <2> QED
    BY <1>5, <1>8, <2>2
<1> QED
  BY <1>2, <1>3, <1>5, <1>6, <1>7, <1>8

LEMMA JobsOwnGenerationStep ==
  ASSUME TypeOK, JobsOwnGeneration, SuccessMarked, [Next]_vars
  PROVE  JobsOwnGeneration'
<1> SUFFICES ASSUME NEW j \in Job, jobs'[j].gen # NoGen PROVE jobs'[j].gen.job = j
  BY DEF JobsOwnGeneration
<1>1. CASE jobs' = jobs
  BY <1>1 DEF JobsOwnGeneration
<1>2. ASSUME NEW a \in Attempt, WriteClaim(a) PROVE jobs'[j].gen.job = j
  BY <1>2, ClaimSpares DEF JobsOwnGeneration
<1>3. ASSUME NEW a \in Attempt, WriteFailure(a) PROVE jobs'[j].gen.job = j
  BY <1>3, FailureSpares DEF JobsOwnGeneration
<1>4. ASSUME NEW a \in Attempt, WriteActivation(a) PROVE jobs'[j].gen.job = j
  <2>1. jobs'[j].gen = jobs[j].gen
    BY <1>4, ActivationPublishes
  <2> QED
    BY <2>1 DEF JobsOwnGeneration
<1> QED
  BY <1>1, <1>2, <1>3, <1>4, RecordsStep DEF WriteProcessing, WriteRestored

LEMMA SuccessMarkedStep ==
  ASSUME TypeOK, JobsOwnGeneration, SuccessMarked, [Next]_vars
  PROVE  SuccessMarked'
<1> SUFFICES ASSUME NEW j \in Job, jobs'[j].status = "succeeded"
             PROVE  /\ jobs'[j].gen # NoGen
                    /\ markers'[jobs'[j].gen.fp] = [gen |-> jobs'[j].gen, status |-> "succeeded"]
  BY DEF SuccessMarked
<1>1. CASE UNCHANGED <<jobs, markers>>
  BY <1>1 DEF SuccessMarked
<1>2. ASSUME NEW a \in Attempt, WriteClaim(a) \/ WriteFailure(a)
      PROVE  /\ jobs'[j].gen # NoGen
             /\ markers'[jobs'[j].gen.fp] = [gen |-> jobs'[j].gen, status |-> "succeeded"]
  <2>1. /\ jobs[j].status = "succeeded" /\ jobs'[j] = jobs[j]
        /\ \A f \in Fingerprint : markers[f].status = "succeeded" => markers'[f] = markers[f]
    BY <1>2, ClaimSpares, FailureSpares
  <2> QED
    BY <2>1, MarkerOfSuccess
<1>3. ASSUME NEW a \in Attempt, WriteActivation(a)
      PROVE  /\ jobs'[j].gen # NoGen
             /\ markers'[jobs'[j].gen.fp] = [gen |-> jobs'[j].gen, status |-> "succeeded"]
  <2> DEFINE g == local[a].gen
  <2>1. CASE j = g.job
    BY <1>3, <2>1, ActivationPublishes, GenTyped
  <2>2. CASE j # g.job
    <3>1. jobs'[j] = jobs[j] /\ jobs[j].gen.fp # g.fp
      BY <1>3, <2>2, ActivationPublishes
    <3>2. \A f \in Fingerprint : f # g.fp => markers'[f] = markers[f]
      BY <1>3, ActivationPublishes
    <3> QED
      BY <3>1, <3>2, MarkerOfSuccess
  <2> QED
    BY <2>1, <2>2
<1> QED
  BY <1>1, <1>2, <1>3, RecordsStep DEF WriteProcessing, WriteRestored

\* The active generation of a document is a success, so no claim and no failure
\* touches its records, and it carries a revision that no save can present.
LEMMA PublicationStep ==
  ASSUME IInv, [Next]_vars
  PROVE  PublicationConsistent'
<1> USE DEF IInv
<1> DEFINE Consistent(g) ==
      g # NoGen =>
         /\ doc'.status = "indexed"
         /\ jobs'[g.job].status = "succeeded" /\ jobs'[g.job].gen = g
         /\ markers'[g.fp] = [gen |-> g, status |-> "succeeded"]
<1> SUFFICES Consistent(doc'.active)
  BY DEF PublicationConsistent
<1>1. CASE UNCHANGED <<doc, jobs, markers>>
  BY <1>1 DEF PublicationConsistent
<1>2. ASSUME NEW a \in Attempt, "processing" \in Calls(a), WriteProcessing(a)
      PROVE  Consistent(doc'.active)
  <2>1. doc'.active = NoGen
    BY <1>2 DEF ProcessingUnpublished, RevisionCurrent, WriteProcessing, TypeOK, Document
  <2> QED
    BY <2>1
<1>3. ASSUME NEW a \in Attempt, "restore" \in Calls(a), WriteRestored(a)
      PROVE  Consistent(doc'.active)
  <2>1. doc'.active = NoGen
    BY <1>3 DEF RestoreUnpublished, WriteRestored, TypeOK, Document
  <2> QED
    BY <2>1
<1>4. ASSUME NEW a \in Attempt, WriteClaim(a) \/ WriteFailure(a)
      PROVE  Consistent(doc'.active)
  <2>1. /\ doc' = doc
        /\ \A j \in Job : jobs[j].status = "succeeded" => jobs'[j] = jobs[j]
        /\ \A f \in Fingerprint : markers[f].status = "succeeded" => markers'[f] = markers[f]
    BY <1>4, ClaimSpares, FailureSpares
  <2>2. doc.active # NoGen => doc.active.job \in Job /\ doc.active.fp \in Fingerprint
    BY GenTyped DEF TypeOK, Document, MaybeGen
  <2> QED
    BY <2>1, <2>2 DEF PublicationConsistent
<1>5. ASSUME NEW a \in Attempt, WriteActivation(a)
      PROVE  Consistent(doc'.active)
  BY <1>5, ActivationPublishes
<1> QED
  BY <1>1, <1>2, <1>3, <1>4, <1>5, RecordsStep

LEMMA InvariantStep == IInv /\ [Next]_vars => IInv'
<1> SUFFICES ASSUME IInv, [Next]_vars PROVE IInv'
  OBVIOUS
<1>1. IdleIsFresh'
  BY CallsStep DEF IInv, IdleIsFresh
<1>2. RevisionCurrent' /\ ProcessingUnpublished' /\ RestoreUnpublished'
  BY RevisionCurrentStep, ProcessingUnpublishedStep, RestoreUnpublishedStep DEF IInv
<1>3. JobsOwnGeneration' /\ SuccessMarked' /\ PublicationConsistent'
  BY JobsOwnGenerationStep, SuccessMarkedStep, PublicationStep DEF IInv
<1> QED
  BY <1>1, <1>2, <1>3, TypeStep DEF IInv

LEMMA InvariantInit == Init => IInv
BY TypeInit DEF Init, IInv, IdleIsFresh, RevisionCurrent, ProcessingUnpublished,
   RestoreUnpublished, JobsOwnGeneration, SuccessMarked, PublicationConsistent, Calls

\* The inductive invariant holds for any number of attempts of any jobs.
THEOREM IngestionInvariant == Spec => []IInv
BY InvariantInit, InvariantStep, PTL DEF Spec

\* The document, the job and the fingerprint's marker agree on what is published,
\* whatever calls fail, land late or are repeated by another attempt.
THEOREM PublicationIsConsistent == Spec => []PublicationConsistent
<1>1. IInv => PublicationConsistent
  BY DEF IInv
<1> QED
  BY <1>1, IngestionInvariant, PTL

-----------------------------------------------------------------------------
(* Refinement                                                              *)

\* The generation each succeeded job reports, as module Publication sees it.
Outcome == [j \in Job |-> IF jobs[j].status = "succeeded" THEN jobs[j].gen ELSE NoGen]

\* Every step publishes one generation, or leaves the pointer and the outcomes alone.
LEMMA PublicationRefined ==
  ASSUME IInv, [Next]_vars
  PROVE  \/ UNCHANGED <<doc.active, Outcome>>
         \/ Abstract!Next
<1> USE DEF IInv
<1>1. CASE UNCHANGED <<doc, jobs, markers>>
  BY <1>1 DEF Outcome
<1>2. ASSUME NEW a \in Attempt, WriteProcessing(a) \/ WriteRestored(a)
      PROVE  UNCHANGED <<doc.active, Outcome>>
  <2>1. doc \in Document /\ jobs' = jobs
        /\ \E status : doc' = [doc EXCEPT !.status = status, !.revision = @ + 1]
    BY <1>2 DEF WriteProcessing, WriteRestored, TypeOK
  <2> QED
    BY <2>1 DEF Outcome, Document
<1>3. ASSUME NEW a \in Attempt, WriteClaim(a) \/ WriteFailure(a)
      PROVE  UNCHANGED <<doc.active, Outcome>>
  <2>1. /\ doc' = doc
        /\ \A j \in Job : jobs[j].status = "succeeded" => jobs'[j] = jobs[j]
        /\ \A j \in Job : jobs[j].status # "succeeded" => jobs'[j].status # "succeeded"
    BY <1>3, ClaimSpares, FailureSpares
  <2> QED
    BY <2>1 DEF Outcome
<1>4. ASSUME NEW a \in Attempt, WriteActivation(a)
      PROVE  Abstract!Next
  <2>1. PICK g \in Gen : g = local[a].gen
    BY <1>4, ActivationPublishes
  <2>2. /\ doc.active.fence < g.fence /\ doc'.active = g
        /\ jobs[g.job].status = "running"
        /\ jobs'[g.job].status = "succeeded" /\ jobs'[g.job].gen = g
        /\ \A j \in Job : j # g.job => jobs'[j] = jobs[j]
        /\ \A j \in Job : jobs[j].status = "succeeded" => jobs[j].gen.fp # g.fp
    BY <1>4, <2>1, ActivationPublishes
  <2>3. g.job \in Job /\ g.fp \in Fingerprint
    BY GenTyped
  <2>4. Outcome[g.job] = NoGen /\ \A j \in Job : Outcome[j].fp # g.fp
    BY <2>2, <2>3, GenTyped DEF Outcome
  <2>5. Outcome' = [Outcome EXCEPT ![g.job] = g]
    BY <2>2, <2>3 DEF Outcome
  <2>6. Abstract!Publish(g)
    BY <2>2, <2>4, <2>5 DEF Abstract!Publish, Outcome
  <2> QED
    BY <2>6 DEF Abstract!Next
<1> QED
  BY <1>1, <1>2, <1>3, <1>4, RecordsStep

\* Ingestion implements Publication: for any number of attempts, deliveries,
\* takeovers and faults, the pointer and the outcome of the job change in one
\* step, once per fingerprint, with growing tokens, and for good.
THEOREM IngestionImplementsPublication == Spec => PublishesAtomically
<1>1. Init => Abstract!Init
  BY DEF Init, Abstract!Init
<1>2. IInv /\ [Next]_vars => [Abstract!Next]_<<doc.active, Outcome>>
  BY PublicationRefined
<1>3. IInv /\ [Next]_vars =>
        [Abstract!Next]_<<doc.active, [j \in Job |-> IF jobs[j].status = "succeeded"
                                                     THEN jobs[j].gen ELSE NoGen]>>
  BY <1>2 DEF Outcome
<1> QED
  BY <1>1, <1>3, IngestionInvariant, PTL DEF Spec, PublishesAtomically, Abstract!Spec

-----------------------------------------------------------------------------
(* Jobs that are delivered once                                             *)

\* The lease item names an attempt of its owner's job, whoever takes it or lets
\* it go, in time or late.
LEMMA LeaseOfExecutionStep ==
  ASSUME TypeOK, LeaseOfExecution, [Next]_vars
  PROVE  LeaseOfExecution'
<1>1. CASE UNCHANGED stores \/ Expire
  BY <1>1 DEF stores, Expire, LeaseOfExecution, TypeOK, LeaseItem
<1>2. ASSUME NEW a \in Attempt, NEW call \in Calls(a), Effect(a, call)
      PROVE  LeaseOfExecution'
  <2>1. CASE TakeLease(a)
    BY <2>1 DEF TakeLease, LeaseOfExecution
  <2>2. CASE DeleteLease(a)
    BY <2>2 DEF DeleteLease, NoLease, LeaseOfExecution
  <2>3. CASE lease' = lease
    BY <2>3 DEF LeaseOfExecution
  <2> QED
    BY <1>2, <2>1, <2>2, <2>3 DEF Effect, WriteClaim, WriteGeneration, WriteProcessing, WriteChunks,
       WriteVectors, WriteActivation, DeleteData, WriteRestored, WriteFailure
<1>3. ASSUME NEW a \in Attempt, NEW call \in Calls(a), PartOf(a, call)
      PROVE  lease' = lease
  BY <1>3 DEF PartOf, WriteChunks, WriteVectors, DeleteData
<1> QED
  BY <1>1, <1>2, <1>3, StoresStep DEF LeaseOfExecution

\* A success carries the time of the attempt that wrote it, and only the attempt
\* the lease item names can write one.
LEMMA PublishedByHolderStep ==
  ASSUME DeliveredOnce, TypeOK, LeaseOfExecution, [Next]_vars,
         NEW j \in Job, jobs'[j].completed \notin {NoAttempt, jobs[j].completed}
  PROVE  lease.execution = jobs'[j].completed
<1> USE DEF TypeOK
<1>1. ASSUME NEW a \in Attempt, WriteClaim(a) PROVE FALSE
  <2> DEFINE claimed == [status |-> "running", gen |-> local[a].gen, completed |-> NoAttempt]
  <2>1. jobs'[j] = jobs[j] \/ jobs'[j] = claimed
    BY <1>1 DEF WriteClaim
  <2> QED
    BY <2>1
<1>2. ASSUME NEW a \in Attempt, WriteFailure(a) PROVE FALSE
  BY <1>2 DEF WriteFailure, JobItem
<1>3. ASSUME NEW a \in Attempt, WriteActivation(a) PROVE lease.execution = jobs'[j].completed
  <2>1. jobs'[j].completed = a
    BY <1>3 DEF WriteActivation, JobItem
  <2>2. lease.owner = JobOf[a] /\ JobOf[a] # NoJob
    BY <1>3 DEF WriteActivation, LeaseMatches
  <2> QED
    BY <2>1, <2>2 DEF LeaseOfExecution, DeliveredOnce
<1> QED
  BY <1>1, <1>2, <1>3, RecordsStep DEF WriteProcessing, WriteRestored

\* If every job is delivered once, a publication is made under the execution that
\* holds the lease item, whoever takes the lease in between.  A second delivery
\* of a job can break this; MCIngestion_holder.cfg shows how.
THEOREM PublishedByTheHolder ==
  ASSUME DeliveredOnce
  PROVE  Spec => PublishedByHolder
<1>1. Init => LeaseOfExecution
  BY DEF Init, NoLease, LeaseOfExecution
<1>2. TypeOK /\ LeaseOfExecution /\ [Next]_vars => LeaseOfExecution'
  BY LeaseOfExecutionStep
<1>3. TypeOK /\ LeaseOfExecution /\ [Next]_vars =>
        [\A j \in Job : jobs'[j].completed \notin {NoAttempt, jobs[j].completed} =>
             lease.execution = jobs'[j].completed]_vars
  BY DeliveredOnce, PublishedByHolderStep
<1> QED
  BY <1>1, <1>2, <1>3, IngestionTypeCorrect, PTL DEF Spec, PublishedByHolder

-----------------------------------------------------------------------------
(* How an attempt moves                                                     *)

Moves(a) == Step(a) \/ Land(a) \/ Fault(a)

\* An attempt changes its own place, its calls and its memory only.
LEMMA OnlyMover ==
  ASSUME TypeOK, [Next]_vars, NEW b \in Attempt
  PROVE  Moves(b) \/ (pc'[b] = pc[b] /\ inflight'[b] = inflight[b] /\ local'[b] = local[b])
<1> USE DEF TypeOK, Goto, Finish
<1>1. CASE UNCHANGED vars \/ Expire
  BY <1>1 DEF vars, Expire, control
<1>2. ASSUME NEW a \in Attempt, a # b, Step(a)
      PROVE  pc'[b] = pc[b] /\ inflight'[b] = inflight[b] /\ local'[b] = local[b]
  BY <1>2 DEF Step, GetDocument, FindExisting, AcquireLease, LeaseBusy, LeaseBlocked, RereadLease,
     ClaimJob, ClaimRejected, FindWinner, SaveBuilding, SaveProcessing, SaveProcessingRejected,
     PutChunks, UpsertVectors, SaveReady, Activate, ActivateRejected, Reconcile,
     SupersedeGeneration, RetireData, CleanupData, FailGeneration, RereadDocument,
     RestoreDocument, FailJob, FailJobRejected, ReleaseLease
<1>3. ASSUME NEW a \in Attempt, a # b, Land(a) \/ Fault(a)
      PROVE  pc'[b] = pc[b] /\ inflight'[b] = inflight[b] /\ local'[b] = local[b]
  BY <1>3 DEF Land, Fault, RejectContent, CallFails, ReplyLost, ReconcileUnread, Raise,
     Cancel, Crash
<1> QED
  BY <1>1, <1>2, <1>3 DEF Next, Moves

\* Where the steps of an attempt lead: no way leads back to a place of an earlier
\* phase, and each place is entered from the one before it.
Leads(from, to) ==
    /\ to # "idle"
    /\ to \in Unpublished => from \in Unpublished
    /\ to \in Held => from \in Held \/ from = "acquire"
    /\ to = "claim" => from = "acquire"
    /\ to \in {"find", "acquire", "blocked"} => from \in {"idle", "find", "acquire"}
    /\ to = "vectors" => from = "chunks"
    /\ to = "ready" => from = "vectors"
    /\ to = "activate" => from = "ready"
    /\ to = "supersede" => from \in {"activate", "reconcile"}
    /\ to = "retire" => from = "supersede"
    /\ from \in {"supersede", "retire", "release"} => to \in {"retire", "release", "ended"}
    /\ from = "release" => to = "ended"
    /\ from # "ended"

\* The places after a publication.
Retiring == {"reconcile", "supersede", "retire", "release", "ended"}

\* Every exception leads on.
LEMMA HandlerOn ==
  ASSUME NEW place \in Write \cup {"blocked", "winner", "reread"}
  PROVE  Leads(place, Handler(place))
<1>1. CASE place \in {"acquire", "blocked"} \cup Prepare
  <2>1. Handler(place) \in {"ended", "release"} /\ (place = "blocked" => Handler(place) = "ended")
    BY <1>1 DEF Handler, Prepare
  <2> QED
    BY <1>1, <2>1 DEF Leads, Held, Prepare, Produce, Recover, Unpublished
<1>2. CASE place \in {"activate", "chunks", "vectors", "ready"}
  <2>1. Handler(place) \in {"reconcile", "cleanup"}
    BY <1>2 DEF Handler, Prepare
  <2> QED
    BY <1>2, <2>1 DEF Leads, Held, Prepare, Produce, Recover, Unpublished
<1>3. CASE place \in {"supersede", "retire", "release"}
  <2>1. Handler(place) = IF place = "supersede" THEN "retire"
                         ELSE IF place = "retire" THEN "release" ELSE "ended"
    BY <1>3 DEF Handler, Prepare
  <2> QED
    BY <1>3, <2>1 DEF Leads, Held, Prepare, Produce, Recover, Unpublished
<1>4. CASE place \in {"cleanup", "fail_generation", "reread", "restore", "fail_job"}
  <2>1. Handler(place) \in {"fail_generation", "reread", "fail_job", "release"}
    BY <1>4 DEF Handler, Prepare
  <2> QED
    BY <1>4, <2>1 DEF Leads, Held, Prepare, Produce, Recover, Unpublished
<1> QED
  BY <1>1, <1>2, <1>3, <1>4 DEF Write, Prepare

\* A step of an attempt: its call is over.
LEMMA StepLeads ==
  ASSUME TypeOK, NEW a \in Attempt, Step(a)
  PROVE  Leads(pc[a], pc'[a]) /\ inflight' = inflight
<1> USE DEF TypeOK, Goto, Finish, Leads, Held, Prepare, Produce, Recover, Unpublished
<1>1. CASE GetDocument(a) \/ FindExisting(a) \/ AcquireLease(a) \/ LeaseBusy(a) \/ LeaseBlocked(a)
           \/ RereadLease(a) \/ ClaimJob(a) \/ ClaimRejected(a) \/ FindWinner(a)
  BY <1>1 DEF GetDocument, FindExisting, AcquireLease, LeaseBusy, LeaseBlocked, RereadLease,
     ClaimJob, ClaimRejected, FindWinner
<1>2. CASE SaveBuilding(a) \/ SaveProcessing(a) \/ SaveProcessingRejected(a) \/ PutChunks(a)
           \/ UpsertVectors(a) \/ SaveReady(a) \/ Activate(a) \/ ActivateRejected(a) \/ Reconcile(a)
  BY <1>2 DEF SaveBuilding, SaveProcessing, SaveProcessingRejected, PutChunks, UpsertVectors,
     SaveReady, Activate, ActivateRejected, Reconcile, AfterPublication
<1>3. CASE SupersedeGeneration(a) \/ RetireData(a) \/ CleanupData(a) \/ FailGeneration(a)
           \/ RereadDocument(a) \/ RestoreDocument(a) \/ FailJob(a) \/ FailJobRejected(a)
           \/ ReleaseLease(a)
  BY <1>3 DEF SupersedeGeneration, RetireData, CleanupData, FailGeneration, RereadDocument,
     RestoreDocument, FailJob, FailJobRejected, ReleaseLease
<1> QED
  BY <1>1, <1>2, <1>3 DEF Step

\* A move leads on, and only a cancellation leaves a call behind.
LEMMA MoveLeads ==
  ASSUME TypeOK, NEW a \in Attempt, Moves(a)
  PROVE  \/ Leads(pc[a], pc'[a]) /\ inflight' = inflight
         \/ /\ pc'[a] \in {"release", "ended"} /\ inflight'[a] \in {inflight[a], "none", pc[a]}
            /\ pc'[a] = "release" => pc[a] \in Held
            /\ pc[a] \notin {"idle", "ended"}
         \/ pc'[a] = pc[a] /\ inflight'[a] = "none"
<1> USE DEF TypeOK, Goto, Finish
<1>1. CASE Step(a)
  BY <1>1, StepLeads
<1>2. CASE Land(a)
  BY <1>2 DEF Land
<1>3. CASE CallFails(a) \/ ReplyLost(a)
  <2>1. pc'[a] = Handler(pc[a]) /\ inflight' = inflight
    BY <1>3 DEF CallFails, ReplyLost, Raise
  <2> QED
    BY <1>3, <2>1, HandlerOn DEF CallFails, ReplyLost
<1>4. CASE RejectContent(a) \/ ReconcileUnread(a)
  BY <1>4 DEF RejectContent, ReconcileUnread, Leads, Held, Prepare, Produce, Recover, Unpublished
<1>5. CASE Crash(a) \/ Cancel(a)
  BY <1>5 DEF Cancel, Crash, Held, Prepare, Produce, Recover
<1> QED
  BY <1>1, <1>2, <1>3, <1>4, <1>5 DEF Moves, Fault

LEMMA CancelledIsOverStep ==
  ASSUME TypeOK, CancelledIsOver, [Next]_vars
  PROVE  CancelledIsOver'
<1> SUFFICES ASSUME NEW a \in Attempt, inflight'[a] # "none"
             PROVE  pc'[a] \in {"release", "ended"}
  BY DEF CancelledIsOver
<1> QED
  BY OnlyMover, MoveLeads DEF CancelledIsOver, Leads

\* The calls that decide what the data of a generation is at the next place.
LEMMA Entered ==
  ASSUME TypeOK, NEW a \in Attempt, Moves(a), pc'[a] # pc[a]
  PROVE  /\ pc'[a] = "vectors" => PutChunks(a)
         /\ pc'[a] = "ready" => UpsertVectors(a)
         /\ pc'[a] = "supersede" => Activate(a) \/ (Reconcile(a) /\ CommitVisible(a))
         /\ pc[a] = "acquire" /\ pc'[a] \in Held => AcquireLease(a)
         /\ pc[a] = "reconcile" /\ CommitVisible(a) /\ "unread" \notin Faults =>
                pc'[a] \in {"supersede", "release", "ended"}
<1> USE DEF TypeOK, Goto, Finish
<1>1. CASE Step(a)
  <2>1. CASE pc[a] \in {"chunks", "vectors", "activate", "reconcile"}
    BY <1>1, <2>1 DEF Step, GetDocument, FindExisting, AcquireLease, LeaseBusy, LeaseBlocked,
       RereadLease, ClaimJob, ClaimRejected, FindWinner, SaveBuilding, SaveProcessing,
       SaveProcessingRejected, PutChunks, UpsertVectors, SaveReady, Activate, ActivateRejected,
       Reconcile, SupersedeGeneration, RetireData, CleanupData, FailGeneration, RereadDocument,
       RestoreDocument, FailJob, FailJobRejected, ReleaseLease, AfterPublication
  <2>2. CASE pc[a] = "acquire"
    BY <1>1, <2>2 DEF Step, GetDocument, FindExisting, LeaseBusy, LeaseBlocked,
       RereadLease, ClaimJob, ClaimRejected, FindWinner, SaveBuilding, SaveProcessing,
       SaveProcessingRejected, PutChunks, UpsertVectors, SaveReady, Activate, ActivateRejected,
       Reconcile, SupersedeGeneration, RetireData, CleanupData, FailGeneration, RereadDocument,
       RestoreDocument, FailJob, FailJobRejected, ReleaseLease, AcquireLease,
       Held, Prepare, Produce, Recover
  <2>3. CASE pc[a] \notin {"chunks", "vectors", "activate", "reconcile", "acquire"}
    BY <1>1, <2>3, StepLeads DEF Leads
  <2> QED
    BY <2>1, <2>2, <2>3
<1>2. CASE Land(a)
  BY <1>2 DEF Land
<1>3. CASE CallFails(a) \/ ReplyLost(a)
  <2>1. pc'[a] = Handler(pc[a]) /\ pc[a] # "reconcile"
    BY <1>3 DEF CallFails, ReplyLost, Raise, Write
  <2>2. /\ pc[a] \in {"chunks", "vectors"} => Handler(pc[a]) = "cleanup"
        /\ pc[a] = "activate" => Handler(pc[a]) = "reconcile"
        /\ pc[a] = "acquire" => Handler(pc[a]) = "ended"
    BY DEF Handler, Prepare
  <2>3. Leads(pc[a], Handler(pc[a]))
    BY <1>3, HandlerOn DEF CallFails, ReplyLost
  <2> QED
    BY <2>1, <2>2, <2>3 DEF Leads, Held, Prepare, Produce, Recover
<1>4. CASE RejectContent(a) \/ ReconcileUnread(a) \/ Cancel(a) \/ Crash(a)
  BY <1>4 DEF RejectContent, ReconcileUnread, Strike, Cancel, Crash, Held, Prepare, Produce, Recover
<1> QED
  BY <1>1, <1>2, <1>3, <1>4 DEF Moves, Fault

\* An attempt's generation is fixed when it acquires the lease, from its job.
LEMMA GenStep ==
  ASSUME TypeOK, [Next]_vars, NEW a \in Attempt
  PROVE  \/ local'[a].gen = local[a].gen /\ ~AcquireLease(a)
         \/ /\ AcquireLease(a) /\ pc[a] = "acquire" /\ pc'[a] = "claim"
            /\ local'[a].gen.job = JobOf[a] /\ local'[a].gen # NoGen
            /\ inflight' = inflight
            /\ UNCHANGED <<doc, jobs, markers, gens, chunks, vectors>>
<1> local \in [Attempt -> Memory]
  BY DEF TypeOK, Memory
<1>1. CASE AcquireLease(a)
  <2>1. local'[a].gen = NewGen(a) /\ NewGen(a).job = JobOf[a] /\ JobOf[a] # NoJob
    BY <1>1 DEF AcquireLease, NewGen, Memory
  <2> QED
    BY <1>1, <2>1, GenTyped DEF AcquireLease, TakeLease, Goto, TypeOK
<1>2. CASE ~AcquireLease(a)
  <2>1. CASE GetDocument(a)
    BY <1>2, <2>1 DEF GetDocument, Memory
  <2>2. CASE SaveProcessing(a)
    BY <1>2, <2>2 DEF SaveProcessing, Memory
  <2>3. CASE RereadDocument(a)
    BY <1>2, <2>3 DEF RereadDocument, Memory
  <2> QED
    BY <1>2, <2>1, <2>2, <2>3, LocalStep
<1> QED
  BY <1>1, <1>2

LEMMA OwnGenerationStep ==
  ASSUME DeliveredOnce, TypeOK, OwnGeneration, JobsOwnGeneration, SuccessMarked, [Next]_vars
  PROVE  OwnGeneration'
<1> SUFFICES ASSUME NEW a \in Attempt
             PROVE  /\ local'[a].gen # NoGen => local'[a].gen.job = JobOf[a]
                    /\ Calls(a)' \cap Held # {} => local'[a].gen # NoGen
                    /\ pc'[a] \in {"idle", "find", "acquire", "blocked"} => local'[a].gen = NoGen
                    /\ jobs'[JobOf[a]].gen \in {NoGen, local'[a].gen}
  BY DEF OwnGeneration
<1> JobOf[a] \in Job
  OBVIOUS
<1>1. CASE AcquireLease(a)
  BY <1>1, GenStep DEF OwnGeneration
<1>2. CASE ~AcquireLease(a)
  <2>1. local'[a].gen = local[a].gen
    BY <1>2, GenStep
  <2>2. Calls(a)' \cap Held # {} => Calls(a) \cap Held # {}
    BY <1>2, OnlyMover, MoveLeads, Entered DEF Leads, Calls, Held, Prepare, Produce, Recover
  <2>3. pc'[a] \in {"idle", "find", "acquire", "blocked"} =>
            pc[a] \in {"idle", "find", "acquire", "blocked"}
    BY OnlyMover, MoveLeads DEF Leads
  <2>4. jobs'[JobOf[a]].gen \in {NoGen, local[a].gen}
    <3>1. ASSUME NEW b \in Attempt, WriteClaim(b)
          PROVE  jobs'[JobOf[a]].gen \in {NoGen, local[a].gen}
      <4> DEFINE claimed == [status |-> "running", gen |-> local[b].gen, completed |-> NoAttempt]
      <4>1. jobs' = [jobs EXCEPT ![local[b].gen.job] = claimed] /\ claimed.gen = local[b].gen
        BY <3>1 DEF WriteClaim
      <4>2. CASE local[b].gen.job = JobOf[a]
        <5>1. local[b].gen # NoGen
          BY <4>2, GenTyped
        <5>2. a = b
          BY <4>2, <5>1 DEF OwnGeneration, DeliveredOnce
        <5> QED
          BY <4>1, <4>2, <5>2 DEF TypeOK
      <4>3. CASE local[b].gen.job # JobOf[a]
        BY <4>1, <4>3 DEF TypeOK, OwnGeneration
      <4> QED
        BY <4>2, <4>3
    <3>2. ASSUME NEW b \in Attempt, WriteFailure(b) \/ WriteActivation(b)
          PROVE  jobs'[JobOf[a]].gen = jobs[JobOf[a]].gen
      BY <3>2, FailureSpares, ActivationPublishes
    <3> QED
      BY <3>1, <3>2, RecordsStep DEF WriteProcessing, WriteRestored, OwnGeneration
  <2> QED
    BY <2>1, <2>2, <2>3, <2>4 DEF OwnGeneration
<1> QED
  BY <1>1, <1>2

-----------------------------------------------------------------------------
(* What a publication and a cleanup change                                  *)

\* The attempt that publishes goes on to the retirement, or to its end.
Publishes(a) ==
    /\ WriteActivation(a)
    /\ "activate" \in Calls(a)
    /\ Calls(a)' \subseteq Retiring \cup {"none"}
    /\ local' = local

\* The pointer moves only where an activation takes effect: in time, before an
\* exception, or after the cancellation of its attempt.
LEMMA PublicationMoves ==
  ASSUME TypeOK, CancelledIsOver, [Next]_vars, doc'.active # doc.active
  PROVE  \E a \in Attempt : Publishes(a)
<1> USE DEF TypeOK, Calls, Goto, Finish, Publishes, Retiring
<1> /\ doc \in Document
    /\ \A status : [doc EXCEPT !.status = status, !.revision = @ + 1].active = doc.active
  BY DEF Document
<1>1. CASE UNCHANGED stores \/ Expire
  BY <1>1 DEF stores, Expire
<1>2. ASSUME NEW a \in Attempt, NEW call, Effect(a, call)
      PROVE  call = "activate" /\ WriteActivation(a)
  BY <1>2 DEF Effect, TakeLease, WriteClaim, WriteGeneration, WriteProcessing, WriteChunks,
     WriteVectors, DeleteData, WriteRestored, WriteFailure, DeleteLease
<1>3. ASSUME NEW a \in Attempt, NEW call, PartOf(a, call)
      PROVE  FALSE
  BY <1>3 DEF PartOf, WriteChunks, WriteVectors, DeleteData
<1>4. ASSUME NEW a \in Attempt, Step(a) PROVE Publishes(a)
  <2>1. Activate(a)
    BY <1>4 DEF Step, GetDocument, FindExisting, AcquireLease, LeaseBusy, LeaseBlocked, RereadLease,
       ClaimJob, ClaimRejected, FindWinner, SaveBuilding, SaveProcessing, SaveProcessingRejected,
       PutChunks, UpsertVectors, SaveReady, ActivateRejected, Reconcile,
       SupersedeGeneration, RetireData, CleanupData, FailGeneration, RereadDocument,
       RestoreDocument, FailJob, FailJobRejected, ReleaseLease, stores,
       TakeLease, WriteClaim, WriteGeneration, WriteProcessing, WriteChunks,
       WriteVectors, DeleteData, WriteRestored, WriteFailure, DeleteLease
  <2> QED
    BY <2>1 DEF Activate, AfterPublication, CancelledIsOver
<1>5. ASSUME NEW a \in Attempt, Land(a) PROVE Publishes(a)
  BY <1>2, <1>3, <1>5 DEF Land, CancelledIsOver, stores
<1>6. ASSUME NEW a \in Attempt, Fault(a) PROVE Publishes(a)
  <2>1. ReplyLost(a) \/ CallFails(a)
    BY <1>6 DEF Fault, RejectContent, ReconcileUnread, Cancel, Crash, stores
  <2>2. ReplyLost(a) /\ pc[a] = "activate" /\ WriteActivation(a)
    BY <1>2, <1>3, <2>1 DEF CallFails, ReplyLost, stores
  <2>3. pc'[a] = "reconcile"
    BY <2>2 DEF ReplyLost, Raise, Handler, Suppressed, Prepare
  <2> QED
    BY <2>2, <2>3 DEF ReplyLost, CancelledIsOver
<1> QED
  BY <1>1, <1>4, <1>5, <1>6 DEF Next, vars, stores

\* A job becomes a success in no other way.
LEMMA SuccessAppears ==
  ASSUME IInv, [Next]_vars,
         NEW j \in Job, jobs'[j].status = "succeeded", jobs[j].status # "succeeded"
  PROVE  doc'.active # doc.active /\ doc'.active.job = j
<1> USE DEF IInv
<1>1. ASSUME NEW a \in Attempt, WriteClaim(a) \/ WriteFailure(a) PROVE FALSE
  BY <1>1, ClaimSpares, FailureSpares
<1>2. ASSUME NEW a \in Attempt, WriteActivation(a)
      PROVE  doc'.active # doc.active /\ doc'.active.job = j
  <2>1. doc.active.fence < doc'.active.fence /\ doc.active.fence \in 0..MaxFence
    BY <1>2, ActivationPublishes, GenTyped DEF TypeOK, Document
  <2>2. doc'.active # doc.active
    BY <2>1
  <2>3. j # local[a].gen.job => jobs'[j] = jobs[j]
    BY <1>2, ActivationPublishes
  <2>4. doc'.active = local[a].gen
    BY <1>2, ActivationPublishes
  <2> QED
    BY <2>2, <2>3, <2>4
<1> QED
  BY <1>1, <1>2, RecordsStep DEF WriteProcessing, WriteRestored

\* Nothing takes a success back, and the tokens of the published generations grow.
LEMMA SuccessStays ==
  ASSUME IInv, [Next]_vars
  PROVE  /\ \A j \in Job : jobs[j].status = "succeeded" => jobs'[j] = jobs[j]
         /\ doc.active.fence <= doc'.active.fence
         /\ doc.active \in MaybeGen /\ doc'.active \in MaybeGen
         /\ doc.active.fence \in 0..MaxFence /\ doc'.active.fence \in 0..MaxFence
<1> USE DEF IInv
<1>1. doc \in Document /\ doc' \in Document
  BY TypeStep DEF TypeOK
<1>2. /\ doc.active \in MaybeGen /\ doc'.active \in MaybeGen
      /\ doc.active.fence \in 0..MaxFence /\ doc'.active.fence \in 0..MaxFence
  BY <1>1, GenTyped DEF Document
<1>3. ASSUME NEW a \in Attempt, WriteClaim(a) \/ WriteFailure(a)
      PROVE  /\ \A j \in Job : jobs[j].status = "succeeded" => jobs'[j] = jobs[j]
             /\ doc' = doc
  BY <1>3, ClaimSpares, FailureSpares
<1>4. ASSUME NEW a \in Attempt, WriteActivation(a)
      PROVE  /\ \A j \in Job : jobs[j].status = "succeeded" => jobs'[j] = jobs[j]
             /\ doc.active.fence < doc'.active.fence
  BY <1>4, ActivationPublishes
<1>5. ASSUME NEW a \in Attempt, WriteProcessing(a) \/ WriteRestored(a)
      PROVE  doc'.active = doc.active /\ jobs' = jobs
  BY <1>1, <1>5 DEF WriteProcessing, WriteRestored, Document
<1> QED
  BY <1>2, <1>3, <1>4, <1>5, RecordsStep

\* What is stored of a generation is lost only to a cleanup by the attempt that
\* built it, or to a retirement by one that read it as active; the same goes for
\* its status ACTIVE.
LEMMA DataKept ==
  ASSUME TypeOK, [Next]_vars, NEW g \in Gen
  PROVE  /\ \/ chunks[g] = "all" => chunks'[g] = "all"
            \/ \E a \in Attempt : \/ "cleanup" \in Calls(a) /\ local[a].gen = g
                                  \/ "retire" \in Calls(a) /\ local[a].active = g
         /\ \/ vectors[g] = "all" => vectors'[g] = "all"
            \/ \E a \in Attempt : \/ "cleanup" \in Calls(a) /\ local[a].gen = g
                                  \/ "retire" \in Calls(a) /\ local[a].active = g
         /\ \/ gens[g] = "active" => gens'[g] = "active"
            \/ \E a \in Attempt :
                 \/ Calls(a) \cap {"building", "ready", "fail_generation"} # {} /\ local[a].gen = g
                 \/ "supersede" \in Calls(a) /\ local[a].active = g
<1> USE DEF TypeOK
<1> DEFINE Deletes(a, call) == \/ call = "cleanup" /\ local[a].gen = g
                               \/ call = "retire" /\ local[a].active = g
           Marks(a, call) == \/ call \in {"building", "ready", "fail_generation"} /\ local[a].gen = g
                             \/ call = "supersede" /\ local[a].active = g
<1>1. CASE UNCHANGED stores \/ Expire
  BY <1>1 DEF stores, Expire
<1>2. ASSUME NEW h, NEW partial, DeleteData(h, partial), h # g
      PROVE  chunks'[g] = chunks[g] /\ vectors'[g] = vectors[g]
  BY <1>2 DEF DeleteData
<1>3. ASSUME NEW a \in Attempt, NEW call \in Calls(a), Effect(a, call) \/ PartOf(a, call)
      PROVE  /\ (chunks[g] = "all" => chunks'[g] = "all") \/ Deletes(a, call)
             /\ (vectors[g] = "all" => vectors'[g] = "all") \/ Deletes(a, call)
             /\ (gens[g] = "active" => gens'[g] = "active") \/ Marks(a, call)
  <2>1. CASE call \in {"cleanup", "retire"}
    <3>1. gens' = gens
      BY <1>3, <2>1 DEF Effect, PartOf, DeleteData
    <3> QED
      BY <1>2, <1>3, <2>1, <3>1 DEF Effect, PartOf
  <2>2. CASE call \in {"building", "ready", "fail_generation", "supersede"}
    BY <1>3, <2>2 DEF Effect, PartOf, WriteGeneration
  <2>3. CASE call \in {"chunks", "vectors"}
    BY <1>3, <2>3 DEF Effect, PartOf, WriteChunks, WriteVectors
  <2>4. CASE call \notin {"cleanup", "retire", "building", "ready", "fail_generation", "supersede",
                          "chunks", "vectors"}
    BY <1>3, <2>4 DEF Effect, PartOf, TakeLease, WriteClaim, WriteProcessing, WriteActivation,
       WriteRestored, WriteFailure, DeleteLease
  <2> QED
    BY <2>1, <2>2, <2>3, <2>4
<1> QED
  BY <1>1, <1>3, StoresStep

-----------------------------------------------------------------------------
(* The inductive invariant of jobs that are delivered once                  *)

LEMMA CompletedByOwnStep ==
  ASSUME IInv, OwnGeneration, CompletedByOwn, [Next]_vars
  PROVE  CompletedByOwn'
<1> USE DEF IInv
<1> SUFFICES ASSUME NEW j \in Job
             PROVE  /\ jobs'[j].completed # NoAttempt => JobOf[jobs'[j].completed] = j
                    /\ jobs'[j].status = "succeeded" => jobs'[j].completed \in Attempt
  BY DEF CompletedByOwn
<1> DEFINE Goal == /\ jobs'[j].completed # NoAttempt => JobOf[jobs'[j].completed] = j
                   /\ jobs'[j].status = "succeeded" => jobs'[j].completed \in Attempt
<1>1. CASE jobs'[j] = jobs[j]
  BY <1>1 DEF CompletedByOwn
<1>2. ASSUME NEW a \in Attempt, WriteClaim(a), jobs'[j] # jobs[j] PROVE Goal
  <2> DEFINE claimed == [status |-> "running", gen |-> local[a].gen, completed |-> NoAttempt]
  <2>1. jobs'[j] = claimed /\ claimed.status = "running" /\ claimed.completed = NoAttempt
    BY <1>2 DEF WriteClaim, TypeOK
  <2> QED
    BY <2>1
<1>3. ASSUME NEW a \in Attempt, WriteFailure(a), jobs'[j] # jobs[j] PROVE Goal
  <2>1. jobs'[j].status = "failed" /\ jobs'[j].completed = jobs[j].completed
    BY <1>3 DEF WriteFailure, TypeOK, JobItem
  <2> QED
    BY <2>1 DEF CompletedByOwn
<1>4. ASSUME NEW a \in Attempt, WriteActivation(a), jobs'[j] # jobs[j] PROVE Goal
  <2>1. local[a].gen \in Gen
    BY <1>4, ActivationPublishes
  <2>2. j # local[a].gen.job => jobs'[j] = jobs[j]
    BY <1>4, ActivationPublishes
  <2>3. jobs'[j].completed = a
    BY <1>4, <2>2 DEF WriteActivation, TypeOK, JobItem
  <2>4. JobOf[a] = j
    BY <1>4, <2>1, <2>2, GenTyped DEF OwnGeneration
  <2> QED
    BY <2>3, <2>4
<1> QED
  BY <1>1, <1>2, <1>3, <1>4, RecordsStep DEF WriteProcessing, WriteRestored

LEMMA PublishedLastStep ==
  ASSUME DeliveredOnce, IInv, CancelledIsOver, OwnGeneration, PublishedLast, [Next]_vars
  PROVE  PublishedLast'
<1> SUFFICES ASSUME NEW a \in Attempt, Calls(a)' \cap Unpublished # {},
                    jobs'[JobOf[a]].status = "succeeded"
             PROVE  FALSE
  BY DEF PublishedLast
<1> TypeOK /\ JobOf[a] \in Job
  BY DEF IInv
<1>1. Calls(a) \cap Unpublished # {}
  BY OnlyMover, MoveLeads DEF Calls, Leads, Unpublished
<1>2. doc'.active # doc.active /\ doc'.active.job = JobOf[a]
  BY <1>1, SuccessAppears DEF PublishedLast
<1>3. PICK b \in Attempt : Publishes(b)
  BY <1>2, PublicationMoves
<1>4. local[b].gen \in Gen /\ doc'.active = local[b].gen
  BY <1>3, ActivationPublishes DEF Publishes, IInv
<1>5. b = a
  BY <1>2, <1>4, GenTyped DEF OwnGeneration, DeliveredOnce
<1> QED
  BY <1>3, <1>5 DEF Publishes, Retiring, Unpublished

LEMMA ReadActiveStep ==
  ASSUME IInv, OwnGeneration, ReadActive, PublisherRetires, [Next]_vars
  PROVE  ReadActive'
<1> USE DEF IInv
<1> SUFFICES ASSUME NEW a \in Attempt
             PROVE  /\ local'[a].active # NoGen =>
                         /\ jobs'[local'[a].active.job].status = "succeeded"
                         /\ jobs'[local'[a].active.job].gen = local'[a].active
                    /\ local'[a].active.fence <= doc'.active.fence
                    /\ Calls(a)' \cap {"supersede", "retire"} # {} =>
                         local'[a].active.fence < doc'.active.fence
  BY DEF ReadActive
<1> /\ local \in [Attempt -> Memory] /\ local[a].active \in MaybeGen
    /\ local[a].active.fence \in 0..MaxFence /\ doc.active \in MaybeGen
    /\ doc.active.fence \in 0..MaxFence /\ doc'.active.fence \in 0..MaxFence
    /\ doc.active.fence <= doc'.active.fence
  BY SuccessStays, GenTyped DEF TypeOK, Memory
<1>1. CASE GetDocument(a)
  <2>1. local'[a].active = doc.active /\ doc' = doc /\ jobs' = jobs
    BY <1>1 DEF GetDocument, stores, Memory
  <2>2. Calls(a)' = {"find", "none"}
    BY <1>1 DEF GetDocument, IdleIsFresh, Calls, Goto, TypeOK
  <2> QED
    BY <2>1, <2>2 DEF PublicationConsistent
<1>2. CASE ~GetDocument(a)
  <2>1. local'[a].active = local[a].active
    BY <1>2, ActiveReadOnce
  <2>2. local[a].active # NoGen =>
          /\ jobs'[local[a].active.job].status = "succeeded"
          /\ jobs'[local[a].active.job].gen = local[a].active
    BY SuccessStays, GenTyped DEF ReadActive, MaybeGen
  <2>3. local[a].active.fence <= doc'.active.fence
    BY DEF ReadActive
  <2>4. ASSUME Calls(a)' \cap {"supersede", "retire"} # {}
        PROVE  local[a].active.fence < doc'.active.fence
    <3>1. CASE Calls(a) \cap {"supersede", "retire"} # {}
      BY <3>1 DEF ReadActive
    <3>2. CASE Calls(a) \cap {"supersede", "retire"} = {}
      <4>1. Moves(a) /\ pc'[a] = "supersede" /\ pc[a] # "supersede"
        BY <2>4, <3>2, OnlyMover, MoveLeads DEF Calls, Leads
      <4>2. CASE Activate(a)
        <5>1. WriteActivation(a)
          BY <4>2 DEF Activate
        <5>2. doc.active.fence < local[a].gen.fence /\ doc'.active = local[a].gen
          BY <5>1, ActivationPublishes
        <5> QED
          BY <5>2 DEF ReadActive
      <4>3. CASE Reconcile(a) /\ CommitVisible(a)
        <5>1. doc.active = local[a].gen /\ local[a].gen # NoGen /\ doc' = doc
          BY <4>3 DEF Reconcile, CommitVisible, stores, OwnGeneration, Calls, Held, Produce
        <5> QED
          BY <5>1 DEF PublisherRetires
      <4> QED
        BY <4>1, <4>2, <4>3, Entered
    <3> QED
      BY <3>1, <3>2
  <2> QED
    BY <2>1, <2>2, <2>3, <2>4
<1> QED
  BY <1>1, <1>2

\* Nobody deletes what an attempt has written before it has published it.
LEMMA CandidateKept ==
  ASSUME DeliveredOnce, IInv, CancelledIsOver, OwnGeneration, PublishedLast, ReadActive,
         NEW a \in Attempt, Calls(a) \cap {"vectors", "ready", "activate"} # {},
         NEW b \in Attempt, local[a].gen \in Gen
  PROVE  /\ ~("cleanup" \in Calls(b) /\ local[b].gen = local[a].gen)
         /\ ~("retire" \in Calls(b) /\ local[b].active = local[a].gen)
<1> local[a].gen # NoGen /\ local[a].gen.job = JobOf[a]
  BY GenTyped DEF OwnGeneration
<1>1. ASSUME "cleanup" \in Calls(b), local[b].gen = local[a].gen PROVE FALSE
  <2>1. a = b
    BY <1>1 DEF OwnGeneration, DeliveredOnce
  <2> QED
    BY <1>1, <2>1 DEF CancelledIsOver, Calls
<1>2. ASSUME local[b].active = local[a].gen PROVE FALSE
  <2>1. jobs[JobOf[a]].status = "succeeded"
    BY <1>2 DEF ReadActive
  <2> QED
    BY <2>1 DEF PublishedLast, Unpublished
<1> QED
  BY <1>1, <1>2

LEMMA CandidateWrittenStep ==
  ASSUME DeliveredOnce, IInv, CancelledIsOver, OwnGeneration, PublishedLast, ReadActive,
         CandidateWritten, [Next]_vars
  PROVE  CandidateWritten'
<1> USE DEF IInv
<1> SUFFICES ASSUME NEW a \in Attempt
             PROVE  /\ Calls(a)' \cap {"vectors", "ready", "activate"} # {} => chunks'[local'[a].gen] = "all"
                    /\ Calls(a)' \cap {"ready", "activate"} # {} => vectors'[local'[a].gen] = "all"
  BY DEF CandidateWritten
<1> SUFFICES ASSUME Calls(a)' \cap {"vectors", "ready", "activate"} # {}
             PROVE  /\ chunks'[local'[a].gen] = "all"
                    /\ Calls(a)' \cap {"ready", "activate"} # {} => vectors'[local'[a].gen] = "all"
  OBVIOUS
<1>1. local'[a].gen = local[a].gen
  <2>1. CASE AcquireLease(a)
    BY <2>1, GenStep DEF Calls, CancelledIsOver
  <2> QED
    BY <2>1, GenStep
<1>2. Calls(a) \cap {"chunks", "vectors", "ready", "activate"} # {}
  BY OnlyMover, MoveLeads DEF Calls, Leads
<1>3. local[a].gen \in Gen
  BY <1>2 DEF OwnGeneration, Held, Produce, TypeOK, MaybeGen
<1>4. Calls(a) \cap {"vectors", "ready", "activate"} # {} \/ PutChunks(a)
  BY OnlyMover, MoveLeads, Entered DEF Calls, Leads
<1>5. Calls(a)' \cap {"ready", "activate"} # {} =>
          Calls(a) \cap {"ready", "activate"} # {} \/ UpsertVectors(a)
  BY OnlyMover, MoveLeads, Entered DEF Calls, Leads
<1>6. chunks'[local[a].gen] = "all"
  <2>1. CASE PutChunks(a)
    BY <1>3, <2>1 DEF PutChunks, WriteChunks, TypeOK
  <2>2. CASE Calls(a) \cap {"vectors", "ready", "activate"} # {}
    BY <1>3, <2>2, CandidateKept, DataKept DEF CandidateWritten
  <2> QED
    BY <1>4, <2>1, <2>2
<1>7. Calls(a)' \cap {"ready", "activate"} # {} => vectors'[local[a].gen] = "all"
  <2>1. CASE UpsertVectors(a)
    BY <1>3, <2>1 DEF UpsertVectors, WriteVectors, TypeOK
  <2>2. CASE Calls(a) \cap {"ready", "activate"} # {}
    BY <1>3, <2>2, CandidateKept, DataKept DEF CandidateWritten
  <2> QED
    BY <1>5, <2>1, <2>2
<1> QED
  BY <1>1, <1>6, <1>7

LEMMA PublisherRetiresStep ==
  ASSUME DeliveredOnce, "unread" \notin Faults, IInv, OnceInv, [Next]_vars
  PROVE  PublisherRetires'
<1> USE DEF IInv, OnceInv
<1> SUFFICES ASSUME NEW a \in Attempt, doc'.active # NoGen, doc'.active = local'[a].gen
             PROVE  /\ Calls(a)' \subseteq Retiring \cup {"none"}
                    /\ local'[a].active.fence < doc'.active.fence
  BY DEF PublisherRetires, Retiring
<1> /\ local \in [Attempt -> Memory] /\ local[a].active \in MaybeGen
    /\ local[a].active.fence \in 0..MaxFence
    /\ doc.active.fence \in 0..MaxFence /\ doc'.active.fence \in 0..MaxFence
    /\ JobOf[a] \in Job
  BY SuccessStays, GenTyped DEF TypeOK, Memory
<1>1. CASE doc'.active # doc.active
  <2>1. PICK b \in Attempt : Publishes(b)
    BY <1>1, PublicationMoves
  <2>2. /\ local[b].gen \in Gen /\ doc'.active = local[b].gen /\ local' = local
        /\ doc.active.fence < local[b].gen.fence
    BY <2>1, ActivationPublishes DEF Publishes
  <2>3. a = b
    <3>1. local[a].gen = local[b].gen /\ local[b].gen # NoGen
      BY <2>2
    <3> QED
      BY <3>1 DEF OwnGeneration, DeliveredOnce
  <2> QED
    BY <2>1, <2>2, <2>3 DEF Publishes, ReadActive
<1>2. CASE doc'.active = doc.active
  <2>1. ~AcquireLease(a) /\ local'[a].gen = local[a].gen
    <3>1. ASSUME AcquireLease(a) PROVE FALSE
      <4>1. /\ local'[a].gen.job = JobOf[a] /\ pc[a] = "acquire"
        BY <3>1, GenStep
      <4>2. jobs[JobOf[a]].gen = doc.active /\ jobs[JobOf[a]].gen = NoGen
        BY <1>2, <4>1 DEF PublicationConsistent, OwnGeneration
      <4> QED
        BY <1>2, <4>2
    <3> QED
      BY <3>1, GenStep
  <2>2. /\ Calls(a) \subseteq Retiring \cup {"none"}
        /\ local[a].active.fence < doc.active.fence
    BY <1>2, <2>1 DEF PublisherRetires, Retiring
  <2>3. local'[a].active = local[a].active
    BY <2>2, ActiveReadOnce DEF GetDocument, Calls, Retiring
  <2>4. CommitVisible(a)
    <3>1. /\ local[a].gen \in Gen /\ doc.active = local[a].gen /\ local[a].gen.job = JobOf[a]
      BY <1>2, <2>1 DEF OwnGeneration, TypeOK, MaybeGen
    <3>2. jobs[JobOf[a]].completed = a
      BY <3>1, GenTyped DEF PublicationConsistent, CompletedByOwn, DeliveredOnce
    <3> QED
      BY <3>1, <3>2, GenTyped DEF PublicationConsistent, ActiveIntact, CommitVisible
  <2>5. Calls(a)' \subseteq Retiring \cup {"none"}
    <3>1. pc[a] \in Retiring /\ inflight[a] \in Retiring \cup {"none"}
      BY <2>2 DEF Calls, TypeOK, Retiring, Place, Held, Prepare, Produce, Recover
    <3>2. pc'[a] \in Retiring
      <4>1. CASE pc[a] = "reconcile"
        BY <2>4, <4>1, OnlyMover, MoveLeads, Entered DEF Retiring
      <4>2. CASE pc[a] # "reconcile"
        BY <3>1, <4>2, OnlyMover, MoveLeads DEF Retiring, Leads
      <4> QED
        BY <4>1, <4>2
    <3>3. inflight'[a] \in {inflight[a], "none", pc[a]}
      BY OnlyMover, MoveLeads
    <3> QED
      BY <3>1, <3>2, <3>3 DEF Calls
  <2> QED
    BY <1>2, <2>2, <2>3, <2>5
<1> QED
  BY <1>1, <1>2

LEMMA ActiveIntactStep ==
  ASSUME DeliveredOnce, IInv, OnceInv, [Next]_vars
  PROVE  ActiveIntact'
<1> USE DEF IInv, OnceInv
<1> DEFINE g == doc'.active
<1> SUFFICES ASSUME g # NoGen
             PROVE  chunks'[g] = "all" /\ vectors'[g] = "all" /\ gens'[g] = "active"
  BY DEF ActiveIntact, ActiveDataKept
<1>1. g \in Gen
  BY SuccessStays DEF MaybeGen
<1>2. CASE doc'.active # doc.active
  <2>1. PICK b \in Attempt : Publishes(b)
    BY <1>2, PublicationMoves
  <2>2. local[b].gen \in Gen /\ g = local[b].gen
    BY <2>1, ActivationPublishes DEF Publishes
  <2>3. chunks[g] = "all" /\ vectors[g] = "all"
    BY <2>1, <2>2 DEF Publishes, CandidateWritten
  <2> QED
    BY <2>1, <2>2, <2>3 DEF Publishes, WriteActivation, TypeOK
<1>3. CASE doc'.active = doc.active
  <2>1. chunks[g] = "all" /\ vectors[g] = "all" /\ gens[g] = "active"
    BY <1>3 DEF ActiveIntact, ActiveDataKept
  <2>2. ASSUME NEW b \in Attempt, local[b].gen = g
        PROVE  /\ "cleanup" \notin Calls(b)
               /\ Calls(b) \cap {"building", "ready", "fail_generation"} = {}
    BY <1>3, <2>2 DEF PublisherRetires
  <2>3. ASSUME NEW b \in Attempt, local[b].active = g
        PROVE  "retire" \notin Calls(b) /\ "supersede" \notin Calls(b)
    <3>1. doc.active.fence \in 0..MaxFence
      BY SuccessStays
    <3> QED
      BY <1>3, <2>3, <3>1 DEF ReadActive
  <2> QED
    BY <1>1, <2>1, <2>2, <2>3, DataKept
<1> QED
  BY <1>2, <1>3

\* Delivered once and with its reconciling reads answered, no attempt undoes what
\* another one, or itself, has published.
LEMMA OnceStep ==
  ASSUME DeliveredOnce, "unread" \notin Faults, IInv, OnceInv, [Next]_vars
  PROVE  OnceInv'
<1> USE DEF OnceInv
<1>1. CancelledIsOver' /\ LeaseOfExecution' /\ OwnGeneration'
  BY CancelledIsOverStep, LeaseOfExecutionStep, OwnGenerationStep DEF IInv
<1>2. CompletedByOwn' /\ PublishedLast' /\ ReadActive' /\ CandidateWritten'
  BY CompletedByOwnStep, PublishedLastStep, ReadActiveStep, CandidateWrittenStep
<1>3. PublisherRetires' /\ ActiveIntact'
  BY PublisherRetiresStep, ActiveIntactStep
<1> QED
  BY <1>1, <1>2, <1>3

LEMMA OnceInit == Init => OnceInv
<1> SUFFICES ASSUME Init PROVE OnceInv
  OBVIOUS
<1> USE DEF Init
<1>1. CancelledIsOver /\ LeaseOfExecution /\ OwnGeneration /\ CompletedByOwn
  BY DEF CancelledIsOver, LeaseOfExecution, NoLease, OwnGeneration, CompletedByOwn, Calls,
     Held, Prepare, Produce, Recover
<1>2. PublishedLast /\ CandidateWritten /\ PublisherRetires /\ ActiveIntact
  BY DEF PublishedLast, CandidateWritten, PublisherRetires, ActiveIntact, ActiveDataKept, Calls
<1>3. ReadActive
  <2>1. ASSUME NEW a \in Attempt
        PROVE  local[a].active = NoGen /\ Calls(a) \cap {"supersede", "retire"} = {}
    BY DEF Calls
  <2>2. doc.active = NoGen /\ NoGen.fence <= NoGen.fence
    BY GenTyped
  <2> HIDE DEF Init
  <2> QED
    BY <2>1, <2>2 DEF ReadActive
<1> QED
  BY <1>1, <1>2, <1>3 DEF OnceInv

\* If every job is delivered once and the reads that reconcile an activation are
\* answered, the generation readers are sent to stays whole and marked ACTIVE:
\* no cleanup, retirement or late write of any attempt touches it.  With either
\* hypothesis dropped the code can break this; MCIngestion_intact_redelivery.cfg
\* and MCIngestion_intact_unread.cfg show how.
THEOREM ActiveStaysIntact ==
  ASSUME DeliveredOnce, "unread" \notin Faults
  PROVE  Spec => []ActiveIntact
<1>1. IInv /\ OnceInv /\ [Next]_vars => OnceInv'
  BY DeliveredOnce, "unread" \notin Faults, OnceStep
<1>2. OnceInv => ActiveIntact
  BY DEF OnceInv
<1> QED
  BY <1>1, <1>2, OnceInit, IngestionInvariant, PTL DEF Spec

-----------------------------------------------------------------------------
(* The data that is left when every attempt has ended                       *)

\* Only a cancellation leaves a call behind.
LEMMA NothingInFlightStep ==
  ASSUME "cancel" \notin Faults, TypeOK, NothingInFlight, [Next]_vars
  PROVE  NothingInFlight'
<1> SUFFICES ASSUME NEW a \in Attempt PROVE inflight'[a] = "none"
  BY DEF NothingInFlight
<1> inflight[a] = "none"
  BY DEF NothingInFlight
<1>1. CASE Step(a)
  BY <1>1, StepLeads
<1>2. CASE Land(a)
  BY <1>2 DEF Land
<1>3. CASE Fault(a)
  BY <1>3 DEF Fault, RejectContent, CallFails, ReplyLost, ReconcileUnread, Cancel, Crash, Strike
<1> QED
  BY <1>1, <1>2, <1>3, OnlyMover DEF Moves

\* With nothing in flight an attempt is where its call is.
LEMMA NothingCancelled ==
  ASSUME NothingInFlight
  PROVE  CancelledIsOver /\ \A a \in Attempt : Calls(a) = {pc[a], "none"} /\ ~Land(a)
BY DEF NothingInFlight, CancelledIsOver, Calls, Land

\* The moves of an attempt are its steps and the faults that are left.
LEMMA EffectiveMoves ==
  ASSUME CallsTakeEffect, NothingInFlight, NEW a \in Attempt, Moves(a)
  PROVE  Step(a) \/ RejectContent(a) \/ ReplyLost(a) \/ ReconcileUnread(a)
BY NothingCancelled DEF Moves, Fault, CallFails, Cancel, Crash, Strike, CallsTakeEffect

\* The time on a job is written by the activation of the attempt it names.
LEMMA CompletedBy ==
  ASSUME IInv, NothingInFlight, [Next]_vars,
         NEW a \in Attempt, NEW j \in Job, jobs'[j].completed = a, jobs[j].completed # a
  PROVE  Publishes(a)
<1> USE DEF IInv
<1>1. ASSUME NEW b \in Attempt, WriteClaim(b) PROVE FALSE
  <2> DEFINE claimed == [status |-> "running", gen |-> local[b].gen, completed |-> NoAttempt]
  <2>1. jobs'[j] = jobs[j] \/ jobs'[j] = claimed
    BY <1>1 DEF WriteClaim, TypeOK
  <2> QED
    BY <2>1
<1>2. ASSUME NEW b \in Attempt, WriteFailure(b) PROVE FALSE
  BY <1>2 DEF WriteFailure, JobItem, TypeOK
<1>3. ASSUME NEW b \in Attempt, WriteActivation(b)
      PROVE  /\ b = a /\ local[b].gen.job = j
             /\ doc'.active = local[b].gen /\ doc'.active # doc.active
  <2>1. b = a /\ local[b].gen.job = j
    BY <1>3 DEF WriteActivation, JobItem, TypeOK
  <2>2. doc.active.fence < local[b].gen.fence /\ doc'.active = local[b].gen
    BY <1>3, ActivationPublishes
  <2>3. doc.active.fence \in 0..MaxFence
    BY GenTyped DEF TypeOK, Document
  <2> QED
    BY <2>1, <2>2, <2>3
<1>4. WriteActivation(a) /\ doc'.active # doc.active
  BY <1>1, <1>2, <1>3, RecordsStep DEF WriteProcessing, WriteRestored
<1>5. PICK b \in Attempt : Publishes(b)
  BY <1>4, PublicationMoves, NothingCancelled
<1>6. WriteActivation(b)
  BY <1>5 DEF Publishes
<1> QED
  BY <1>3, <1>5, <1>6

LEMMA CompletedAfterwardsStep ==
  ASSUME CallsTakeEffect, IInv, NothingInFlight, CompletedAfterwards, [Next]_vars
  PROVE  CompletedAfterwards'
<1> USE DEF IInv
<1> SUFFICES ASSUME NEW a \in Attempt, pc'[a] \in Unpublished, NEW j \in Job,
                    jobs'[j].completed = a
             PROVE  FALSE
  BY DEF CompletedAfterwards
<1>1. pc[a] \in Unpublished
  <2>1. CASE Moves(a)
    <3>1. {"release", "ended"} \cap Unpublished = {}
      BY DEF Unpublished
    <3> QED
      BY <2>1, <3>1, MoveLeads DEF Leads
  <2> QED
    BY <2>1, OnlyMover
<1>2. jobs[j].completed # a
  BY <1>1 DEF CompletedAfterwards
<1>3. Publishes(a)
  BY <1>2, CompletedBy
<1> QED
  BY <1>3 DEF Publishes, Calls, Retiring, Unpublished

\* Data appears where an attempt stores it, which then goes on or cleans up.
LEMMA StoredBy ==
  ASSUME CallsTakeEffect, TypeOK, NothingInFlight, [Next]_vars,
         NEW g \in Gen, Stored(g)', ~Stored(g)
  PROVE  \E a \in Attempt : AccountsFor(a, g)'
<1> USE DEF TypeOK, Stored
<1>1. ASSUME NEW a \in Attempt, NEW call, Effect(a, call)
      PROVE  call \in {"chunks", "vectors"} /\ local[a].gen = g
  <2>1. CASE call \in {"cleanup", "retire"}
    BY <1>1, <2>1 DEF Effect, DeleteData
  <2>2. CASE call \in {"chunks", "vectors"}
    BY <1>1, <2>2 DEF Effect, WriteChunks, WriteVectors
  <2>3. CASE call \notin {"cleanup", "retire", "chunks", "vectors"}
    BY <1>1, <2>3 DEF Effect, TakeLease, WriteClaim, WriteGeneration, WriteProcessing,
       WriteActivation, WriteRestored, WriteFailure, DeleteLease
  <2> QED
    BY <2>1, <2>2, <2>3
<1>2. CASE UNCHANGED vars \/ Expire
  BY <1>2 DEF vars, stores, Expire
<1>3. ASSUME NEW a \in Attempt, Step(a) PROVE AccountsFor(a, g)'
  <2>1. PutChunks(a) \/ UpsertVectors(a)
    <3>1. CASE UNCHANGED stores
      BY <3>1 DEF stores
    <3>2. ASSUME NEW call, Effect(a, call), call \notin {"chunks", "vectors"} PROVE FALSE
      BY <1>1, <3>2
    <3>3. CASE GetDocument(a) \/ FindExisting(a) \/ LeaseBusy(a) \/ LeaseBlocked(a)
               \/ RereadLease(a) \/ ClaimRejected(a) \/ FindWinner(a) \/ SaveProcessingRejected(a)
               \/ ActivateRejected(a) \/ Reconcile(a) \/ RereadDocument(a) \/ FailJobRejected(a)
      BY <3>1, <3>3 DEF GetDocument, FindExisting, LeaseBusy, LeaseBlocked, RereadLease,
         ClaimRejected, FindWinner, SaveProcessingRejected, ActivateRejected, Reconcile,
         RereadDocument, FailJobRejected
    <3>4. CASE AcquireLease(a) \/ ClaimJob(a) \/ SaveBuilding(a) \/ SaveProcessing(a)
               \/ SaveReady(a) \/ Activate(a)
      BY <3>2, <3>4 DEF AcquireLease, ClaimJob, SaveBuilding, SaveProcessing, SaveReady, Activate,
         Effect
    <3>5. CASE SupersedeGeneration(a) \/ RetireData(a) \/ CleanupData(a) \/ FailGeneration(a)
               \/ RestoreDocument(a) \/ FailJob(a) \/ ReleaseLease(a)
      BY <3>1, <3>2, <3>5 DEF SupersedeGeneration, RetireData, CleanupData, FailGeneration,
         RestoreDocument, FailJob, ReleaseLease, Effect
    <3> QED
      BY <1>3, <3>3, <3>4, <3>5 DEF Step
  <2>2. Effect(a, pc[a]) /\ local' = local /\ pc'[a] \in {"vectors", "ready"}
    BY <2>1 DEF PutChunks, UpsertVectors, Effect, Goto
  <2> QED
    BY <1>1, <2>2 DEF AccountsFor
<1>4. ASSUME NEW a \in Attempt, ReplyLost(a) PROVE AccountsFor(a, g)'
  <2>1. pc[a] \in {"chunks", "vectors"} /\ local[a].gen = g /\ local' = local
    BY <1>1, <1>4 DEF ReplyLost
  <2>2. pc'[a] = "cleanup"
    BY <1>4, <2>1 DEF ReplyLost, Raise, Handler, Prepare, Suppressed, Finish
  <2> QED
    BY <2>1, <2>2 DEF AccountsFor
<1>5. ASSUME NEW a \in Attempt, RejectContent(a) \/ ReconcileUnread(a) PROVE FALSE
  BY <1>5 DEF RejectContent, ReconcileUnread, stores
<1> QED
  BY <1>2, <1>3, <1>4, <1>5, EffectiveMoves DEF Next, Moves

\* An activation that takes effect leaves the generation it replaced to the
\* attempt, if the attempt is told, and to nobody if it is not.
LEMMA ReplacedAccounted ==
  ASSUME CallsTakeEffect, IInv, NothingInFlight, [Next]_vars,
         NEW g \in Gen, g = doc.active, doc'.active # g
  PROVE  \E a \in Attempt : AccountsFor(a, g)' \/ (Unaware(a)' /\ local'[a].active = g)
<1> USE DEF IInv
<1>1. PICK a \in Attempt : Publishes(a)
  BY PublicationMoves, NothingCancelled
<1>2. WriteActivation(a) /\ pc[a] = "activate" /\ local' = local
  BY <1>1, NothingCancelled DEF Publishes
<1>3. local[a].active = g /\ g # NoGen
  BY <1>2, GenTyped DEF WriteActivation, CanPublish, RevisionCurrent
<1>4. \E j \in Job : jobs'[j].status = "succeeded" /\ jobs'[j].completed = a
  <2> DEFINE j == local[a].gen.job
  <2>1. j \in Job
    BY <1>2, ActivationPublishes, GenTyped
  <2>2. jobs'[j].status = "succeeded" /\ jobs'[j].completed = a
    BY <1>2, <2>1 DEF WriteActivation, TypeOK, JobItem
  <2> QED
    BY <2>1, <2>2
<1>5. Moves(a)
  <2>1. pc'[a] # "activate"
    BY <1>1 DEF Publishes, Calls, Retiring
  <2> QED
    BY <1>2, <2>1, OnlyMover
<1>6. Activate(a) \/ ActivateRejected(a) \/ ReplyLost(a)
  <2>1. CASE Step(a)
    BY <1>2, <2>1 DEF Step, GetDocument, FindExisting, AcquireLease, LeaseBusy, LeaseBlocked,
       RereadLease, ClaimJob, ClaimRejected, FindWinner, SaveBuilding, SaveProcessing,
       SaveProcessingRejected, PutChunks, UpsertVectors, SaveReady, Reconcile,
       SupersedeGeneration, RetireData, CleanupData, FailGeneration, RereadDocument,
       RestoreDocument, FailJob, FailJobRejected, ReleaseLease
  <2> QED
    BY <1>2, <1>5, <2>1, EffectiveMoves DEF RejectContent, ReconcileUnread
<1>7. CASE Activate(a)
  <2>1. pc'[a] = "supersede"
    BY <1>3, <1>7 DEF Activate, AfterPublication, Finish, TypeOK
  <2> QED
    BY <1>2, <1>3, <2>1 DEF AccountsFor
<1>8. CASE ActivateRejected(a)
  BY <1>8 DEF ActivateRejected, stores
<1>9. CASE ReplyLost(a)
  <2>1. result'[a] = "error"
    BY <1>2, <1>9 DEF ReplyLost, Raise, Suppressed, Finish, TypeOK
  <2> QED
    BY <1>2, <1>3, <1>4, <2>1 DEF Unaware
<1> QED
  BY <1>6, <1>7, <1>8, <1>9

\* Who accounts for a generation goes on doing so, until the generation is
\* published or its data is deleted.
LEMMA AccountKept ==
  ASSUME CallsTakeEffect, IInv, NothingInFlight, [Next]_vars,
         NEW g \in Gen, Stored(g)', NEW a \in Attempt, AccountsFor(a, g)
  PROVE  g = doc'.active \/ AccountsFor(a, g)'
<1> USE DEF IInv
<1> SUFFICES ASSUME Moves(a) PROVE g = doc'.active \/ AccountsFor(a, g)'
  BY OnlyMover DEF AccountsFor
<1> DEFINE Kept == local'[a].gen = local[a].gen /\ local'[a].active = local[a].active
<1>1. pc[a] \in {"vectors", "ready", "activate", "cleanup", "supersede", "retire"}
  BY DEF AccountsFor
<1>2. \/ UpsertVectors(a) \/ SaveReady(a) \/ Activate(a) \/ ActivateRejected(a)
      \/ SupersedeGeneration(a) \/ RetireData(a) \/ CleanupData(a) \/ ReplyLost(a)
  <2>1. CASE Step(a)
    BY <1>1, <2>1 DEF Step, GetDocument, FindExisting, AcquireLease, LeaseBusy, LeaseBlocked,
       RereadLease, ClaimJob, ClaimRejected, FindWinner, SaveBuilding, SaveProcessing,
       SaveProcessingRejected, PutChunks, Reconcile, FailGeneration, RereadDocument,
       RestoreDocument, FailJob, FailJobRejected, ReleaseLease
  <2> QED
    BY <1>1, <2>1, EffectiveMoves DEF RejectContent, ReconcileUnread
<1>3. local' = local
  BY <1>2 DEF UpsertVectors, SaveReady, Activate, ActivateRejected, SupersedeGeneration,
     RetireData, CleanupData, ReplyLost
<1>4. CASE UpsertVectors(a) \/ SaveReady(a) \/ ActivateRejected(a) \/ SupersedeGeneration(a)
  BY <1>3, <1>4 DEF AccountsFor, UpsertVectors, SaveReady, ActivateRejected, SupersedeGeneration,
     Goto, Finish, TypeOK
<1>5. ASSUME WriteActivation(a), local[a].gen = g PROVE g = doc'.active
  BY <1>5, ActivationPublishes
<1>6. ASSUME DeleteData(g, FALSE) PROVE FALSE
  BY <1>6 DEF DeleteData, Stored, TypeOK
<1>7. CASE Activate(a) \/ RetireData(a) \/ CleanupData(a)
  BY <1>5, <1>6, <1>7 DEF AccountsFor, Activate, RetireData, CleanupData
<1>8. CASE ReplyLost(a)
  <2>1. Effect(a, pc[a])
    BY <1>8 DEF ReplyLost
  <2>2. CASE pc[a] \in {"vectors", "ready"}
    <3>1. pc'[a] = "cleanup"
      BY <1>8, <2>2 DEF ReplyLost, Raise, Handler, Prepare, Suppressed, Finish, TypeOK
    <3> QED
      BY <1>3, <2>2, <3>1 DEF AccountsFor
  <2>3. CASE pc[a] = "activate"
    BY <1>5, <2>1, <2>3 DEF AccountsFor, Effect
  <2>4. CASE pc[a] = "supersede"
    <3>1. pc'[a] = "retire"
      BY <1>8, <2>4 DEF ReplyLost, Raise, Handler, Prepare, Suppressed, Goto, TypeOK
    <3> QED
      BY <1>3, <2>4, <3>1 DEF AccountsFor
  <2>5. CASE pc[a] \in {"cleanup", "retire"}
    BY <1>6, <2>1, <2>5 DEF AccountsFor, Effect
  <2> QED
    BY <1>1, <2>2, <2>3, <2>4, <2>5
<1> QED
  BY <1>2, <1>4, <1>7, <1>8

\* An attempt that does not know that it published either finds out, and then
\* retires what it replaced, or never does.
LEMMA UnawareKept ==
  ASSUME CallsTakeEffect, IInv, NothingInFlight, CompletedAfterwards, [Next]_vars,
         NEW g \in Gen, NEW a \in Attempt, Unaware(a), local[a].active = g
  PROVE  AccountsFor(a, g)' \/ (Unaware(a)' /\ local'[a].active = g)
<1> USE DEF IInv
<1>1. pc[a] \notin Unpublished
  BY DEF Unaware, CompletedAfterwards
<1>2. local'[a].active = g
  BY <1>1, ActiveReadOnce DEF GetDocument, Unpublished
<1>3. \E j \in Job : jobs'[j].status = "succeeded" /\ jobs'[j].completed = a
  BY SuccessStays DEF Unaware
<1>4. CASE result'[a] # "published"
  BY <1>2, <1>3, <1>4 DEF Unaware
<1>5. CASE result'[a] = "published"
  <2>1. result[a] # "published"
    BY DEF Unaware
  <2>2. ASSUME NEW b \in Attempt, Step(b) PROVE b = a /\ (Activate(a) \/ Reconcile(a))
    BY <1>5, <2>1, <2>2 DEF Step, GetDocument, FindExisting, AcquireLease, LeaseBusy, LeaseBlocked,
       RereadLease, ClaimJob, ClaimRejected, FindWinner, SaveBuilding, SaveProcessing,
       SaveProcessingRejected, PutChunks, UpsertVectors, SaveReady, Activate, ActivateRejected,
       Reconcile, SupersedeGeneration, RetireData, CleanupData, FailGeneration, RereadDocument,
       RestoreDocument, FailJob, FailJobRejected, ReleaseLease, Finish, TypeOK
  <2>3. ASSUME NEW b \in Attempt, Land(b) \/ Fault(b) PROVE FALSE
    BY <1>5, <2>1, <2>3 DEF Land, Fault, RejectContent, CallFails, ReplyLost, ReconcileUnread,
       Raise, Cancel, Crash, Finish, TypeOK
  <2>4. Activate(a) \/ Reconcile(a)
    BY <1>5, <2>1, <2>2, <2>3 DEF Next, Expire, vars, control
  <2>5. Reconcile(a) /\ pc'[a] = "supersede"
    <3>1. Reconcile(a)
      BY <1>1, <2>4 DEF Activate, Unpublished
    <3>2. local[a].active # NoGen
      BY GenTyped
    <3> QED
      BY <1>5, <3>1, <3>2 DEF Reconcile, Finish, AfterPublication, TypeOK
  <2> QED
    BY <1>2, <2>5 DEF AccountsFor
<1> QED
  BY <1>4, <1>5

LEMMA DataStep ==
  ASSUME CallsTakeEffect, IInv, DataInv, [Next]_vars
  PROVE  DataInv'
<1> USE DEF DataInv
<1>1. NothingInFlight' /\ CompletedAfterwards'
  BY NothingInFlightStep, CompletedAfterwardsStep DEF IInv, CallsTakeEffect
<1>2. ASSUME NEW g \in Gen, Stored(g)'
      PROVE  \/ g = doc'.active
             \/ \E a \in Attempt : AccountsFor(a, g)' \/ (Unaware(a)' /\ local'[a].active = g)
  <2>1. CASE ~Stored(g)
    BY <1>2, <2>1, StoredBy DEF IInv
  <2>2. CASE g = doc.active
    BY <2>2, ReplacedAccounted
  <2>3. ASSUME NEW a \in Attempt, AccountsFor(a, g) PROVE g = doc'.active \/ AccountsFor(a, g)'
    BY <1>2, <2>3, AccountKept
  <2>4. ASSUME NEW a \in Attempt, Unaware(a), local[a].active = g
        PROVE  AccountsFor(a, g)' \/ (Unaware(a)' /\ local'[a].active = g)
    BY <2>4, UnawareKept
  <2> QED
    BY <2>1, <2>2, <2>3, <2>4 DEF DataAccounted
<1>3. DataAccounted'
  BY <1>2 DEF DataAccounted
<1> QED
  BY <1>1, <1>3

LEMMA DataInit == Init => DataInv
<1> SUFFICES ASSUME Init PROVE DataInv
  OBVIOUS
<1>1. NothingInFlight
  BY DEF Init, NothingInFlight
<1>2. CompletedAfterwards
  BY DEF Init, CompletedAfterwards
<1>3. DataAccounted
  BY DEF Init, DataAccounted, Stored
<1> QED
  BY <1>1, <1>2, <1>3 DEF DataInv

\* Data that nobody deletes any more was replaced by an attempt that does not know
\* that it published: whatever expires, is rejected or raises after it took effect.
\* A call that raises without its effect, a cancellation and a crash leave data of
\* their own, which the deletion by document is for (GenerationStore).
THEOREM OrphansAreExplained ==
  ASSUME CallsTakeEffect
  PROVE  Spec => []OrphansExplained
<1>1. IInv /\ DataInv /\ [Next]_vars => DataInv'
  BY CallsTakeEffect, DataStep
<1>2. DataInv => OrphansExplained
  BY DEF DataInv, DataAccounted, OrphansExplained, AtRest, AccountsFor
<1> QED
  BY <1>1, <1>2, DataInit, IngestionInvariant, PTL DEF Spec

\* With every call answered an attempt that published knows it.
PublishersKnow ==
    \A a \in Attempt : \A j \in Job : jobs[j].completed = a =>
        result[a] = "published" /\ pc[a] \in {"supersede", "retire", "release", "ended"}

LEMMA PublishersKnowStep ==
  ASSUME Faults \subseteq {"expire", "invalid"}, IInv, NothingInFlight, PublishersKnow, [Next]_vars
  PROVE  PublishersKnow'
<1> USE DEF IInv
<1>0. CallsTakeEffect
  BY DEF CallsTakeEffect
<1> SUFFICES ASSUME NEW a \in Attempt, NEW j \in Job, jobs'[j].completed = a
             PROVE  /\ result'[a] = "published"
                    /\ pc'[a] \in {"supersede", "retire", "release", "ended"}
  BY DEF PublishersKnow
<1>1. ASSUME NEW b \in Attempt, Moves(b) PROVE Step(b) \/ RejectContent(b)
  BY <1>0, <1>1, EffectiveMoves DEF ReplyLost, ReconcileUnread, Strike
<1>2. CASE jobs[j].completed = a
  <2>1. result[a] = "published" /\ pc[a] \in {"supersede", "retire", "release", "ended"}
    BY <1>2 DEF PublishersKnow
  <2>2. ASSUME Step(a) PROVE SupersedeGeneration(a) \/ RetireData(a) \/ ReleaseLease(a)
    BY <2>1, <2>2 DEF Step, GetDocument, FindExisting, AcquireLease, LeaseBusy, LeaseBlocked,
       RereadLease, ClaimJob, ClaimRejected, FindWinner, SaveBuilding, SaveProcessing,
       SaveProcessingRejected, PutChunks, UpsertVectors, SaveReady, Activate, ActivateRejected,
       Reconcile, CleanupData, FailGeneration, RereadDocument, RestoreDocument, FailJob,
       FailJobRejected
  <2>3. CASE Step(a)
    BY <2>1, <2>2, <2>3 DEF SupersedeGeneration, RetireData, ReleaseLease, Goto, TypeOK
  <2>4. CASE RejectContent(a)
    BY <2>1, <2>4 DEF RejectContent
  <2>5. ASSUME NEW b \in Attempt, b # a, Step(b) \/ RejectContent(b)
        PROVE  pc'[a] = pc[a] /\ result'[a] = result[a]
    BY <2>5 DEF Step, GetDocument, FindExisting, AcquireLease, LeaseBusy, LeaseBlocked,
       RereadLease, ClaimJob, ClaimRejected, FindWinner, SaveBuilding, SaveProcessing,
       SaveProcessingRejected, PutChunks, UpsertVectors, SaveReady, Activate, ActivateRejected,
       Reconcile, SupersedeGeneration, RetireData, CleanupData, FailGeneration, RereadDocument,
       RestoreDocument, FailJob, FailJobRejected, ReleaseLease, RejectContent, Goto, Finish, TypeOK
  <2>6. CASE UNCHANGED vars \/ Expire
    BY <2>1, <2>6 DEF vars, control, Expire
  <2> QED
    BY <1>1, <2>1, <2>3, <2>4, <2>5, <2>6 DEF Next, Moves
<1>3. CASE jobs[j].completed # a
  <2>1. Publishes(a)
    BY <1>3, CompletedBy
  <2>2. pc[a] = "activate" /\ pc'[a] # "activate" /\ doc'.active # doc.active
    <3>1. doc.active.fence < local[a].gen.fence /\ doc'.active = local[a].gen
      BY <2>1, ActivationPublishes DEF Publishes
    <3>2. doc.active.fence \in 0..MaxFence
      BY GenTyped DEF TypeOK, Document
    <3> QED
      BY <2>1, <3>1, <3>2, NothingCancelled DEF Publishes, Calls, Retiring
  <2>3. Step(a)
    BY <1>1, <2>2, OnlyMover DEF RejectContent
  <2>4. Activate(a) \/ ActivateRejected(a)
    BY <2>2, <2>3 DEF Step, GetDocument, FindExisting, AcquireLease, LeaseBusy, LeaseBlocked,
       RereadLease, ClaimJob, ClaimRejected, FindWinner, SaveBuilding, SaveProcessing,
       SaveProcessingRejected, PutChunks, UpsertVectors, SaveReady, Reconcile,
       SupersedeGeneration, RetireData, CleanupData, FailGeneration, RereadDocument,
       RestoreDocument, FailJob, FailJobRejected, ReleaseLease
  <2> QED
    BY <2>2, <2>4 DEF Activate, ActivateRejected, AfterPublication, Finish, stores, TypeOK
<1> QED
  BY <1>2, <1>3

\* If no call raises, nothing but the active generation is stored when every attempt
\* has ended, whatever expires and whichever contents are rejected.
THEOREM NothingIsOrphaned ==
  ASSUME Faults \subseteq {"expire", "invalid"}
  PROVE  Spec => []NoOrphans
<1>1. CallsTakeEffect
  BY DEF CallsTakeEffect
<1>2. Init => PublishersKnow
  BY DEF Init, PublishersKnow
<1>3. IInv /\ DataInv /\ [Next]_vars => DataInv'
  BY <1>1, DataStep
<1>4. IInv /\ DataInv /\ PublishersKnow /\ [Next]_vars => PublishersKnow'
  BY Faults \subseteq {"expire", "invalid"}, PublishersKnowStep DEF DataInv
<1>5. DataInv /\ PublishersKnow => NoOrphans
  BY DEF DataInv, DataAccounted, NoOrphans, AtRest, AccountsFor, PublishersKnow, Unaware
<1> QED
  BY <1>2, <1>3, <1>4, <1>5, DataInit, IngestionInvariant, PTL DEF Spec

-----------------------------------------------------------------------------
(* One job, delivered serially                                              *)

\* One attempt moves, and of the faults it meets only two are left.
LEMMA SerialMover ==
  ASSUME Faults \subseteq {"expire", "crash", "invalid"}, TypeOK, NothingInFlight, [Next]_vars
  PROVE  \/ UNCHANGED vars \/ Expire
         \/ \E a \in Attempt :
              /\ Step(a) \/ RejectContent(a) \/ Crash(a)
              /\ \A b \in Attempt \ {a} : pc'[b] = pc[b] /\ local'[b] = local[b]
<1>1. ASSUME NEW a \in Attempt, Step(a)
      PROVE  \A b \in Attempt \ {a} : pc'[b] = pc[b] /\ local'[b] = local[b]
  BY <1>1 DEF Step, GetDocument, FindExisting, AcquireLease, LeaseBusy, LeaseBlocked, RereadLease,
     ClaimJob, ClaimRejected, FindWinner, SaveBuilding, SaveProcessing, SaveProcessingRejected,
     PutChunks, UpsertVectors, SaveReady, Activate, ActivateRejected, Reconcile,
     SupersedeGeneration, RetireData, CleanupData, FailGeneration, RereadDocument,
     RestoreDocument, FailJob, FailJobRejected, ReleaseLease, Goto, Finish, TypeOK
<1>2. ASSUME NEW a \in Attempt, Fault(a)
      PROVE  /\ RejectContent(a) \/ Crash(a)
             /\ \A b \in Attempt \ {a} : pc'[b] = pc[b] /\ local'[b] = local[b]
  <2>1. RejectContent(a) \/ Crash(a)
    BY <1>2 DEF Fault, CallFails, ReplyLost, ReconcileUnread, Cancel, Strike
  <2> QED
    BY <2>1 DEF RejectContent, Crash, Finish, TypeOK
<1>3. ASSUME NEW a \in Attempt PROVE ~Land(a)
  BY NothingCancelled
<1> QED
  BY <1>1, <1>2, <1>3 DEF Next

\* A move of the only attempt at work: the document and the lease are its own until
\* it gives the lease back, and by then the job is settled.
LEMMA SerialMove ==
  ASSUME OneDelivery, TypeOK, JobsOwnGeneration, TokenHeld, DocumentHeld, ClaimedUnderToken,
         SettledBeforeRelease,
         NEW a \in Attempt, Step(a) \/ RejectContent(a) \/ Crash(a)
  PROVE  /\ pc'[a] \in Held =>
              /\ local'[a].gen =
                     [fp |-> FingerprintOf[a], job |-> JobOf[a], fence |-> lease'.fence]
              /\ lease'.fence > 0
         /\ pc'[a] \in {"find", "acquire"} \cup Prepare => local'[a].revision = doc'.revision
         /\ ClaimedUnderToken'
         /\ \A j \in Job : jobs'[j].status = "running" =>
              /\ pc'[a] \notin {"winner", "reconcile", "supersede", "retire", "release"}
              /\ pc'[a] = "claim" => jobs'[j].gen.fence < lease'.fence
              /\ pc'[a] \in Held \ {"claim"} => jobs'[j].gen = local'[a].gen
<1> DEFINE TokenNow ==
             pc'[a] \in Held =>
              /\ local'[a].gen =
                     [fp |-> FingerprintOf[a], job |-> JobOf[a], fence |-> lease'.fence]
              /\ lease'.fence > 0
           DocumentNow ==
             pc'[a] \in {"find", "acquire"} \cup Prepare => local'[a].revision = doc'.revision
           SettledNow == \A j \in Job : jobs'[j].status = "running" =>
              /\ pc'[a] \notin {"winner", "reconcile", "supersede", "retire", "release"}
              /\ pc'[a] = "claim" => jobs'[j].gen.fence < lease'.fence
              /\ pc'[a] \in Held \ {"claim"} => jobs'[j].gen = local'[a].gen
           Goal == TokenNow /\ DocumentNow /\ ClaimedUnderToken' /\ SettledNow
<1> SUFFICES Goal
  OBVIOUS
<1> USE DEF Goto, Finish
<1> /\ pc \in [Attempt -> Place] /\ local \in [Attempt -> Memory]
    /\ doc \in Document /\ lease \in LeaseItem /\ jobs \in [Job -> JobItem]
    /\ markers \in [Fingerprint -> Marker]
    /\ JobOf[a] \in Job /\ FingerprintOf[a] \in Fingerprint
  BY DEF TypeOK, Memory
<1>1. /\ pc[a] \in Held =>
           /\ local[a].gen = [fp |-> FingerprintOf[a], job |-> JobOf[a], fence |-> lease.fence]
           /\ lease.fence > 0
      /\ pc[a] \in {"find", "acquire"} \cup Prepare => local[a].revision = doc.revision
      /\ \A j \in Job : jobs[j].status = "running" =>
           /\ pc[a] \notin {"winner", "reconcile", "supersede", "retire", "release"}
           /\ pc[a] = "claim" => jobs[j].gen.fence < lease.fence
           /\ pc[a] \in Held \ {"claim"} => jobs[j].gen = local[a].gen
  BY DEF TokenHeld, DocumentHeld, SettledBeforeRelease
<1>2. \A j \in Job : jobs[j].status = "running" =>
        /\ jobs[j].gen \in Gen /\ jobs[j].gen.fence <= lease.fence
        /\ JobOf[a] = j /\ FingerprintOf[a] = jobs[j].gen.fp
        /\ markers[FingerprintOf[a]] = [gen |-> jobs[j].gen, status |-> "running"]
  BY DEF ClaimedUnderToken
<1>3. ASSUME lease' = lease, jobs' = jobs, markers' = markers PROVE ClaimedUnderToken'
  BY <1>3 DEF ClaimedUnderToken
<1>4. ASSUME \A j \in Job : jobs'[j].status # "running" PROVE ClaimedUnderToken' /\ SettledNow
  BY <1>4 DEF ClaimedUnderToken
<1>5. CASE GetDocument(a) \/ FindExisting(a) \/ LeaseBusy(a) \/ LeaseBlocked(a) \/ RereadLease(a)
  <2>1. /\ UNCHANGED stores /\ pc'[a] \in {"find", "acquire", "blocked", "ended"}
        /\ pc'[a] \in {"find", "acquire"} => local'[a].revision = doc.revision
    BY <1>1, <1>5 DEF GetDocument, FindExisting, LeaseBusy, LeaseBlocked, RereadLease, Memory
  <2>2. doc' = doc /\ lease' = lease /\ jobs' = jobs /\ markers' = markers
    BY <2>1 DEF stores
  <2> QED
    BY <1>3, <2>1, <2>2 DEF Held, Prepare, Produce, Recover
<1>6. CASE AcquireLease(a)
  <2>1. /\ lease'.fence = lease.fence + 1 /\ lease.fence \in Nat
        /\ pc'[a] = "claim" /\ pc[a] = "acquire"
        /\ UNCHANGED <<doc, jobs, markers>>
        /\ local'[a].gen = NewGen(a) /\ local'[a].revision = local[a].revision
    BY <1>6 DEF AcquireLease, TakeLease, LeaseItem, Memory
  <2>2. \A j \in Job : jobs[j].status = "running" =>
          jobs[j].gen.fence \in Nat /\ jobs[j].gen.fence < lease'.fence
    BY <1>2, <2>1, GenTyped
  <2>3. ClaimedUnderToken'
    BY <2>1, <2>2 DEF ClaimedUnderToken
  <2> QED
    BY <1>1, <2>1, <2>2, <2>3 DEF NewGen
<1>7. CASE ClaimJob(a)
  <2> DEFINE g == local[a].gen
  <2>1. pc[a] = "claim" /\ pc'[a] = "building" /\ UNCHANGED <<doc, lease, local>>
    BY <1>7 DEF ClaimJob, WriteClaim
  <2>2. /\ g = [fp |-> FingerprintOf[a], job |-> JobOf[a], fence |-> lease.fence]
        /\ lease.fence > 0
    BY <1>1, <2>1 DEF Held, Prepare
  <2>3. g \in Gen
    BY <2>2, GenTyped DEF Memory, MaybeGen
  <2>4. /\ jobs' = [jobs EXCEPT ![JobOf[a]] =
                        [status |-> "running", gen |-> g, completed |-> NoAttempt]]
        /\ markers' = [markers EXCEPT ![FingerprintOf[a]] = [gen |-> g, status |-> "running"]]
    BY <1>7, <2>2 DEF ClaimJob, WriteClaim
  <2>5. /\ \A j \in Job : jobs'[j].status = "running" => j = JobOf[a]
        /\ jobs'[JobOf[a]].gen = g
        /\ markers'[g.fp] = [gen |-> g, status |-> "running"]
    BY <1>2, <2>2, <2>4
  <2>6. ClaimedUnderToken'
    <3>1. g.fence <= lease'.fence
      BY <2>1, <2>2 DEF LeaseItem
    <3> QED
      BY <2>2, <2>3, <2>5, <3>1 DEF ClaimedUnderToken, OneDelivery
  <2> QED
    BY <1>1, <2>1, <2>2, <2>5, <2>6 DEF Prepare
<1>8. CASE ClaimRejected(a)
  <2>1. pc[a] = "claim" /\ pc'[a] = "winner" /\ UNCHANGED <<doc, lease, jobs, markers, local>>
    BY <1>8 DEF ClaimRejected, stores
  <2>2. ASSUME NEW j \in Job, jobs[j].status = "running" PROVE FALSE
    <3>1. /\ local[a].gen = [fp |-> FingerprintOf[a], job |-> j, fence |-> lease.fence]
          /\ jobs[j].gen.fence < lease.fence
      BY <1>1, <1>2, <2>1, <2>2 DEF Held, Prepare
    <3>2. CanClaim(a)
      BY <1>2, <2>2, <3>1 DEF CanClaim, Replaceable
    <3> QED
      BY <1>8, <3>2 DEF ClaimRejected
  <2> QED
    BY <1>1, <1>4, <2>1, <2>2 DEF Held, Prepare
<1>9. CASE SaveProcessingRejected(a)
  BY <1>1, <1>9 DEF SaveProcessingRejected, Prepare
<1>10. CASE SaveBuilding(a) \/ SaveProcessing(a)
  <2>1. /\ pc[a] \in {"building", "processing"} /\ UNCHANGED <<lease, jobs, markers>>
        /\ local'[a].gen = local[a].gen /\ pc'[a] \in {"processing", "chunks"}
        /\ pc'[a] = "processing" => doc' = doc /\ local' = local
    BY <1>10 DEF SaveBuilding, SaveProcessing, WriteGeneration, WriteProcessing, Memory
  <2> QED
    BY <1>1, <1>3, <2>1 DEF Held, Prepare, Produce
<1>11. CASE PutChunks(a) \/ UpsertVectors(a) \/ SaveReady(a) \/ RejectContent(a)
            \/ ActivateRejected(a) \/ CleanupData(a) \/ FailGeneration(a) \/ RereadDocument(a)
            \/ RestoreDocument(a)
  <2>1. /\ pc[a] \in Held \ {"claim"} /\ UNCHANGED <<lease, jobs, markers>>
        /\ local'[a].gen = local[a].gen
        /\ pc'[a] \in {"vectors", "ready", "activate", "cleanup", "fail_generation", "reread",
                       "restore", "fail_job"}
    BY <1>11 DEF PutChunks, UpsertVectors, SaveReady, RejectContent, ActivateRejected, CleanupData,
       FailGeneration, RereadDocument, RestoreDocument, WriteChunks, WriteVectors, WriteGeneration,
       DeleteData, WriteRestored, stores, Memory, Held, Produce, Recover
  <2> QED
    BY <1>1, <1>3, <2>1 DEF Held, Prepare
<1>12. CASE Activate(a) \/ FailJob(a)
  <2>1. /\ pc[a] \in {"activate", "fail_job"} /\ pc'[a] \in {"release", "supersede"}
        /\ UNCHANGED <<lease, local>>
    BY <1>12 DEF Activate, FailJob, WriteActivation, WriteFailure, AfterPublication
  <2>2. /\ local[a].gen.job = JobOf[a]
        /\ local[a].gen = [fp |-> FingerprintOf[a], job |-> JobOf[a], fence |-> lease.fence]
        /\ lease.fence > 0
    BY <1>1, <2>1 DEF Held, Produce, Recover
  <2>3. jobs'[JobOf[a]].status # "running" /\ \A j \in Job : j # JobOf[a] => jobs'[j] = jobs[j]
    BY <1>12, <2>2 DEF Activate, FailJob, WriteActivation, WriteFailure, JobItem
  <2>4. \A j \in Job : jobs'[j].status # "running"
    BY <1>2, <2>3
  <2> QED
    BY <1>4, <2>1, <2>2, <2>4 DEF Prepare
<1>13. CASE FailJobRejected(a)
  <2>1. pc[a] = "fail_job" /\ pc'[a] = "release" /\ UNCHANGED <<lease, jobs, markers, local>>
    BY <1>13 DEF FailJobRejected, stores
  <2>2. ASSUME NEW j \in Job, jobs[j].status = "running" PROVE FALSE
    <3>1. /\ local[a].gen = [fp |-> FingerprintOf[a], job |-> j, fence |-> lease.fence]
          /\ jobs[j].gen = local[a].gen
      BY <1>1, <1>2, <2>1, <2>2 DEF Held, Recover
    <3>2. CanFail(a)
      BY <1>2, <2>2, <3>1 DEF CanFail
    <3> QED
      BY <1>13, <3>2 DEF FailJobRejected
  <2> QED
    BY <1>1, <1>4, <2>1, <2>2 DEF Held, Prepare, Recover
<1>14. CASE FindWinner(a) \/ Reconcile(a) \/ SupersedeGeneration(a) \/ RetireData(a)
  <2>1. /\ pc[a] \in {"winner", "reconcile", "supersede", "retire"}
        /\ UNCHANGED <<lease, jobs, markers, local>>
        /\ pc'[a] \in {"release", "supersede", "cleanup", "retire"}
    BY <1>14 DEF FindWinner, Reconcile, SupersedeGeneration, RetireData, WriteGeneration,
       DeleteData, AfterPublication, stores
  <2>2. \A j \in Job : jobs'[j].status # "running"
    BY <1>1, <2>1
  <2> QED
    BY <1>1, <1>4, <2>1, <2>2 DEF Held, Prepare, Produce
<1>15. CASE ReleaseLease(a)
  <2>1. pc[a] = "release" /\ pc'[a] = "ended" /\ jobs' = jobs
    BY <1>15 DEF ReleaseLease, DeleteLease, stores
  <2>2. \A j \in Job : jobs'[j].status # "running"
    BY <1>1, <2>1
  <2> QED
    BY <1>4, <2>1, <2>2 DEF Held, Prepare, Produce, Recover
<1>16. CASE Crash(a)
  <2>1. pc'[a] = "ended" /\ lease' = lease /\ jobs' = jobs /\ markers' = markers
    BY <1>16 DEF Crash, stores
  <2> QED
    BY <1>3, <2>1 DEF Held, Prepare, Produce, Recover
<1> QED
  BY <1>5, <1>6, <1>7, <1>8, <1>9, <1>10, <1>11, <1>12, <1>13, <1>14, <1>15, <1>16 DEF Step

LEMMA SerialStep ==
  ASSUME Serial, OneDelivery, Faults \subseteq {"expire", "crash", "invalid"},
         IInv, SerialInv, [Next]_vars
  PROVE  SerialInv'
<1> USE DEF SerialInv, IInv
<1>1. NothingInFlight'
  BY NothingInFlightStep
<1>2. CASE UNCHANGED vars \/ Expire
  <2>1. /\ pc' = pc /\ local' = local /\ doc' = doc /\ jobs' = jobs /\ markers' = markers
        /\ lease'.fence = lease.fence
    BY <1>2 DEF vars, stores, control, Expire, TypeOK, LeaseItem
  <2> QED
    BY <1>1, <2>1 DEF Alone, TokenHeld, DocumentHeld, ClaimedUnderToken, SettledBeforeRelease
<1>3. ASSUME NEW a \in Attempt, Step(a) \/ RejectContent(a) \/ Crash(a),
             \A b \in Attempt \ {a} : pc'[b] = pc[b] /\ local'[b] = local[b]
      PROVE  SerialInv'
  <2>1. \A b \in Attempt \ {a} : pc'[b] \in Waiting
    <3>1. CASE GetDocument(a)
      BY <1>3, <3>1 DEF GetDocument, Waiting
    <3>2. CASE ~GetDocument(a)
      <4>1. pc[a] \notin Waiting
        BY <1>3, <3>2 DEF Step, FindExisting, AcquireLease, LeaseBusy, LeaseBlocked, RereadLease,
           ClaimJob, ClaimRejected, FindWinner, SaveBuilding, SaveProcessing, SaveProcessingRejected,
           PutChunks, UpsertVectors, SaveReady, Activate, ActivateRejected, Reconcile,
           SupersedeGeneration, RetireData, CleanupData, FailGeneration, RereadDocument,
           RestoreDocument, FailJob, FailJobRejected, ReleaseLease, RejectContent, Crash,
           Held, Prepare, Produce, Recover, Waiting
      <4> QED
        BY <1>3, <4>1 DEF Alone
    <3> QED
      BY <3>1, <3>2
  <2>2. \A b \in Attempt \ {a} : pc'[b] \notin Held \cup {"find", "acquire"} \cup Prepare
    BY <2>1 DEF Waiting, Held, Prepare, Produce, Recover
  <2>3. Alone'
    BY <2>1 DEF Alone
  <2>4. TokenHeld' /\ DocumentHeld'
    BY <1>3, <2>2, SerialMove DEF TokenHeld, DocumentHeld
  <2>5. ClaimedUnderToken'
    BY <1>3, SerialMove
  <2>6. SettledBeforeRelease'
    <3>1. {"winner", "reconcile", "supersede", "retire", "release", "claim"} \subseteq Held
      BY DEF Held, Prepare, Produce
    <3>2. ASSUME NEW b \in Attempt, NEW j \in Job, jobs'[j].status = "running"
          PROVE  /\ pc'[b] \notin {"winner", "reconcile", "supersede", "retire", "release"}
                 /\ pc'[b] = "claim" => jobs'[j].gen.fence < lease'.fence
                 /\ pc'[b] \in Held \ {"claim"} => jobs'[j].gen = local'[b].gen
      <4>1. CASE b = a
        BY <1>3, <3>2, <4>1, SerialMove
      <4>2. CASE b # a
        BY <2>2, <3>1, <4>2
      <4> QED
        BY <4>1, <4>2
    <3> QED
      BY <3>2 DEF SettledBeforeRelease
  <2> QED
    BY <1>1, <2>3, <2>4, <2>5, <2>6
<1> QED
  BY <1>2, <1>3, SerialMover

LEMMA SerialInit == Init => SerialInv
<1> SUFFICES ASSUME Init PROVE SerialInv
  OBVIOUS
<1>1. NothingInFlight /\ Alone
  BY DEF Init, NothingInFlight, Alone, Waiting
<1>2. TokenHeld /\ DocumentHeld
  BY DEF Init, TokenHeld, DocumentHeld, Held, Prepare, Produce, Recover
<1>3. ClaimedUnderToken /\ SettledBeforeRelease
  BY DEF Init, ClaimedUnderToken, SettledBeforeRelease
<1> QED
  BY <1>1, <1>2, <1>3 DEF SerialInv

\* If one job of the document is delivered, one delivery at a time, a RUNNING job can
\* always be taken over by its next delivery, wherever the attempts before it crashed
\* and whenever their leases ran out.  A second job of the document can break this, and
\* so can an error after the claim; MCIngestion_recover_other.cfg and
\* MCIngestion_recover_error.cfg show how.
THEOREM RunningJobsRecover ==
  ASSUME Serial, OneDelivery, Faults \subseteq {"expire", "crash", "invalid"}
  PROVE  Spec => []RunningJobRecoverable
<1>1. IInv /\ SerialInv /\ [Next]_vars => SerialInv'
  BY Serial, OneDelivery, Faults \subseteq {"expire", "crash", "invalid"}, SerialStep
<1>2. IInv /\ SerialInv => RunningJobRecoverable
  <2> SUFFICES ASSUME IInv, SerialInv, NEW j \in Job, jobs[j].status = "running"
               PROVE  lease.fence + 1 > jobs[j].gen.fence
    BY DEF RunningJobRecoverable
  <2>1. jobs[j].gen \in Gen /\ jobs[j].gen.fence <= lease.fence
    BY DEF SerialInv, ClaimedUnderToken
  <2>2. jobs[j].gen.fence \in 1..MaxFence /\ lease.fence \in 0..MaxFence
    BY <2>1, GenTyped DEF IInv, TypeOK, LeaseItem
  <2> QED
    BY <2>1, <2>2
<1> QED
  BY <1>1, <1>2, SerialInit, IngestionInvariant, PTL DEF Spec

=============================================================================
