----------------------------- MODULE Ingestion -----------------------------
(***************************************************************************)
(* DocumentIngestionService.ingest() for one version of one document, with *)
(* the DynamoDB records and the two object stores it writes.               *)
(*                                                                         *)
(* An Attempt is one call of ingest(): one delivery of a Job.  Every await *)
(* is a step of its own, so attempts interleave between any two calls.     *)
(* pc[a] names the call the attempt is about to make.                      *)
(*                                                                         *)
(* A generation is identified by what its id is hashed from: fingerprint,  *)
(* job and fencing token.  The records that carry these three fields next  *)
(* to the id (job, marker, document) are modelled as carrying the          *)
(* generation.  The lease's clock is abstracted to the flag live; module   *)
(* Lease has the clock.                                                    *)
(***************************************************************************)
EXTENDS Naturals

CONSTANTS Attempt, Job, Fingerprint,
          JobOf,         \* the job each attempt delivers
          FingerprintOf, \* the fingerprint each attempt computes
          NoAttempt, NoJob, NoFingerprint,
          Faults,        \* the faults of the environment that may happen
          Serial,        \* TRUE: one delivery per document at a time (FIFO message group)
          MaxFaults,     \* bound on the number of faults in a behaviour
          MaxFence       \* bound on the fencing counter

AllFaults == {"expire",      \* a lease runs out while its holder is slow
              "error",       \* a call raises and has done nothing, or part of it
              "lost_reply",  \* a call takes effect and raises
              "unread",      \* the reads that reconcile an activation raise
              "invalid",     \* the content or the embeddings are rejected
              "cancel",      \* the heartbeat cancels the ingestion
              "crash"}       \* the process dies

ASSUME IngestionAssumption ==
    /\ JobOf \in [Attempt -> Job]
    /\ FingerprintOf \in [Attempt -> Fingerprint]
    /\ NoAttempt \notin Attempt /\ NoJob \notin Job /\ NoFingerprint \notin Fingerprint
    /\ Faults \subseteq AllFaults
    /\ Serial \in BOOLEAN
    /\ MaxFaults \in Nat /\ MaxFence \in Nat

VARIABLES doc,      \* the document item
          lease,    \* the lease item of the document version
          jobs,     \* the job items
          markers,  \* the fingerprint markers
          gens,     \* status of each index-generation item
          chunks,   \* S3: how much of each generation's chunks is stored
          vectors,  \* S3 Vectors: how much of each generation's vectors is stored
          pc,       \* the next call of each attempt
          local,    \* what each attempt remembers: the document it read, its generation
          inflight, \* a call whose coroutine was cancelled while its thread runs on
          result,   \* how each attempt ended, or is going to end
          budget    \* faults that may still happen

stores  == <<doc, lease, jobs, markers, gens, chunks, vectors>>
control == <<pc, local, inflight, result>>
vars    == <<stores, control, budget>>

-----------------------------------------------------------------------------
(* Types *)

Gen == [fp: Fingerprint, job: Job, fence: 1..MaxFence]
NoGen == [fp |-> NoFingerprint, job |-> NoJob, fence |-> 0]
MaybeGen == Gen \cup {NoGen}

NoLease == [owner |-> NoJob, execution |-> NoAttempt, fence |-> 0, live |-> FALSE]
NoMarker == [gen |-> NoGen, status |-> "none"]

Document == [status: {"uploaded", "processing", "indexed", "failed"},
             active: MaybeGen, revision: Nat]
LeaseItem == [owner: Job \cup {NoJob}, execution: Attempt \cup {NoAttempt},
              fence: 0..MaxFence, live: BOOLEAN]
\* completed stands for completedAt, the clock value of the attempt that published
JobItem == [status: {"pending", "running", "succeeded", "failed"}, gen: MaybeGen,
            completed: Attempt \cup {NoAttempt}]
Marker == [gen: MaybeGen, status: {"none", "running", "succeeded", "failed"}]
Amount == {"none", "part", "all"}

Prepare == {"claim", "winner", "building", "processing"}  \* lease held, no handler yet
Produce == {"chunks", "vectors", "ready", "activate", "reconcile", "supersede", "retire"}
Recover == {"cleanup", "fail_generation", "reread", "restore", "fail_job"}
Held    == Prepare \cup Produce \cup Recover \cup {"release"}
Place   == {"idle", "find", "acquire", "blocked", "ended"} \cup Held

\* The calls that write, and so may land after their coroutine is cancelled.
Write == {"acquire", "claim", "building", "processing", "chunks", "vectors", "ready", "activate",
          "supersede", "retire", "cleanup", "fail_generation", "restore", "fail_job", "release"}

Result == {"none", "published", "reused", "busy", "conflict", "invalid", "error",
           "repository_conflict", "cancelled", "crashed"}

TypeOK ==
    /\ doc \in Document
    /\ lease \in LeaseItem
    /\ jobs \in [Job -> JobItem]
    /\ markers \in [Fingerprint -> Marker]
    /\ gens \in [Gen -> {"none", "building", "ready", "active", "failed", "superseded"}]
    /\ chunks \in [Gen -> Amount]
    /\ vectors \in [Gen -> Amount]
    /\ pc \in [Attempt -> Place]
    /\ local \in [Attempt -> [active: MaybeGen, revision: Nat, gen: MaybeGen]]
    /\ inflight \in [Attempt -> Write \cup {"none"}]
    /\ result \in [Attempt -> Result]
    /\ budget \in 0..MaxFaults

-----------------------------------------------------------------------------
(* Faulty variants of definitions below, one for each property that depends  *)
(* on the part they get wrong                                                *)

\* the token the lease held before the update
GenOfOldToken(a) == [fp |-> FingerprintOf[a], job |-> JobOf[a], fence |-> lease.fence]
\* a takeover that restarts the counter
TakeLeaseFromZero(a) ==
    /\ ~lease.live
    /\ lease' = [owner |-> JobOf[a], execution |-> a, fence |-> 1, live |-> TRUE]
    /\ UNCHANGED <<doc, jobs, markers, gens, chunks, vectors>>
\* an expired lease is left to its next owner
ReleaseUnexpired(a) ==
    lease.owner = JobOf[a] /\ lease.fence = local[a].gen.fence /\ lease.live
\* the status of the stored item is not looked at
ReplaceableByToken(status, stored, g) == stored.fence < g.fence
\* the lease item is left out of the transaction
LeaseUnchecked(a) == TRUE
\* a failure saved without its conditions
FailUnconditionally(a) == TRUE
\* a failure saved on the marker only
WriteMarkerFailure(a) ==
    /\ markers' = [markers EXCEPT ![local[a].gen.fp].status = "failed"]
    /\ UNCHANGED <<doc, lease, jobs, gens, chunks, vectors>>
\* an activation that raised counts as failed
NeverVisible(a) == FALSE
\* the generation that was active stays where it is
KeepPrevious(a) == "release"

-----------------------------------------------------------------------------
(* What each call writes when it takes effect: the conditions of the table   *)
(* are conjuncts, so a write whose condition fails is not enabled.           *)

\* The lease and the claim of an attempt; generation_id is a hash of these.
NewGen(a) == [fp |-> FingerprintOf[a], job |-> JobOf[a], fence |-> lease.fence + 1]

\* update_item: absent or expired; the token grows from the stored one or from 0
TakeLease(a) ==
    /\ ~lease.live
    /\ lease.fence < MaxFence
    /\ lease' = [owner |-> JobOf[a], execution |-> a, fence |-> lease.fence + 1, live |-> TRUE]
    /\ UNCHANGED <<doc, jobs, markers, gens, chunks, vectors>>

\* delete_item: the owner and the token match; the execution is not compared
CanRelease(a) == lease.owner = JobOf[a] /\ lease.fence = local[a].gen.fence

DeleteLease(a) ==
    /\ CanRelease(a)
    /\ lease' = NoLease
    /\ UNCHANGED <<doc, jobs, markers, gens, chunks, vectors>>

\* A job or marker item this generation may take over.
Replaceable(status, stored, g) ==
    status = "failed" \/ (status = "running" /\ stored.fence < g.fence)

CanClaim(a) ==
    LET g == local[a].gen
        job == jobs[g.job]
        marker == markers[g.fp]
    IN /\ \/ job.status = "pending"
          \/ job.gen.fp = g.fp /\ Replaceable(job.status, job.gen, g)
       /\ marker = NoMarker \/ Replaceable(marker.status, marker.gen, g)

\* Both items in one transaction.
WriteClaim(a) ==
    LET g == local[a].gen
    IN /\ CanClaim(a)
       /\ jobs' = [jobs EXCEPT ![g.job] =
                       [status |-> "running", gen |-> g, completed |-> NoAttempt]]
       /\ markers' = [markers EXCEPT ![g.fp] = [gen |-> g, status |-> "running"]]
       /\ UNCHANGED <<doc, lease, gens, chunks, vectors>>

\* generations.save has no condition.
WriteGeneration(g, status) ==
    /\ gens' = [gens EXCEPT ![g] = status]
    /\ UNCHANGED <<doc, lease, jobs, markers, chunks, vectors>>

\* documents.save under the revision the attempt read.
WriteProcessing(a) ==
    /\ doc.revision = local[a].revision
    /\ doc' = [doc EXCEPT !.status = "processing", !.revision = @ + 1]
    /\ UNCHANGED <<lease, jobs, markers, gens, chunks, vectors>>

\* The keys follow from the generation: writing some objects again removes none.
WriteChunks(a, amount) ==
    /\ chunks' = [chunks EXCEPT ![local[a].gen] = IF @ = "all" THEN @ ELSE amount]
    /\ UNCHANGED <<doc, lease, jobs, markers, gens, vectors>>

WriteVectors(a, amount) ==
    /\ vectors' = [vectors EXCEPT ![local[a].gen] = IF @ = "all" THEN @ ELSE amount]
    /\ UNCHANGED <<doc, lease, jobs, markers, gens, chunks>>

\* Both deletes are gathered; each may have removed all, some or nothing.
Remains(before) == IF before = "none" THEN {"none"} ELSE {before, "part", "none"}

DeleteData(g, partial) ==
    /\ chunks' \in {[chunks EXCEPT ![g] = left] :
                       left \in IF partial THEN Remains(chunks[g]) ELSE {"none"}}
    /\ vectors' \in {[vectors EXCEPT ![g] = left] :
                       left \in IF partial THEN Remains(vectors[g]) ELSE {"none"}}
    /\ UNCHANGED <<doc, lease, jobs, markers, gens>>

\* The conditions of the five items of the activation transaction.
LeaseMatches(a) == lease.owner = JobOf[a] /\ lease.fence = local[a].gen.fence

CanPublish(a) ==
    LET g == local[a].gen
    IN /\ doc.revision = local[a].revision
       /\ doc.active.fence < g.fence
       /\ gens[g] = "ready"
       /\ jobs[g.job].status = "running" /\ jobs[g.job].gen = g
       /\ markers[g.fp].gen = g

\* expiresAt is compared with a clock value read before the call, so a lease
\* that has run out since passes.
WriteActivation(a) ==
    LET g == local[a].gen
    IN /\ LeaseMatches(a)
       /\ CanPublish(a)
       /\ doc' = [status |-> "indexed", active |-> g, revision |-> doc.revision + 1]
       /\ gens' = [gens EXCEPT ![g] = "active"]
       /\ jobs' = [jobs EXCEPT ![g.job].status = "succeeded", ![g.job].completed = a]
       /\ markers' = [markers EXCEPT ![g.fp].status = "succeeded"]
       /\ UNCHANGED <<lease, chunks, vectors>>

\* documents.save under the revision the handler read.
WriteRestored(a) ==
    /\ doc.revision = local[a].revision
    /\ doc' = [doc EXCEPT !.status = "failed", !.revision = @ + 1]
    /\ UNCHANGED <<lease, jobs, markers, gens, chunks, vectors>>

\* Both items hold this generation and are RUNNING or already FAILED.
CanFail(a) ==
    LET g == local[a].gen
    IN /\ jobs[g.job].gen = g /\ jobs[g.job].status \in {"running", "failed"}
       /\ markers[g.fp].gen = g /\ markers[g.fp].status \in {"running", "failed"}

WriteFailure(a) ==
    LET g == local[a].gen
    IN /\ CanFail(a)
       /\ jobs' = [jobs EXCEPT ![g.job].status = "failed"]
       /\ markers' = [markers EXCEPT ![g.fp].status = "failed"]
       /\ UNCHANGED <<doc, lease, gens, chunks, vectors>>

\* The write of the call named by call.
Effect(a, call) ==
    \/ call = "acquire"         /\ TakeLease(a)
    \/ call = "claim"           /\ WriteClaim(a)
    \/ call = "building"        /\ WriteGeneration(local[a].gen, "building")
    \/ call = "processing"      /\ WriteProcessing(a)
    \/ call = "chunks"          /\ WriteChunks(a, "all")
    \/ call = "vectors"         /\ WriteVectors(a, "all")
    \/ call = "ready"           /\ WriteGeneration(local[a].gen, "ready")
    \/ call = "activate"        /\ WriteActivation(a)
    \/ call = "supersede"       /\ WriteGeneration(local[a].active, "superseded")
    \/ call = "retire"          /\ DeleteData(local[a].active, FALSE)
    \/ call = "cleanup"         /\ DeleteData(local[a].gen, FALSE)
    \/ call = "fail_generation" /\ WriteGeneration(local[a].gen, "failed")
    \/ call = "restore"         /\ WriteRestored(a)
    \/ call = "fail_job"        /\ WriteFailure(a)
    \/ call = "release"         /\ DeleteLease(a)

\* The calls that write or delete many objects may do part of it.
PartOf(a, call) ==
    \/ call = "chunks"  /\ WriteChunks(a, "part")
    \/ call = "vectors" /\ WriteVectors(a, "part")
    \/ call = "retire"  /\ DeleteData(local[a].active, TRUE)
    \/ call = "cleanup" /\ DeleteData(local[a].gen, TRUE)

Goto(a, place) == pc' = [pc EXCEPT ![a] = place]
Finish(a, place, outcome) ==
    /\ pc' = [pc EXCEPT ![a] = place]
    /\ result' = [result EXCEPT ![a] = outcome]

-----------------------------------------------------------------------------
Init ==
    /\ doc = [status |-> "uploaded", active |-> NoGen, revision |-> 0]
    /\ lease = NoLease
    /\ jobs = [j \in Job |-> [status |-> "pending", gen |-> NoGen, completed |-> NoAttempt]]
    /\ markers = [f \in Fingerprint |-> NoMarker]
    /\ gens = [g \in Gen |-> "none"]
    /\ chunks = [g \in Gen |-> "none"]
    /\ vectors = [g \in Gen |-> "none"]
    /\ pc = [a \in Attempt |-> "idle"]
    /\ local = [a \in Attempt |-> [active |-> NoGen, revision |-> 0, gen |-> NoGen]]
    /\ inflight = [a \in Attempt |-> "none"]
    /\ result = [a \in Attempt |-> "none"]
    /\ budget = MaxFaults

\* One of the faults that are allowed happens.
Strike(fault) ==
    /\ fault \in Faults
    /\ budget > 0
    /\ budget' = budget - 1

\* documents.get: every status the document can have here is ingestable.
GetDocument(a) ==
    /\ pc[a] = "idle"
    /\ Serial => \A b \in Attempt : pc[b] \in {"idle", "ended"}
    /\ local' = [local EXCEPT ![a].active = doc.active, ![a].revision = doc.revision]
    /\ Goto(a, "find")
    /\ UNCHANGED <<stores, inflight, result, budget>>

\* The job that the fingerprint's marker names has succeeded.
Canonical(f) == markers[f] # NoMarker /\ jobs[markers[f].gen.job].status = "succeeded"

\* find_by_fingerprint before the lease.
FindExisting(a) ==
    /\ pc[a] = "find"
    /\ IF Canonical(FingerprintOf[a])
       THEN Finish(a, "ended", "reused")
       ELSE Goto(a, "acquire") /\ UNCHANGED result
    /\ UNCHANGED <<stores, local, inflight, budget>>

AcquireLease(a) ==
    /\ pc[a] = "acquire"
    /\ TakeLease(a)
    /\ local' = [local EXCEPT ![a].gen = NewGen(a)]
    /\ Goto(a, "claim")
    /\ UNCHANGED <<inflight, result, budget>>

\* The lease is unexpired at the clock value the attempt presents, which is
\* older than the item it is compared with: found on reading it first ...
LeaseBusy(a) ==
    /\ pc[a] = "acquire"
    /\ lease # NoLease
    /\ Finish(a, "ended", "busy")
    /\ UNCHANGED <<stores, local, inflight, budget>>

\* ... or when the update is rejected; the item is then read again.
LeaseBlocked(a) ==
    /\ pc[a] = "acquire"
    /\ lease # NoLease
    /\ Goto(a, "blocked")
    /\ UNCHANGED <<stores, local, inflight, result, budget>>

RereadLease(a) ==
    /\ pc[a] = "blocked"
    /\ Finish(a, "ended", IF lease = NoLease THEN "repository_conflict" ELSE "busy")
    /\ UNCHANGED <<stores, local, inflight, budget>>

ClaimJob(a) ==
    /\ pc[a] = "claim"
    /\ WriteClaim(a)
    /\ Goto(a, "building")
    /\ UNCHANGED <<local, inflight, result, budget>>

ClaimRejected(a) ==
    /\ pc[a] = "claim"
    /\ ~CanClaim(a)
    /\ Goto(a, "winner")
    /\ UNCHANGED <<stores, local, inflight, result, budget>>

\* find_by_fingerprint after a rejected claim.
FindWinner(a) ==
    /\ pc[a] = "winner"
    /\ Finish(a, "release",
              IF Canonical(FingerprintOf[a]) THEN "reused"
              ELSE IF markers[FingerprintOf[a]] = NoMarker THEN "repository_conflict"
              ELSE "busy")
    /\ UNCHANGED <<stores, local, inflight, budget>>

SaveBuilding(a) ==
    /\ pc[a] = "building"
    /\ WriteGeneration(local[a].gen, "building")
    /\ Goto(a, IF local[a].active = NoGen THEN "processing" ELSE "chunks")
    /\ UNCHANGED <<local, inflight, result, budget>>

SaveProcessing(a) ==
    /\ pc[a] = "processing"
    /\ WriteProcessing(a)
    /\ local' = [local EXCEPT ![a].revision = @ + 1]
    /\ Goto(a, "chunks")
    /\ UNCHANGED <<inflight, result, budget>>

\* The revision has changed: the exception passes the inner handler by, and
\* the job stays RUNNING.
SaveProcessingRejected(a) ==
    /\ pc[a] = "processing"
    /\ doc.revision # local[a].revision
    /\ Finish(a, "release", "repository_conflict")
    /\ UNCHANGED <<stores, local, inflight, budget>>

\* Extraction, chunking and embedding precede the first write and change no
\* record; what they reject is final.
RejectContent(a) ==
    /\ Strike("invalid")
    /\ pc[a] = "chunks"
    /\ Finish(a, "cleanup", "invalid")
    /\ UNCHANGED <<stores, local, inflight>>

PutChunks(a) ==
    /\ pc[a] = "chunks"
    /\ WriteChunks(a, "all")
    /\ Goto(a, "vectors")
    /\ UNCHANGED <<local, inflight, result, budget>>

UpsertVectors(a) ==
    /\ pc[a] = "vectors"
    /\ WriteVectors(a, "all")
    /\ Goto(a, "ready")
    /\ UNCHANGED <<local, inflight, result, budget>>

SaveReady(a) ==
    /\ pc[a] = "ready"
    /\ WriteGeneration(local[a].gen, "ready")
    /\ Goto(a, "activate")
    /\ UNCHANGED <<local, inflight, result, budget>>

\* Where a published attempt goes: the generation it read as active, if any,
\* is retired.
AfterPublication(a) == IF local[a].active = NoGen THEN "release" ELSE "supersede"

Activate(a) ==
    /\ pc[a] = "activate"
    /\ WriteActivation(a)
    /\ Finish(a, AfterPublication(a), "published")
    /\ UNCHANGED <<local, inflight, budget>>

ActivateRejected(a) ==
    /\ pc[a] = "activate"
    /\ ~(LeaseMatches(a) /\ lease.live /\ CanPublish(a))
    /\ Finish(a, "cleanup", "conflict")
    /\ UNCHANGED <<stores, local, inflight, budget>>

\* The records show the exact commit of this attempt.
CommitVisible(a) ==
    LET g == local[a].gen
    IN /\ doc.active = g /\ doc.status = "indexed"
       /\ gens[g] = "active"
       /\ jobs[g.job].status = "succeeded" /\ jobs[g.job].gen = g
       /\ jobs[g.job].completed = a
       /\ markers[g.fp] = [gen |-> g, status |-> "succeeded"]

\* Four consistent reads after an activation that raised.
Reconcile(a) ==
    /\ pc[a] = "reconcile"
    /\ IF CommitVisible(a)
       THEN Finish(a, AfterPublication(a), "published")
       ELSE Finish(a, "cleanup", "error")
    /\ UNCHANGED <<stores, local, inflight, budget>>

\* One of the reads raises: the activation's exception is raised again.
ReconcileUnread(a) ==
    /\ Strike("unread")
    /\ pc[a] = "reconcile"
    /\ Finish(a, "cleanup", "error")
    /\ UNCHANGED <<stores, local, inflight>>

SupersedeGeneration(a) ==
    /\ pc[a] = "supersede"
    /\ WriteGeneration(local[a].active, "superseded")
    /\ Goto(a, "retire")
    /\ UNCHANGED <<local, inflight, result, budget>>

RetireData(a) ==
    /\ pc[a] = "retire"
    /\ DeleteData(local[a].active, FALSE)
    /\ Goto(a, "release")
    /\ UNCHANGED <<local, inflight, result, budget>>

CleanupData(a) ==
    /\ pc[a] = "cleanup"
    /\ DeleteData(local[a].gen, FALSE)
    /\ Goto(a, "fail_generation")
    /\ UNCHANGED <<local, inflight, result, budget>>

FailGeneration(a) ==
    /\ pc[a] = "fail_generation"
    /\ WriteGeneration(local[a].gen, "failed")
    /\ Goto(a, "reread")
    /\ UNCHANGED <<local, inflight, result, budget>>

\* documents.get in the handler: only a document that is PROCESSING and has no
\* active generation is restored, under the revision read here.
RereadDocument(a) ==
    /\ pc[a] = "reread"
    /\ IF doc.status = "processing" /\ doc.active = NoGen
       THEN /\ local' = [local EXCEPT ![a].revision = doc.revision]
            /\ Goto(a, "restore")
       ELSE Goto(a, "fail_job") /\ UNCHANGED local
    /\ UNCHANGED <<stores, inflight, result, budget>>

\* A save whose revision has changed is suppressed.
RestoreDocument(a) ==
    /\ pc[a] = "restore"
    /\ \/ WriteRestored(a)
       \/ doc.revision # local[a].revision /\ UNCHANGED stores
    /\ Goto(a, "fail_job")
    /\ UNCHANGED <<local, inflight, result, budget>>

FailJob(a) ==
    /\ pc[a] = "fail_job"
    /\ WriteFailure(a)
    /\ Goto(a, "release")
    /\ UNCHANGED <<local, inflight, result, budget>>

\* A rejected save raises RepositoryConflictError in place of the first error.
FailJobRejected(a) ==
    /\ pc[a] = "fail_job"
    /\ ~CanFail(a)
    /\ Finish(a, "release", "repository_conflict")
    /\ UNCHANGED <<stores, local, inflight, budget>>

ReleaseLease(a) ==
    /\ pc[a] = "release"
    /\ \/ DeleteLease(a)
       \/ ~CanRelease(a) /\ UNCHANGED stores
    /\ Goto(a, "ended")
    /\ UNCHANGED <<local, inflight, result, budget>>

-----------------------------------------------------------------------------
(* Faults *)

\* The lease runs out: the heartbeat is late or its process has stopped.
Expire ==
    /\ Strike("expire")
    /\ lease.live
    /\ lease' = [lease EXCEPT !.live = FALSE]
    /\ UNCHANGED <<doc, jobs, markers, gens, chunks, vectors, control>>

\* Where an exception of the call at a place leads.
Handler(place) ==
    CASE place \in {"acquire", "blocked"} -> "ended"
      [] place \in Prepare -> "release"
      [] place = "activate" -> "reconcile"
      [] place \in {"chunks", "vectors", "ready"} -> "cleanup"
      [] place = "supersede" -> "retire"            \* suppressed
      [] place = "retire" -> "release"
      [] place = "cleanup" -> "fail_generation"
      [] place = "fail_generation" -> "reread"
      [] place \in {"reread", "restore"} -> "fail_job"
      [] place = "fail_job" -> "release"
      [] place = "release" -> "ended"

\* The exceptions of the best-effort calls are swallowed.
Suppressed == {"supersede", "retire", "cleanup", "fail_generation", "reread", "restore"}

Raise(a) ==
    IF pc[a] \in Suppressed
    THEN Goto(a, Handler(pc[a])) /\ UNCHANGED result
    ELSE Finish(a, Handler(pc[a]), "error")

\* A call raises without its effect, or with a part of it.
CallFails(a) ==
    /\ Strike("error")
    /\ pc[a] \in Write \cup {"blocked", "winner", "reread"}
    /\ Raise(a)
    /\ \/ UNCHANGED stores
       \/ PartOf(a, pc[a])
    /\ UNCHANGED <<local, inflight>>

\* A call takes effect and its caller sees an exception.
ReplyLost(a) ==
    /\ Strike("lost_reply")
    /\ pc[a] \in Write
    /\ Effect(a, pc[a])
    /\ Raise(a)
    /\ UNCHANGED <<local, inflight>>

\* The heartbeat ends before the ingestion and cancels it.  CancelledError is
\* not an Exception: only the finally clause runs.  The thread of the call
\* that was being awaited runs on.
Cancel(a) ==
    /\ Strike("cancel")
    /\ pc[a] \in Held \cup {"find", "acquire", "blocked"}
    /\ Finish(a, IF pc[a] \in Held \ {"release"} THEN "release" ELSE "ended", "cancelled")
    /\ inflight' \in {inflight} \cup
           {[inflight EXCEPT ![a] = call] : call \in {pc[a]} \cap Write}
    /\ UNCHANGED <<stores, local>>

\* The abandoned call takes effect, wholly or in part, or it is rejected.
Land(a) ==
    /\ inflight[a] # "none"
    /\ \/ Effect(a, inflight[a])
       \/ PartOf(a, inflight[a])
       \/ UNCHANGED stores
    /\ inflight' = [inflight EXCEPT ![a] = "none"]
    /\ UNCHANGED <<pc, local, result, budget>>

Crash(a) ==
    /\ Strike("crash")
    /\ pc[a] \in Held
    /\ Finish(a, "ended", "crashed")
    /\ UNCHANGED <<stores, local, inflight>>

Step(a) ==
    \/ GetDocument(a) \/ FindExisting(a)
    \/ AcquireLease(a) \/ LeaseBusy(a) \/ LeaseBlocked(a) \/ RereadLease(a)
    \/ ClaimJob(a) \/ ClaimRejected(a) \/ FindWinner(a)
    \/ SaveBuilding(a) \/ SaveProcessing(a) \/ SaveProcessingRejected(a)
    \/ PutChunks(a) \/ UpsertVectors(a) \/ SaveReady(a)
    \/ Activate(a) \/ ActivateRejected(a) \/ Reconcile(a)
    \/ SupersedeGeneration(a) \/ RetireData(a)
    \/ CleanupData(a) \/ FailGeneration(a) \/ RereadDocument(a) \/ RestoreDocument(a)
    \/ FailJob(a) \/ FailJobRejected(a)
    \/ ReleaseLease(a)

Fault(a) ==
    \/ RejectContent(a) \/ CallFails(a) \/ ReplyLost(a) \/ ReconcileUnread(a)
    \/ Cancel(a) \/ Crash(a)

Next == Expire \/ \E a \in Attempt : Step(a) \/ Land(a) \/ Fault(a)

Spec == Init /\ [][Next]_vars

\* Nothing stops a worker between two calls except the faults: each attempt is
\* one sequential coroutine.
FairSpec == Spec /\ \A a \in Attempt : WF_vars(Step(a))

-----------------------------------------------------------------------------
(* Properties *)

\* The four records of a publication agree: the generation the document points
\* at is the one its job and its fingerprint's marker report as succeeded.
PublicationConsistent ==
    LET g == doc.active
    IN g # NoGen =>
         /\ doc.status = "indexed"
         /\ jobs[g.job].status = "succeeded" /\ jobs[g.job].gen = g
         /\ markers[g.fp] = [gen |-> g, status |-> "succeeded"]

\* No cleanup of any attempt deletes data of the generation readers are sent
\* to.  phase-3-document-ingestion.md: "Candidate data is generation-scoped, so
\* cleanup cannot delete the active generation."
\* A job that is redelivered can break this; MCIngestion_intact_redelivery.cfg
\* shows how.
ActiveDataKept ==
    LET g == doc.active
    IN g # NoGen => chunks[g] = "all" /\ vectors[g] = "all"

\* The active generation is complete: neither its data nor its status is
\* touched by a cleanup, a late delete or a late status write of any attempt.
ActiveIntact == ActiveDataKept /\ (doc.active # NoGen => gens[doc.active] = "active")

\* Ingestion implements the abstract publication: whatever happens between the
\* calls, the pointer and the job's outcome change together, once per
\* fingerprint, with growing tokens, and a success is never withdrawn.
Abstract == INSTANCE Publication WITH
    active  <- doc.active,
    outcome <- [j \in Job |-> IF jobs[j].status = "succeeded" THEN jobs[j].gen ELSE NoGen]

PublishesAtomically == Abstract!Spec

\* A publication is made under the execution that holds the lease item.
\* ADR-0008: "A stale worker cannot publish after a newer lease token has been
\* issued or after its own lease has expired."
PublishedByHolder ==
    [][\A j \in Job : jobs'[j].completed \notin {NoAttempt, jobs[j].completed} =>
           lease.execution = jobs'[j].completed]_vars

\* The attempts of a job that can still write.
Working(j) ==
    \E a \in Attempt : JobOf[a] = j /\ (pc[a] \in Held \/ inflight[a] # "none")

\* A RUNNING job that nobody works on can be claimed by its next delivery: the
\* token that delivery will be granted is higher than the one on the job.
\* ADR-0010: "Worker crashes and expired leases are recoverable through higher
\* fencing tokens."
RunningJobRecoverable ==
    \A j \in Job : jobs[j].status = "running" /\ ~Working(j) =>
        lease.fence + 1 > jobs[j].gen.fence

\* Without faults and with one delivery at a time no activation is rejected:
\* test_permissions_change_forces_new_generation expects the second job of a
\* document to publish a new generation.
NoActivationConflict == \A a \in Attempt : result[a] # "conflict"

\* Data of the generation is stored.
Stored(g) == chunks[g] # "none" \/ vectors[g] # "none"

AtRest == \A a \in Attempt : pc[a] \in {"idle", "ended"}

\* When every attempt has ended by itself nothing but the active generation is
\* stored: failed and superseded generations are deleted.
\* An activation whose reply is lost can break this, when the next publication
\* precedes its reconciliation; MCIngestion_overtaken.cfg shows how.
NoOrphans == AtRest => \A g \in Gen \ {doc.active} : ~Stored(g)

\* The activation of the attempt has been committed, and the attempt was not told.
Unaware(a) ==
    /\ result[a] # "published"
    /\ \E j \in Job : jobs[j].status = "succeeded" /\ jobs[j].completed = a

\* Data that nobody deletes any more has one cause: the generation was replaced
\* by an attempt that does not know that it published, and so did not retire it.
\* The deletion of a superseded generation is best effort
\* (phase-3-document-ingestion.md, step 14); every other path deletes.
OrphansExplained ==
    AtRest => \A g \in Gen \ {doc.active} :
        Stored(g) => \E a \in Attempt : Unaware(a) /\ local[a].active = g

\* The finally clause gives every lease back, on every path through the
\* handler; only a crash leaves it to expire.
LeaseReturned ==
    \A a \in Attempt : lease.execution = a ~> lease.execution # a \/ result[a] = "crashed"

\* A claimed job reaches a terminal status, unless the execution it is claimed
\* for crashes.
RunningSettles ==
    \A j \in Job : jobs[j].status = "running" ~>
        \/ jobs[j].status # "running"
        \/ \E a \in Attempt : result[a] = "crashed" /\ local[a].gen = jobs[j].gen

-----------------------------------------------------------------------------
(* The inductive invariant of the publication                              *)

\* The calls an attempt can make next: at its place, or of a cancelled coroutine.
Calls(a) == {pc[a], inflight[a]}

\* Nothing was called before the document was read.
IdleIsFresh == \A a \in Attempt : pc[a] = "idle" => inflight[a] = "none"

\* A revision is as old as the pointer that was read with it: while it is the
\* current one, the document points where it pointed then, or nowhere.
RevisionCurrent ==
    \A a \in Attempt :
        /\ local[a].revision <= doc.revision
        /\ local[a].revision = doc.revision => doc.active \in {NoGen, local[a].active}

\* Only an attempt that read no active generation saves PROCESSING.
ProcessingUnpublished ==
    \A a \in Attempt : "processing" \in Calls(a) => local[a].active = NoGen

\* A restore saves FAILED only while nothing is published.
RestoreUnpublished ==
    \A a \in Attempt :
        "restore" \in Calls(a) /\ local[a].revision = doc.revision => doc.active = NoGen

\* A job's generation is its own.
JobsOwnGeneration == \A j \in Job : jobs[j].gen # NoGen => jobs[j].gen.job = j

\* Each success, of the active generation or an earlier one, is on the marker.
SuccessMarked ==
    \A j \in Job : jobs[j].status = "succeeded" =>
        /\ jobs[j].gen # NoGen
        /\ markers[jobs[j].gen.fp] = [gen |-> jobs[j].gen, status |-> "succeeded"]

IInv ==
    /\ TypeOK
    /\ IdleIsFresh
    /\ RevisionCurrent
    /\ ProcessingUnpublished
    /\ RestoreUnpublished
    /\ JobsOwnGeneration
    /\ SuccessMarked
    /\ PublicationConsistent

-----------------------------------------------------------------------------
(* What more holds when every job is delivered once                        *)

DeliveredOnce == \A a, b \in Attempt : JobOf[a] = JobOf[b] => a = b

\* A coroutine that was cancelled goes to the release and makes no other call.
CancelledIsOver ==
    \A a \in Attempt : inflight[a] # "none" => pc[a] \in {"release", "ended"}

\* The lease item names the execution its owner's attempt acquired it for.
LeaseOfExecution ==
    lease.owner # NoJob => lease.execution \in Attempt /\ lease.owner = JobOf[lease.execution]

\* An attempt builds one generation of its own job, and the job has no other.
OwnGeneration ==
    \A a \in Attempt :
        /\ local[a].gen # NoGen => local[a].gen.job = JobOf[a]
        /\ Calls(a) \cap Held # {} => local[a].gen # NoGen
        /\ pc[a] \in {"idle", "find", "acquire", "blocked"} => local[a].gen = NoGen
        /\ jobs[JobOf[a]].gen \in {NoGen, local[a].gen}

\* A success carries the time of an attempt of the job.
CompletedByOwn ==
    \A j \in Job :
        /\ jobs[j].completed # NoAttempt => JobOf[jobs[j].completed] = j
        /\ jobs[j].status = "succeeded" => jobs[j].completed \in Attempt

\* Up to its activation an attempt has not published.
Unpublished == {"idle", "find", "acquire", "claim", "building", "processing", "chunks",
                "vectors", "ready", "activate"}
PublishedLast ==
    \A a \in Attempt :
        Calls(a) \cap Unpublished # {} => jobs[JobOf[a]].status # "succeeded"

\* What an attempt read as active had been published, under a token that only grew.
ReadActive ==
    \A a \in Attempt :
        /\ local[a].active # NoGen =>
             /\ jobs[local[a].active.job].status = "succeeded"
             /\ jobs[local[a].active.job].gen = local[a].active
        /\ local[a].active.fence <= doc.active.fence
        /\ Calls(a) \cap {"supersede", "retire"} # {} =>
             local[a].active.fence < doc.active.fence

\* A candidate has its data when the calls after the one that wrote it are made.
CandidateWritten ==
    \A a \in Attempt :
        /\ Calls(a) \cap {"vectors", "ready", "activate"} # {} => chunks[local[a].gen] = "all"
        /\ Calls(a) \cap {"ready", "activate"} # {} => vectors[local[a].gen] = "all"

\* The attempt whose generation is active makes no call that writes it.
PublisherRetires ==
    \A a \in Attempt : doc.active # NoGen /\ doc.active = local[a].gen =>
        /\ Calls(a) \subseteq {"reconcile", "supersede", "retire", "release", "ended", "none"}
        /\ local[a].active.fence < doc.active.fence

OnceInv ==
    /\ CancelledIsOver
    /\ LeaseOfExecution
    /\ OwnGeneration
    /\ CompletedByOwn
    /\ PublishedLast
    /\ ReadActive
    /\ CandidateWritten
    /\ PublisherRetires
    /\ ActiveIntact

-----------------------------------------------------------------------------
(* What more holds when calls raise only after they took effect            *)

\* The faults after which an attempt still ends by itself, and leaves no call
\* of its own undone.
CallsTakeEffect == Faults \subseteq {"expire", "invalid", "lost_reply", "unread"}

NothingInFlight == \A a \in Attempt : inflight[a] = "none"

\* No job carries the time of an attempt that has not come to its activation.
CompletedAfterwards ==
    \A a \in Attempt : pc[a] \in Unpublished => \A j \in Job : jobs[j].completed # a

\* The attempt is going to publish or to delete its generation, or to delete the
\* one it replaced.
AccountsFor(a, g) ==
    \/ local[a].gen = g /\ pc[a] \in {"vectors", "ready", "activate", "cleanup"}
    \/ local[a].active = g /\ pc[a] \in {"supersede", "retire"}

\* Each generation whose data is stored is active, or somebody's to delete, or
\* was replaced unawares.
DataAccounted ==
    \A g \in Gen : Stored(g) =>
        \/ g = doc.active
        \/ \E a \in Attempt : AccountsFor(a, g) \/ (Unaware(a) /\ local[a].active = g)

DataInv == NothingInFlight /\ CompletedAfterwards /\ DataAccounted
-----------------------------------------------------------------------------
(* What more holds when one job is delivered serially                      *)

OneDelivery == \A a, b \in Attempt : JobOf[a] = JobOf[b] /\ FingerprintOf[a] = FingerprintOf[b]

Waiting == {"idle", "ended"}

Alone == \A a, b \in Attempt : pc[a] \notin Waiting /\ pc[b] \notin Waiting => a = b

\* The attempt at work holds the token it builds its generation with.
TokenHeld ==
    \A a \in Attempt : pc[a] \in Held =>
        /\ local[a].gen = [fp |-> FingerprintOf[a], job |-> JobOf[a], fence |-> lease.fence]
        /\ lease.fence > 0

\* Nobody changes the document while it prepares.
DocumentHeld ==
    \A a \in Attempt : pc[a] \in {"find", "acquire"} \cup Prepare =>
        local[a].revision = doc.revision

\* A RUNNING job is claimed for a token the lease item has granted, with its marker.
ClaimedUnderToken ==
    \A j \in Job : jobs[j].status = "running" =>
        /\ jobs[j].gen \in Gen
        /\ jobs[j].gen.fence <= lease.fence
        /\ markers[jobs[j].gen.fp] = [gen |-> jobs[j].gen, status |-> "running"]
        /\ \A a \in Attempt : JobOf[a] = j /\ FingerprintOf[a] = jobs[j].gen.fp

\* The attempt at work finds the job as a crash left it, then makes it its own,
\* and settles it before it gives the lease back.
SettledBeforeRelease ==
    \A a \in Attempt, j \in Job : jobs[j].status = "running" =>
        /\ pc[a] \notin {"winner", "reconcile", "supersede", "retire", "release"}
        /\ pc[a] = "claim" => jobs[j].gen.fence < lease.fence
        /\ pc[a] \in Held \ {"claim"} => jobs[j].gen = local[a].gen

SerialInv ==
    /\ NothingInFlight
    /\ Alone
    /\ TokenHeld
    /\ DocumentHeld
    /\ ClaimedUnderToken
    /\ SettledBeforeRelease
=============================================================================
