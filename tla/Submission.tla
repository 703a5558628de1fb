----------------------------- MODULE Submission -----------------------------
(***************************************************************************)
(* DocumentManagementService for one document version: its registration,   *)
(* the upload of its source to a temporary object, submit_ingestion() with *)
(* the promotion of the upload, and the dispatch of the job.               *)
(*                                                                         *)
(* A Request is a client's POST .../ingestions under an idempotency key;   *)
(* the job id is a hash of the key, so a Key stands for its job.  The      *)
(* client repeats a request that failed, or whose job is still PENDING.    *)
(* pc[r] names the call the request is about to make.  The worker is       *)
(* reduced to the start and the end of its work on a job.                  *)
(***************************************************************************)
EXTENDS Naturals

CONSTANTS Request, Key, Session, NoSession,
          KeyOf,      \* the idempotency key of each request
          SessionOf,  \* the upload session each request names, if any
          Faults,     \* the faults of the environment that may happen
          MaxFence,   \* bound on the fencing counter
          MaxPuts,    \* bound on the number of PUTs to presigned URLs
          MaxSent,    \* bound on the messages of a job
          MaxFaults   \* bound on the number of faults in a behaviour

AllFaults == {"crash",      \* a process of the API or the worker dies
              "expire",     \* a lease runs out while its holder runs on
              "unsent",     \* send_message raises and nothing was sent
              "sent",       \* send_message raises although the message was sent
              "lifecycle",  \* the lifecycle rule removes a temporary object
              "other"}      \* a PUT with content other than the registered one

ASSUME SubmissionAssumption ==
    /\ NoSession \notin Session
    /\ KeyOf \in [Request -> Key]
    /\ SessionOf \in [Request -> Session \cup {NoSession}]
    /\ Faults \subseteq AllFaults
    /\ MaxFence \in Nat /\ MaxPuts \in Nat /\ MaxSent \in Nat /\ MaxFaults \in Nat

VARIABLES doc,    \* status and revision of the document item
          urls,   \* the upload sessions a presigned URL was issued for
          temp,   \* the temporary object of each upload session
          source, \* what the immutable source object holds
          lease,  \* the lease item of the document version
          jobs,   \* status of each key's job item
          queue,  \* number of messages for each job
          sent,   \* history: the jobs a message was sent for
          pc,     \* the next call of each request
          local,  \* what each request remembers
          puts, budget

stores == <<doc, urls, temp, source, lease, jobs, queue, sent>>
vars == <<stores, pc, local, puts, budget>>

-----------------------------------------------------------------------------
(* Types *)

NoObject == [content |-> "none", etag |-> 0]
NoLease  == [owner |-> <<"none">>, fence |-> 0, live |-> FALSE]

\* owner_token: "submit:" and the job for a submission, the job for the worker
Submitter(k) == <<"submit", k>>
Ingester(k)  == <<"ingest", k>>
Owner == {Submitter(k) : k \in Key} \cup {Ingester(k) : k \in Key}

DocStatus == {"none", "pending_upload", "uploaded", "processing", "indexed", "failed"}
JobStatus == {"none", "pending", "running", "succeeded", "failed"}
Holding == {"head", "copy", "delete", "promoted", "inspect", "save", "submit", "enqueue", "release"}
Place   == {"read", "job", "acquire", "done"} \cup Holding
Answer  == {"none", "accepted", "settled", "busy", "invalid", "conflict", "dispatch", "error"}
Fresh == [status |-> "pending_upload", revision |-> 0, existing |-> "none",
          fence |-> 0, etag |-> 0, answer |-> "none"]

TypeOK ==
    /\ doc \in [status: DocStatus, revision: Nat]
    /\ urls \subseteq Session
    /\ temp \in [Session -> [content: {"none", "match", "other"}, etag: 0..MaxPuts]]
    /\ source \in {"none", "match", "other"}
    /\ lease \in [owner: Owner \cup {NoLease.owner}, fence: 0..MaxFence, live: BOOLEAN]
    /\ jobs \in [Key -> JobStatus]
    /\ queue \in [Key -> 0..MaxSent]
    /\ sent \subseteq Key
    /\ pc \in [Request -> Place]
    /\ local \in [Request -> [status: DocStatus, revision: Nat, existing: JobStatus,
                              fence: 0..MaxFence, etag: 0..MaxPuts, answer: Answer]]
    /\ puts \in 0..MaxPuts /\ budget \in 0..MaxFaults

-----------------------------------------------------------------------------
(* Helpers *)

Spend(fault) == fault \in Faults /\ budget > 0 /\ budget' = budget - 1
Goto(r, place) == pc' = [pc EXCEPT ![r] = place]
Answered(r, place, answer) == Goto(r, place) /\ local' = [local EXCEPT ![r].answer = answer]

\* Faulty variant: a takeover counts twice.
TakenTwice(owner) == [owner |-> owner, fence |-> lease.fence + 2, live |-> TRUE]

\* what a lease item becomes when it is acquired or released under (owner, fence)
Taken(owner) == [owner |-> owner, fence |-> lease.fence + 1, live |-> TRUE]
Released(owner, fence) ==
    IF lease.owner = owner /\ lease.fence = fence THEN NoLease ELSE lease

HoldsLease(r) == pc[r] \in Holding /\ lease.owner = Submitter(KeyOf[r]) /\ lease.fence = local[r].fence

-----------------------------------------------------------------------------
(* Faulty variants of definitions below *)

\* the copy is not conditional on the ETag that was inspected
AnySource(r) == temp[SessionOf[r]].content # "none"
\* only the request that created the job dispatches it
CreatedOnly(r) == jobs[KeyOf[r]] = "none"
\* a missing temporary object is an error, even if the source was promoted before
UploadRequired(r) == "invalid"
\* the document is saved whatever its revision is
AnyRevision(r) == TRUE
\* the metadata of the source is not compared with the registered checksum
AnythingValid(content) == content # "none"

-----------------------------------------------------------------------------
(* Registration and uploads *)

Unregistered == [status |-> "none", revision |-> 0]

\* documents.save() of a document that is not stored: a conditional put of the new item
Created == [status |-> "pending_upload", revision |-> 0]

\* register(): the id is new, so nobody else knows it before it is answered.
Register ==
    /\ doc = Unregistered
    /\ doc' = Created
    /\ UNCHANGED <<urls, temp, source, lease, jobs, queue, sent, pc, local, puts, budget>>

\* create_upload(): a URL is issued while the document waits for its upload.
CreateUpload(s) ==
    /\ s \notin urls /\ doc.status = "pending_upload"
    /\ urls' = urls \cup {s}
    /\ UNCHANGED <<doc, temp, source, lease, jobs, queue, sent, pc, local, puts, budget>>

\* _validate_source_metadata: type, size and checksum are the registered ones
Valid(content) == content = "match"

\* The client PUTs to the presigned URL of a session, also after the promotion: a URL
\* stays valid up to 15 minutes.
Put(s) ==
    /\ s \in urls
    /\ puts < MaxPuts /\ puts' = puts + 1
    /\ \/ temp' = [temp EXCEPT ![s] = [content |-> "match", etag |-> puts + 1]]
          /\ UNCHANGED budget
       \/ temp' = [temp EXCEPT ![s] = [content |-> "other", etag |-> puts + 1]]
          /\ Spend("other")
    /\ UNCHANGED <<doc, urls, source, lease, jobs, queue, sent, pc, local>>

\* The bucket's lifecycle rule expires temporary uploads.
ExpireUpload(s) ==
    /\ temp[s] # NoObject /\ Spend("lifecycle")
    /\ temp' = [temp EXCEPT ![s] = NoObject]
    /\ UNCHANGED <<doc, urls, source, lease, jobs, queue, sent, pc, local, puts>>

-----------------------------------------------------------------------------
(* submit_ingestion() *)

ReadDocument(r) ==
    /\ pc[r] = "read" /\ doc # Unregistered
    /\ local' = [local EXCEPT ![r] = [Fresh EXCEPT !.status = doc.status,
                                                   !.revision = doc.revision]]
    /\ Goto(r, "job")
    /\ UNCHANGED <<stores, puts, budget>>

\* a job that is no longer PENDING is returned as it is
ReadJob(r) ==
    LET existing == jobs[KeyOf[r]] IN
    /\ pc[r] = "job"
    /\ \/ /\ existing \notin {"none", "pending"} /\ Answered(r, "done", "settled")
       \/ /\ existing \in {"none", "pending"}
          /\ local' = [local EXCEPT ![r].existing = existing]
          /\ Goto(r, "acquire")
    /\ UNCHANGED <<stores, puts, budget>>

\* where a request goes on under the lease
FirstStep(r) ==
    IF local[r].status = "pending_upload" THEN "head" ELSE "inspect"

Acquire(r) ==
    /\ pc[r] = "acquire"
    /\ \/ /\ lease.live
          /\ Answered(r, "done", IF local[r].existing = "pending" THEN "accepted" ELSE "busy")
          /\ UNCHANGED lease
       \/ /\ ~lease.live /\ lease.fence < MaxFence
          /\ lease' = Taken(Submitter(KeyOf[r]))
          /\ IF FirstStep(r) = "head" /\ SessionOf[r] = NoSession
               THEN /\ Goto(r, "release")
                    /\ local' = [local EXCEPT ![r].fence = lease.fence + 1, ![r].answer = "invalid"]
               ELSE /\ Goto(r, FirstStep(r))
                    /\ local' = [local EXCEPT ![r].fence = lease.fence + 1]
    /\ UNCHANGED <<doc, urls, temp, source, jobs, queue, sent, puts, budget>>

\* a source that was promoted before is inspected instead
WithoutUpload(r) == "inspect"

\* promote_upload: head_object of the temporary object
HeadUpload(r) ==
    LET object == temp[SessionOf[r]] IN
    /\ pc[r] = "head"
    /\ \/ /\ object = NoObject
          /\ IF WithoutUpload(r) = "inspect" THEN Goto(r, "inspect") /\ UNCHANGED local
             ELSE Answered(r, "release", "invalid")
       \/ /\ object # NoObject /\ ~Valid(object.content) /\ Answered(r, "release", "invalid")
       \/ /\ object # NoObject /\ Valid(object.content)
          /\ Goto(r, "copy") /\ local' = [local EXCEPT ![r].etag = object.etag]
    /\ UNCHANGED <<stores, puts, budget>>

\* CopySourceIfMatch
Unchanged(r) == temp[SessionOf[r]] # NoObject /\ temp[SessionOf[r]].etag = local[r].etag

CopyUpload(r) ==
    /\ pc[r] = "copy"
    /\ \/ /\ Unchanged(r)
          /\ source' = temp[SessionOf[r]].content
          /\ Goto(r, "delete") /\ UNCHANGED local
       \/ /\ ~Unchanged(r) /\ Answered(r, "release", "error") /\ UNCHANGED source
    /\ UNCHANGED <<doc, urls, temp, lease, jobs, queue, sent, puts, budget>>

DeleteUpload(r) ==
    /\ pc[r] = "delete"
    /\ temp' = [temp EXCEPT ![SessionOf[r]] = NoObject]
    /\ Goto(r, "inspect")
    /\ UNCHANGED <<doc, urls, source, lease, jobs, queue, sent, local, puts, budget>>

\* head_object of the immutable source, and the validation of what it says
InspectSource(r) ==
    /\ pc[r] = "inspect"
    /\ \/ ~Valid(source) /\ Answered(r, "release", "invalid")
       \/ /\ Valid(source)
          /\ Goto(r, IF FirstStep(r) = "head" THEN "save" ELSE "submit") /\ UNCHANGED local
    /\ UNCHANGED <<stores, puts, budget>>

\* the condition of documents.save with an expected revision
Current(r) == doc.revision = local[r].revision

SaveUploaded(r) ==
    /\ pc[r] = "save"
    /\ \/ /\ Current(r)
          /\ doc' = [status |-> "uploaded", revision |-> local[r].revision + 1]
          /\ Goto(r, "submit") /\ UNCHANGED local
       \/ /\ ~Current(r) /\ Answered(r, "release", "conflict") /\ UNCHANGED doc
    /\ UNCHANGED <<urls, temp, source, lease, jobs, queue, sent, puts, budget>>

\* a job that is PENDING after submit() is dispatched, whoever created it
ToDispatch(r) == jobs[KeyOf[r]] \in {"none", "pending"}

SubmitJob(r) ==
    /\ pc[r] = "submit"
    /\ jobs' = [jobs EXCEPT ![KeyOf[r]] = IF @ = "none" THEN "pending" ELSE @]
    /\ IF ToDispatch(r) THEN Goto(r, "enqueue") /\ UNCHANGED local
       ELSE Answered(r, "release", "settled")
    /\ UNCHANGED <<doc, urls, temp, source, lease, queue, sent, puts, budget>>

Send(k) ==
    /\ queue[k] < MaxSent
    /\ queue' = [queue EXCEPT ![k] = @ + 1]
    /\ sent' = sent \cup {k}

Enqueue(r) ==
    /\ pc[r] = "enqueue"
    /\ \/ Send(KeyOf[r]) /\ Answered(r, "release", "accepted") /\ UNCHANGED budget
       \/ Send(KeyOf[r]) /\ Spend("sent") /\ Answered(r, "release", "dispatch")
       \/ Spend("unsent") /\ Answered(r, "release", "dispatch") /\ UNCHANGED <<queue, sent>>
    /\ UNCHANGED <<doc, urls, temp, source, lease, jobs, puts>>

ReleaseLease(r) ==
    /\ pc[r] = "release"
    /\ lease' = Released(Submitter(KeyOf[r]), local[r].fence)
    /\ Goto(r, "done")
    /\ UNCHANGED <<doc, urls, temp, source, jobs, queue, sent, local, puts, budget>>

\* what get_job() answers the client that polls
Polled(r) == jobs[KeyOf[r]]

\* The client asks again with the same key: after an error, or while the job it was
\* answered is still PENDING and no message is left for it.
Repeat(r) ==
    /\ pc[r] = "done"
    /\ \/ local[r].answer \in {"busy", "invalid", "conflict", "dispatch", "error"}
       \/ Polled(r) = "pending" /\ queue[KeyOf[r]] = 0
    /\ Polled(r) \in {"none", "pending"}
    /\ Goto(r, "read") /\ local' = [local EXCEPT ![r] = Fresh]
    /\ UNCHANGED <<stores, puts, budget>>

-----------------------------------------------------------------------------
(* The worker and the environment *)

WorkStarts(k) ==
    /\ queue[k] > 0 /\ jobs[k] \in {"pending", "running"}
    /\ ~lease.live /\ lease.fence < MaxFence
    /\ lease' = Taken(Ingester(k))
    /\ jobs' = [jobs EXCEPT ![k] = "running"]
    /\ doc' = IF doc.status = "indexed" THEN doc
              ELSE [status |-> "processing", revision |-> doc.revision + 1]
    /\ UNCHANGED <<urls, temp, source, queue, sent, pc, local, puts, budget>>

WorkEnds(k) ==
    /\ lease.owner = Ingester(k) /\ lease.live /\ jobs[k] = "running"
    /\ \E good \in BOOLEAN :
        /\ jobs' = [jobs EXCEPT ![k] = IF good THEN "succeeded" ELSE "failed"]
        /\ doc' = [status |-> IF good \/ doc.status = "indexed" THEN "indexed" ELSE "failed",
                   revision |-> doc.revision + 1]
    /\ lease' = NoLease
    /\ UNCHANGED <<urls, temp, source, queue, sent, pc, local, puts, budget>>

\* The message of a job that ended is acknowledged.
Acknowledge(k) ==
    /\ queue[k] > 0 /\ jobs[k] \in {"succeeded", "failed"}
    /\ queue' = [queue EXCEPT ![k] = @ - 1]
    /\ UNCHANGED <<doc, urls, temp, source, lease, jobs, sent, pc, local, puts, budget>>

Crash(r) ==
    /\ pc[r] \in Holding \cup {"job", "acquire"} /\ Spend("crash")
    /\ Answered(r, "done", "error")
    /\ UNCHANGED <<stores, puts>>

LeaseExpires ==
    /\ lease.live
    /\ IF \E r \in Request : HoldsLease(r) THEN Spend("expire")
       ELSE IF lease.owner \in {Ingester(k) : k \in Key} THEN Spend("crash")
       ELSE UNCHANGED budget
    /\ lease' = [lease EXCEPT !.live = FALSE]
    /\ UNCHANGED <<doc, urls, temp, source, jobs, queue, sent, pc, local, puts>>

-----------------------------------------------------------------------------
Init ==
    /\ doc = Unregistered /\ urls = {}
    /\ temp = [s \in Session |-> NoObject] /\ source = "none"
    /\ lease = NoLease
    /\ jobs = [k \in Key |-> "none"]
    /\ queue = [k \in Key |-> 0] /\ sent = {}
    /\ pc = [r \in Request |-> "read"]
    /\ local = [r \in Request |-> Fresh]
    /\ puts = 0 /\ budget = MaxFaults

Submit(r) ==
    \/ ReadDocument(r) \/ ReadJob(r) \/ Acquire(r) \/ HeadUpload(r) \/ CopyUpload(r)
    \/ DeleteUpload(r) \/ InspectSource(r) \/ SaveUploaded(r) \/ SubmitJob(r) \/ Enqueue(r)
    \/ ReleaseLease(r) \/ Repeat(r)

Work(k) == WorkStarts(k) \/ WorkEnds(k) \/ Acknowledge(k)

Next ==
    \/ \E r \in Request : Submit(r) \/ Crash(r)
    \/ \E k \in Key : Work(k)
    \/ Register
    \/ \E s \in Session : CreateUpload(s) \/ Put(s) \/ ExpireUpload(s)
    \/ LeaseExpires

Spec == Init /\ [][Next]_vars

Fairness ==
    /\ \A r \in Request : WF_vars(Submit(r))
    /\ \A k \in Key : WF_vars(Work(k))
    /\ WF_vars(LeaseExpires)
FairSpec == Spec /\ Fairness

-----------------------------------------------------------------------------
(* Properties *)

\* The immutable source never holds anything but the registered content, whatever is PUT
\* to the temporary object between the inspection and the copy, or later.
SourceNeverMismatched == source # "other"

\* A job is persisted only once its source is in place, and dispatched only once it is
\* persisted: no message names a job the worker cannot load.
DispatchedJobReady ==
    \A k \in Key :
        /\ jobs[k] # "none" => doc.status \notin {"none", "pending_upload"} /\ source = "match"
        /\ queue[k] > 0 => jobs[k] # "none"

\* A submission that read the document before never takes it back to UPLOADED.
NeverBackToUploaded ==
    [][doc'.status = "uploaded" => doc.status = "pending_upload" \/ UNCHANGED doc]_vars

\* An upload that was promoted lets the document leave PENDING_UPLOAD, wherever the
\* promotion was interrupted, unless the temporary object was overwritten.
PromotionCompletes ==
    (source = "match") ~>
        (doc.status # "pending_upload" \/ \E s \in Session : temp[s].content = "other")

\* A persisted job is dispatched by repeating the request, whatever became of the first send.
PendingRedispatched == \A k \in Key : (jobs[k] = "pending") ~> (jobs[k] # "pending")

\* A request is answered 202 for a PENDING job only after a message for it was sent.
\* The code does not keep this; MCSubmission_accepted.cfg shows how.
AcceptedIsSent ==
    \A r \in Request : (pc[r] = "done" /\ local[r].answer = "accepted") => KeyOf[r] \in sent

-----------------------------------------------------------------------------
(* The inductive invariant of the submission                               *)

\* A document without a status is not stored at all.
StoredOrNot == doc.status = "none" => doc = Unregistered

\* What a request read is as old as the document or older, and a document that
\* has left PENDING_UPLOAD does not come back to it.
DocumentRead ==
    \A r \in Request : pc[r] \notin {"read", "done"} =>
        /\ local[r].status # "none"
        /\ local[r].revision <= doc.revision
        /\ local[r].revision = doc.revision => local[r].status = doc.status
        /\ local[r].status # "pending_upload" => doc.status \notin {"none", "pending_upload"}

\* A promotion is of the session the request names; the ETag it inspected is that
\* of the registered content, and no later PUT has it.
UploadInspected ==
    /\ \A s \in Session : temp[s].etag <= puts
    /\ \A r \in Request : pc[r] \in {"head", "copy", "delete"} => SessionOf[r] \in Session
    /\ \A r \in Request : pc[r] = "copy" =>
         local[r].etag <= puts /\ (Unchanged(r) => Valid(temp[SessionOf[r]].content))

\* Each step of a submission finds what the one before it has saved.
StepPrepared ==
    \A r \in Request :
        /\ pc[r] = "save" => local[r].status = "pending_upload" /\ Valid(source)
        /\ pc[r] = "submit" => doc.status \notin {"none", "pending_upload"} /\ Valid(source)
        /\ pc[r] = "enqueue" => jobs[KeyOf[r]] # "none"

IInv ==
    /\ TypeOK
    /\ StoredOrNot
    /\ DocumentRead
    /\ UploadInspected
    /\ StepPrepared
    /\ SourceNeverMismatched
    /\ DispatchedJobReady

=============================================================================
