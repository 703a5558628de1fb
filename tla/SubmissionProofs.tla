-------------------------- MODULE SubmissionProofs --------------------------
(***************************************************************************)
(* Proofs about submit_ingestion() for any number of requests, keys and    *)
(* upload sessions and whatever faults strike: the immutable source holds  *)
(* the registered content, a job is persisted after its source and sent    *)
(* after it is persisted, and no request takes a document back.            *)
(***************************************************************************)
EXTENDS Submission, TLAPS

USE SubmissionAssumption

-----------------------------------------------------------------------------
(* Types                                                                   *)

LeaseItem == [owner: Owner \cup {NoLease.owner}, fence: 0..MaxFence, live: BOOLEAN]
Memory == [status: DocStatus, revision: Nat, existing: JobStatus,
           fence: 0..MaxFence, etag: 0..MaxPuts, answer: Answer]
Document == [status: DocStatus, revision: Nat]
Object == [content: {"none", "match", "other"}, etag: 0..MaxPuts]

StoresOK ==
    /\ doc \in Document
    /\ urls \subseteq Session
    /\ temp \in [Session -> Object]
    /\ source \in {"none", "match", "other"}
    /\ lease \in LeaseItem
    /\ jobs \in [Key -> JobStatus]
    /\ queue \in [Key -> 0..MaxSent]
    /\ sent \subseteq Key
RequestsOK ==
    /\ pc \in [Request -> Place]
    /\ local \in [Request -> Memory]
CountersOK == puts \in 0..MaxPuts /\ budget \in 0..MaxFaults

\* The type invariant in its three parts.
LEMMA Typed == TypeOK <=> StoresOK /\ RequestsOK /\ CountersOK
BY DEF TypeOK, StoresOK, RequestsOK, CountersOK, LeaseItem, Memory, Document, Object

LEMMA FreshTyped ==
  /\ Fresh \in Memory
  /\ \A s \in DocStatus, n \in Nat : [Fresh EXCEPT !.status = s, !.revision = n] \in Memory
<1>1. /\ "pending_upload" \in DocStatus /\ "none" \in JobStatus /\ "none" \in Answer
      /\ 0 \in 0..MaxFence /\ 0 \in 0..MaxPuts
  BY DEF DocStatus, JobStatus, Answer
<1> QED
  BY <1>1 DEF Fresh, Memory

\* The moves of a request keep its place and its memory in their types.
LEMMA GotoTyped ==
  ASSUME RequestsOK, NEW r \in Request, NEW place \in Place, Goto(r, place)
  PROVE  pc' \in [Request -> Place]
BY DEF RequestsOK, Goto

LEMMA AnsweredTyped ==
  ASSUME RequestsOK, NEW r \in Request, NEW place \in Place, NEW answer \in Answer,
         Answered(r, place, answer)
  PROVE  RequestsOK'
BY DEF RequestsOK, Answered, Goto, Memory

\* A move that remembers something.
LEMMA RememberedTyped ==
  ASSUME RequestsOK, NEW r \in Request, NEW place \in Place, Goto(r, place)
  PROVE  /\ local' = local => RequestsOK'
         /\ \A m \in Memory : local' = [local EXCEPT ![r] = m] => RequestsOK'
         /\ \A x \in JobStatus : local' = [local EXCEPT ![r].existing = x] => RequestsOK'
         /\ \A x \in 0..MaxPuts : local' = [local EXCEPT ![r].etag = x] => RequestsOK'
         /\ \A x \in 0..MaxFence : local' = [local EXCEPT ![r].fence = x] => RequestsOK'
         /\ \A x \in 0..MaxFence, y \in Answer :
              local' = [local EXCEPT ![r].fence = x, ![r].answer = y] => RequestsOK'
<1> pc' \in [Request -> Place] /\ local \in [Request -> Memory]
  BY GotoTyped DEF RequestsOK
<1>1. ASSUME NEW m \in Memory, local' = [local EXCEPT ![r] = m] PROVE RequestsOK'
  BY <1>1 DEF RequestsOK
<1>2. /\ \A x \in JobStatus : [local[r] EXCEPT !.existing = x] \in Memory
      /\ \A x \in 0..MaxPuts : [local[r] EXCEPT !.etag = x] \in Memory
      /\ \A x \in 0..MaxFence : [local[r] EXCEPT !.fence = x] \in Memory
      /\ \A x \in 0..MaxFence, y \in Answer : [local[r] EXCEPT !.fence = x, !.answer = y] \in Memory
  BY DEF Memory
<1>3. ASSUME NEW x \in JobStatus, local' = [local EXCEPT ![r].existing = x] PROVE RequestsOK'
  BY <1>1, <1>2, <1>3
<1>4. ASSUME NEW x \in 0..MaxPuts, local' = [local EXCEPT ![r].etag = x] PROVE RequestsOK'
  BY <1>1, <1>2, <1>4
<1>5. ASSUME NEW x \in 0..MaxFence, local' = [local EXCEPT ![r].fence = x] PROVE RequestsOK'
  BY <1>1, <1>2, <1>5
<1>6. ASSUME NEW x \in 0..MaxFence, NEW y \in Answer,
             local' = [local EXCEPT ![r].fence = x, ![r].answer = y]
      PROVE  RequestsOK'
  BY <1>6 DEF RequestsOK, Memory
<1> QED
  BY <1>1, <1>3, <1>4, <1>5, <1>6 DEF RequestsOK

\* The lease item after an acquisition or a release.
LEMMA LeaseTyped ==
  ASSUME lease \in LeaseItem, NEW owner \in Owner
  PROVE  /\ NoLease \in LeaseItem
         /\ \A fence : Released(owner, fence) \in LeaseItem
         /\ lease.fence < MaxFence => Taken(owner) \in LeaseItem /\ lease.fence + 1 \in 0..MaxFence
<1>1. lease.fence \in 0..MaxFence
  BY DEF LeaseItem
<1>2. NoLease \in LeaseItem
  BY DEF NoLease, LeaseItem
<1> QED
  BY <1>1, <1>2 DEF LeaseItem, Released, Taken

LEMMA OwnersTyped == \A k \in Key : Submitter(k) \in Owner /\ Ingester(k) \in Owner
BY DEF Owner

LEMMA SpendTyped ==
  ASSUME CountersOK, NEW fault, Spend(fault)
  PROVE  budget' \in 0..MaxFaults
BY DEF CountersOK, Spend

\* The steps of a request keep the variables in their types.
LEMMA RequestTyped ==
  ASSUME TypeOK, UploadInspected, NEW r \in Request, Submit(r) \/ Crash(r)
  PROVE  RequestsOK'
<1> USE DEF Place, Holding, Answer
<1> /\ StoresOK /\ RequestsOK
    /\ doc.status \in DocStatus /\ doc.revision \in Nat
    /\ jobs[KeyOf[r]] \in JobStatus
    /\ lease \in LeaseItem
  BY Typed DEF StoresOK, Document
<1>1. CASE ReadDocument(r)
  BY <1>1, FreshTyped, RememberedTyped DEF ReadDocument
<1>2. CASE ReadJob(r)
  BY <1>2, AnsweredTyped, RememberedTyped DEF ReadJob
<1>3. CASE Acquire(r)
  <2>1. CASE lease.live
    BY <1>3, <2>1, AnsweredTyped DEF Acquire
  <2>2. CASE ~lease.live
    <3>1. lease.fence + 1 \in 0..MaxFence
      BY <1>3, <2>2, LeaseTyped, OwnersTyped DEF Acquire
    <3> QED
      BY <1>3, <2>2, <3>1, RememberedTyped DEF Acquire, FirstStep
  <2> QED
    BY <2>1, <2>2
<1>4. CASE HeadUpload(r)
  <2>1. temp[SessionOf[r]].etag \in 0..MaxPuts
    BY <1>4 DEF HeadUpload, UploadInspected, StoresOK, Object
  <2> QED
    BY <1>4, <2>1, AnsweredTyped, RememberedTyped DEF HeadUpload
<1>5. CASE CopyUpload(r) \/ DeleteUpload(r) \/ InspectSource(r) \/ SaveUploaded(r)
  BY <1>5, AnsweredTyped, RememberedTyped DEF CopyUpload, DeleteUpload, InspectSource, SaveUploaded
<1>6. CASE SubmitJob(r) \/ Enqueue(r)
  BY <1>6, AnsweredTyped, RememberedTyped DEF SubmitJob, Enqueue
<1>7. CASE ReleaseLease(r) \/ Repeat(r)
  BY <1>7, FreshTyped, RememberedTyped DEF ReleaseLease, Repeat
<1>8. CASE Crash(r)
  BY <1>8, AnsweredTyped DEF Crash
<1> QED
  BY <1>1, <1>2, <1>3, <1>4, <1>5, <1>6, <1>7, <1>8 DEF Submit

LEMMA SubmitTyped ==
  ASSUME TypeOK, UploadInspected, NEW r \in Request, Submit(r)
  PROVE  StoresOK' /\ CountersOK'
<1> StoresOK /\ CountersOK /\ local \in [Request -> Memory]
  BY Typed DEF RequestsOK
<1> USE DEF StoresOK
<1>1. CASE ReadDocument(r) \/ ReadJob(r) \/ HeadUpload(r) \/ InspectSource(r) \/ Repeat(r)
  BY <1>1 DEF ReadDocument, ReadJob, HeadUpload, InspectSource, Repeat, stores, CountersOK
<1>2. CASE Acquire(r) \/ ReleaseLease(r)
  <2>1. lease' \in LeaseItem
    BY <1>2, LeaseTyped, OwnersTyped DEF Acquire, ReleaseLease
  <2> QED
    BY <1>2, <2>1 DEF Acquire, ReleaseLease, CountersOK
<1>3. CASE CopyUpload(r)
  <2>1. temp[SessionOf[r]].content \in {"none", "match", "other"}
    BY <1>3 DEF CopyUpload, UploadInspected, Object
  <2> QED
    BY <1>3, <2>1 DEF CopyUpload, CountersOK
<1>4. CASE DeleteUpload(r)
  <2>1. NoObject \in Object
    BY DEF NoObject, Object
  <2> QED
    BY <1>4, <2>1 DEF DeleteUpload, CountersOK
<1>5. CASE SaveUploaded(r)
  <2>1. [status |-> "uploaded", revision |-> local[r].revision + 1] \in Document
    BY DEF Memory, Document, DocStatus
  <2> QED
    BY <1>5, <2>1 DEF SaveUploaded, CountersOK
<1>6. CASE SubmitJob(r)
  BY <1>6 DEF SubmitJob, JobStatus, CountersOK
<1>7. CASE Enqueue(r)
  <2>1. queue' \in [Key -> 0..MaxSent] /\ sent' \subseteq Key
    BY <1>7 DEF Enqueue, Send
  <2>2. CountersOK'
    BY <1>7, SpendTyped DEF Enqueue, CountersOK
  <2> QED
    BY <1>7, <2>1, <2>2 DEF Enqueue
<1> QED
  BY <1>1, <1>2, <1>3, <1>4, <1>5, <1>6, <1>7 DEF Submit

\* Every step keeps the variables in their types.
LEMMA TypeStep == TypeOK /\ UploadInspected /\ [Next]_vars => TypeOK'
<1> SUFFICES ASSUME TypeOK, UploadInspected, [Next]_vars PROVE StoresOK' /\ RequestsOK' /\ CountersOK'
  BY DEF TypeOK, StoresOK, RequestsOK, CountersOK, LeaseItem, Memory, Document, Object
<1> StoresOK /\ RequestsOK /\ CountersOK
  BY Typed
<1>1. CASE UNCHANGED vars
  BY <1>1 DEF vars, stores, StoresOK, RequestsOK, CountersOK
<1>2. ASSUME NEW r \in Request, Crash(r) PROVE StoresOK' /\ RequestsOK' /\ CountersOK'
  <2>1. StoresOK' /\ CountersOK'
    BY <1>2, SpendTyped DEF Crash, stores, StoresOK, CountersOK
  <2> QED
    BY <1>2, <2>1, RequestTyped
<1>3. ASSUME NEW k \in Key, Work(k) PROVE StoresOK' /\ RequestsOK' /\ CountersOK'
  <2>1. /\ {"processing", "indexed", "failed"} \subseteq DocStatus
        /\ {"running", "succeeded", "failed"} \subseteq JobStatus
        /\ doc.revision + 1 \in Nat /\ doc.status \in DocStatus
    BY DEF StoresOK, Document, DocStatus, JobStatus
  <2>2. RequestsOK' /\ CountersOK'
    BY <1>3 DEF Work, WorkStarts, WorkEnds, Acknowledge, RequestsOK, CountersOK
  <2>3. CASE WorkStarts(k)
    <3>1. lease' \in LeaseItem
      BY <2>3, LeaseTyped, OwnersTyped DEF WorkStarts, StoresOK
    <3>2. doc' \in Document
      BY <2>1, <2>3 DEF WorkStarts, Document, StoresOK
    <3> QED
      BY <2>1, <2>2, <2>3, <3>1, <3>2 DEF WorkStarts, StoresOK
  <2>4. CASE WorkEnds(k)
    <3>1. lease' \in LeaseItem
      BY <2>4, LeaseTyped, OwnersTyped DEF WorkEnds, StoresOK
    <3>2. doc' \in Document /\ jobs' \in [Key -> JobStatus]
      BY <2>1, <2>4 DEF WorkEnds, Document, StoresOK
    <3> QED
      BY <2>2, <2>4, <3>1, <3>2 DEF WorkEnds, StoresOK
  <2>5. CASE Acknowledge(k)
    BY <2>2, <2>5 DEF Acknowledge, StoresOK
  <2> QED
    BY <1>3, <2>3, <2>4, <2>5 DEF Work
<1>4. CASE Register
  BY <1>4 DEF Register, Created, DocStatus, Document, StoresOK, RequestsOK, CountersOK
<1>5. ASSUME NEW s \in Session, CreateUpload(s) \/ Put(s) \/ ExpireUpload(s)
      PROVE  StoresOK' /\ RequestsOK' /\ CountersOK'
  <2>1. RequestsOK'
    BY <1>5 DEF CreateUpload, Put, ExpireUpload, RequestsOK
  <2>2. CASE CreateUpload(s)
    BY <2>1, <2>2 DEF CreateUpload, StoresOK, CountersOK
  <2>3. CASE Put(s)
    <3>1. puts + 1 \in 0..MaxPuts
      BY <2>3 DEF Put, CountersOK
    <3>2. CountersOK'
      BY <2>3, <3>1, SpendTyped DEF Put, CountersOK
    <3>3. temp' \in [Session -> Object]
      BY <2>3, <3>1 DEF Put, StoresOK, Object
    <3> QED
      BY <2>1, <2>3, <3>2, <3>3 DEF Put, StoresOK
  <2>4. CASE ExpireUpload(s)
    <3>1. CountersOK'
      BY <2>4, SpendTyped DEF ExpireUpload, CountersOK
    <3>2. NoObject \in Object
      BY DEF NoObject, Object
    <3> QED
      BY <2>1, <2>4, <3>1, <3>2 DEF ExpireUpload, StoresOK
  <2> QED
    BY <1>5, <2>2, <2>3, <2>4
<1>6. CASE LeaseExpires
  <2>1. CountersOK'
    BY <1>6, SpendTyped DEF LeaseExpires, CountersOK
  <2>2. lease' \in LeaseItem
    BY <1>6 DEF LeaseExpires, LeaseItem, StoresOK
  <2> QED
    BY <1>6, <2>1, <2>2 DEF LeaseExpires, StoresOK, RequestsOK
<1> QED
  BY <1>1, <1>2, <1>3, <1>4, <1>5, <1>6, SubmitTyped, RequestTyped DEF Next

-----------------------------------------------------------------------------
(* The inductive invariant                                                 *)

\* A submission leaves all other requests as they are, and the other actors leave
\* all requests as they are.
LEMMA OthersKept ==
  ASSUME TypeOK, [Next]_vars, NEW q \in Request
  PROVE  Submit(q) \/ Crash(q) \/ (pc'[q] = pc[q] /\ local'[q] = local[q])
<1> USE DEF TypeOK, Goto, Answered
<1>1. ASSUME NEW r \in Request, r # q, Submit(r) \/ Crash(r)
      PROVE  pc'[q] = pc[q] /\ local'[q] = local[q]
  BY <1>1 DEF Submit, ReadDocument, ReadJob, Acquire, HeadUpload, CopyUpload, DeleteUpload,
     InspectSource, SaveUploaded, SubmitJob, Enqueue, ReleaseLease, Repeat, Crash
<1>2. CASE UNCHANGED vars \/ Register \/ LeaseExpires
  BY <1>2 DEF vars, Register, LeaseExpires
<1>3. ASSUME NEW k \in Key, Work(k) PROVE pc' = pc /\ local' = local
  BY <1>3 DEF Work, WorkStarts, WorkEnds, Acknowledge
<1>4. ASSUME NEW s \in Session, CreateUpload(s) \/ Put(s) \/ ExpireUpload(s)
      PROVE  pc' = pc /\ local' = local
  BY <1>4 DEF CreateUpload, Put, ExpireUpload
<1> QED
  BY <1>1, <1>2, <1>3, <1>4 DEF Next

\* The steps of one request: where it goes, what it remembers, and what it saw.
LEMMA RequestStep ==
  ASSUME TypeOK, NEW r \in Request, Submit(r) \/ Crash(r)
  PROVE  /\ pc'[r] \notin {"read", "done"} =>
              \/ ReadDocument(r)
              \/ /\ pc[r] \notin {"read", "done"}
                 /\ local'[r].status = local[r].status /\ local'[r].revision = local[r].revision
         /\ pc'[r] = "head" => Acquire(r) /\ SessionOf[r] # NoSession
         /\ pc'[r] = "copy" => HeadUpload(r) /\ Valid(temp[SessionOf[r]].content)
                               /\ local'[r].etag = temp[SessionOf[r]].etag
         /\ pc'[r] = "delete" => CopyUpload(r)
         /\ pc'[r] = "save" => InspectSource(r) /\ Valid(source) /\ local[r].status = "pending_upload"
         /\ pc'[r] = "submit" =>
              \/ InspectSource(r) /\ Valid(source) /\ local[r].status # "pending_upload"
              \/ SaveUploaded(r) /\ doc'.status = "uploaded"
         /\ pc'[r] = "enqueue" => SubmitJob(r)
<1> local \in [Request -> Memory]
  BY Typed DEF RequestsOK
<1> USE DEF TypeOK, Goto, Answered
<1>1. CASE ReadDocument(r) \/ ReadJob(r)
  BY <1>1 DEF ReadDocument, ReadJob, Memory
<1>2. CASE Acquire(r)
  BY <1>2 DEF Acquire, FirstStep, Memory
<1>3. CASE HeadUpload(r)
  BY <1>3 DEF HeadUpload, Memory
<1>4. CASE CopyUpload(r) \/ DeleteUpload(r)
  BY <1>4 DEF CopyUpload, DeleteUpload, Memory
<1>5. CASE InspectSource(r) \/ SaveUploaded(r)
  BY <1>5 DEF InspectSource, FirstStep, SaveUploaded, Memory
<1>6. CASE SubmitJob(r) \/ Enqueue(r)
  BY <1>6 DEF SubmitJob, Enqueue, Memory
<1>7. CASE ReleaseLease(r) \/ Repeat(r) \/ Crash(r)
  BY <1>7 DEF ReleaseLease, Repeat, Crash
<1> QED
  BY <1>1, <1>2, <1>3, <1>4, <1>5, <1>6, <1>7 DEF Submit

\* How each store changes.
LEMMA DocumentStep ==
  ASSUME TypeOK, [Next]_vars
  PROVE  \/ doc' = doc
         \/ doc = Unregistered /\ doc' = Created
         \/ /\ doc'.revision = doc.revision + 1
            /\ doc'.status \notin {"none", "pending_upload"}
            /\ \/ doc'.status # "uploaded"
               \/ \E r \in Request : SaveUploaded(r) /\ Current(r)
<1>1. ASSUME NEW r \in Request, Submit(r) \/ Crash(r)
      PROVE  \/ doc' = doc
             \/ /\ doc' = [status |-> "uploaded", revision |-> doc.revision + 1]
                /\ SaveUploaded(r) /\ Current(r)
  BY <1>1 DEF Submit, ReadDocument, ReadJob, Acquire, HeadUpload, CopyUpload, DeleteUpload,
     InspectSource, SaveUploaded, SubmitJob, Enqueue, ReleaseLease, Repeat, Crash, stores, Current
<1>2. ASSUME NEW k \in Key, Work(k)
      PROVE  doc' = doc \/ /\ doc'.revision = doc.revision + 1
                           /\ doc'.status \in {"processing", "indexed", "failed"}
  BY <1>2 DEF Work, WorkStarts, WorkEnds, Acknowledge
<1>3. CASE UNCHANGED vars \/ Register \/ LeaseExpires
  BY <1>3 DEF vars, stores, Register, LeaseExpires
<1>4. ASSUME NEW s \in Session, CreateUpload(s) \/ Put(s) \/ ExpireUpload(s) PROVE doc' = doc
  BY <1>4 DEF CreateUpload, Put, ExpireUpload
<1> QED
  BY <1>1, <1>2, <1>3, <1>4 DEF Next

LEMMA UploadsStep ==
  ASSUME TypeOK, [Next]_vars, NEW s \in Session
  PROVE  /\ puts \in Nat /\ puts' \in Nat /\ puts <= puts'
         /\ \/ temp'[s] = temp[s]
            \/ temp'[s] = NoObject
            \/ temp'[s].etag = puts + 1 /\ puts' = puts + 1
<1> USE DEF TypeOK
<1>1. ASSUME NEW r \in Request, Submit(r) \/ Crash(r)
      PROVE  puts' = puts /\ (temp'[s] = temp[s] \/ temp'[s] = NoObject)
  BY <1>1 DEF Submit, ReadDocument, ReadJob, Acquire, HeadUpload, CopyUpload, DeleteUpload,
     InspectSource, SaveUploaded, SubmitJob, Enqueue, ReleaseLease, Repeat, Crash, stores
<1>2. ASSUME NEW k \in Key, Work(k) PROVE puts' = puts /\ temp' = temp
  BY <1>2 DEF Work, WorkStarts, WorkEnds, Acknowledge
<1>3. CASE UNCHANGED vars \/ Register \/ LeaseExpires
  BY <1>3 DEF vars, stores, Register, LeaseExpires
<1>4. ASSUME NEW t \in Session, CreateUpload(t) \/ ExpireUpload(t)
      PROVE  puts' = puts /\ (temp'[s] = temp[s] \/ temp'[s] = NoObject)
  BY <1>4 DEF CreateUpload, ExpireUpload
<1>5. ASSUME NEW t \in Session, Put(t)
      PROVE  puts' = puts + 1 /\ (temp'[s] = temp[s] \/ temp'[s].etag = puts + 1)
  <2>1. \A content : temp' = [temp EXCEPT ![t] = [content |-> content, etag |-> puts + 1]] =>
            temp'[s] = temp[s] \/ temp'[s].etag = puts + 1
    OBVIOUS
  <2> QED
    BY <1>5, <2>1 DEF Put
<1> QED
  BY <1>1, <1>2, <1>3, <1>4, <1>5 DEF Next

LEMMA SourceStep ==
  ASSUME TypeOK, UploadInspected, [Next]_vars
  PROVE  source' = source \/ Valid(source')
<1>1. ASSUME NEW r \in Request, Submit(r) \/ Crash(r)
      PROVE  source' = source \/ Valid(source')
  BY <1>1 DEF Submit, ReadDocument, ReadJob, Acquire, HeadUpload, CopyUpload, DeleteUpload,
     InspectSource, SaveUploaded, SubmitJob, Enqueue, ReleaseLease, Repeat, Crash, stores,
     UploadInspected
<1>2. ASSUME NEW k \in Key, Work(k) PROVE source' = source
  BY <1>2 DEF Work, WorkStarts, WorkEnds, Acknowledge
<1>3. CASE UNCHANGED vars \/ Register \/ LeaseExpires
  BY <1>3 DEF vars, stores, Register, LeaseExpires
<1>4. ASSUME NEW s \in Session, CreateUpload(s) \/ Put(s) \/ ExpireUpload(s)
      PROVE  source' = source
  BY <1>4 DEF CreateUpload, Put, ExpireUpload
<1> QED
  BY <1>1, <1>2, <1>3, <1>4 DEF Next

LEMMA JobsStep ==
  ASSUME TypeOK, [Next]_vars, NEW k \in Key
  PROVE  /\ jobs[k] # "none" => jobs'[k] # "none"
         /\ jobs[k] = "none" /\ jobs'[k] # "none" => \E r \in Request : SubmitJob(r)
         /\ queue[k] = 0 /\ queue'[k] > 0 => \E r \in Request : Enqueue(r) /\ KeyOf[r] = k
<1> USE DEF TypeOK
<1>1. ASSUME NEW r \in Request, Submit(r) \/ Crash(r)
      PROVE  /\ jobs[k] # "none" => jobs'[k] # "none"
             /\ jobs'[k] = jobs[k] \/ SubmitJob(r)
             /\ queue'[k] = queue[k] \/ (Enqueue(r) /\ KeyOf[r] = k)
  BY <1>1 DEF Submit, ReadDocument, ReadJob, Acquire, HeadUpload, CopyUpload, DeleteUpload,
     InspectSource, SaveUploaded, SubmitJob, Enqueue, Send, ReleaseLease, Repeat, Crash, stores
<1>2. ASSUME NEW j \in Key, Work(j)
      PROVE  /\ jobs[k] # "none" => jobs'[k] # "none"
             /\ jobs[k] = "none" => jobs'[k] = "none"
             /\ queue[k] = 0 => queue'[k] = 0
  BY <1>2 DEF Work, WorkStarts, WorkEnds, Acknowledge
<1>3. CASE UNCHANGED vars \/ Register \/ LeaseExpires
  BY <1>3 DEF vars, stores, Register, LeaseExpires
<1>4. ASSUME NEW s \in Session, CreateUpload(s) \/ Put(s) \/ ExpireUpload(s)
      PROVE  jobs' = jobs /\ queue' = queue
  BY <1>4 DEF CreateUpload, Put, ExpireUpload
<1> QED
  BY <1>1, <1>2, <1>3, <1>4 DEF Next

LEMMA DocumentReadStep ==
  ASSUME TypeOK, StoredOrNot, DocumentRead, [Next]_vars
  PROVE  StoredOrNot' /\ DocumentRead'
<1> doc.revision \in Nat
  BY Typed DEF StoresOK, Document
<1>1. StoredOrNot'
  BY DocumentStep DEF StoredOrNot, Unregistered, Created
<1>2. ASSUME NEW r \in Request, pc'[r] \notin {"read", "done"}
      PROVE  /\ local'[r].status # "none"
             /\ local'[r].revision <= doc'.revision
             /\ local'[r].revision = doc'.revision => local'[r].status = doc'.status
             /\ local'[r].status # "pending_upload" => doc'.status \notin {"none", "pending_upload"}
  <2>1. CASE ReadDocument(r)
    <3>1. doc' = doc /\ local'[r].status = doc.status /\ local'[r].revision = doc.revision
      BY <2>1 DEF ReadDocument, stores, TypeOK, Fresh
    <3>2. doc.status # "none"
      BY <2>1 DEF ReadDocument, StoredOrNot
    <3> QED
      BY <3>1, <3>2
  <2>2. CASE ~ReadDocument(r)
    <3>1. /\ pc[r] \notin {"read", "done"}
          /\ local'[r].status = local[r].status /\ local'[r].revision = local[r].revision
      BY <1>2, <2>2, OthersKept, RequestStep
    <3>2. local[r].revision \in Nat
      BY Typed DEF RequestsOK, Memory
    <3> QED
      BY <3>1, <3>2, DocumentStep DEF DocumentRead, Unregistered, Created
  <2> QED
    BY <2>1, <2>2
<1> QED
  BY <1>1, <1>2 DEF DocumentRead

LEMMA UploadInspectedStep ==
  ASSUME TypeOK, UploadInspected, [Next]_vars
  PROVE  UploadInspected'
<1> /\ temp \in [Session -> Object] /\ puts \in Nat
  BY Typed DEF StoresOK, CountersOK
<1>1. ASSUME NEW s \in Session PROVE temp'[s].etag <= puts'
  <2>1. temp[s].etag \in Nat /\ temp[s].etag <= puts /\ NoObject.etag = 0
    BY DEF UploadInspected, Object, NoObject
  <2> QED
    BY <2>1, UploadsStep
<1>2. ASSUME NEW r \in Request, pc'[r] \in {"head", "copy", "delete"} PROVE SessionOf[r] \in Session
  BY <1>2, OthersKept, RequestStep DEF UploadInspected, HeadUpload, CopyUpload
<1>3. ASSUME NEW r \in Request, pc'[r] = "copy"
      PROVE  local'[r].etag <= puts' /\ (Unchanged(r)' => Valid(temp[SessionOf[r]].content)')
  <2> DEFINE s == SessionOf[r]
  <2>1. s \in Session
    BY <1>2, <1>3
  <2>2. CASE HeadUpload(r)
    <3>1. /\ Valid(temp[s].content) /\ local'[r].etag = temp[s].etag /\ temp' = temp /\ puts' = puts
      BY <1>3, <2>2, RequestStep DEF HeadUpload, stores, Submit
    <3> QED
      BY <2>1, <3>1 DEF UploadInspected, Valid
  <2>3. CASE ~HeadUpload(r)
    <3>1. pc[r] = "copy" /\ local'[r] = local[r]
      BY <1>3, <2>3, OthersKept, RequestStep
    <3>2. /\ local[r].etag <= puts
          /\ temp[s] # NoObject /\ temp[s].etag = local[r].etag => Valid(temp[s].content)
      BY <3>1 DEF UploadInspected, Unchanged
    <3>3. local[r].etag \in Nat
      BY Typed DEF RequestsOK, Memory
    <3>4. temp'[s] # NoObject /\ temp'[s].etag = local[r].etag => temp'[s] = temp[s]
      BY <2>1, <3>2, <3>3, UploadsStep
    <3>5. local[r].etag <= puts'
      BY <2>1, <3>2, <3>3, UploadsStep
    <3> QED
      BY <3>1, <3>2, <3>4, <3>5 DEF Unchanged, Valid
  <2> QED
    BY <2>2, <2>3
<1> QED
  BY <1>1, <1>2, <1>3 DEF UploadInspected

\* The document stays past PENDING_UPLOAD, and a valid source stays valid.
LEMMA StaysPrepared ==
  ASSUME TypeOK, UploadInspected, [Next]_vars
  PROVE  /\ doc.status \notin {"none", "pending_upload"} => doc'.status \notin {"none", "pending_upload"}
         /\ Valid(source) => Valid(source')
BY DocumentStep, SourceStep DEF Unregistered, Created

LEMMA StepPreparedStep ==
  ASSUME TypeOK, DocumentRead, UploadInspected, StepPrepared, [Next]_vars
  PROVE  StepPrepared'
<1> SUFFICES ASSUME NEW r \in Request
             PROVE  /\ pc'[r] = "save" => local'[r].status = "pending_upload" /\ Valid(source')
                    /\ pc'[r] = "submit" => /\ doc'.status \notin {"none", "pending_upload"}
                                            /\ Valid(source')
                    /\ pc'[r] = "enqueue" => jobs'[KeyOf[r]] # "none"
  BY DEF StepPrepared, Valid
<1>1. CASE pc'[r] = pc[r] /\ local'[r] = local[r]
  BY <1>1, StaysPrepared, JobsStep DEF StepPrepared
<1>2. CASE Submit(r) \/ Crash(r)
  <2>1. ASSUME pc'[r] = "save" PROVE local'[r].status = "pending_upload" /\ Valid(source')
    BY <1>2, <2>1, RequestStep, StaysPrepared DEF ReadDocument, Goto, TypeOK
  <2>2. ASSUME pc'[r] = "submit"
        PROVE  doc'.status \notin {"none", "pending_upload"} /\ Valid(source')
    <3>1. CASE InspectSource(r)
      BY <1>2, <2>2, <3>1, RequestStep, StaysPrepared DEF InspectSource, DocumentRead, SaveUploaded
    <3>2. CASE SaveUploaded(r) /\ doc'.status = "uploaded"
      BY <3>2, StaysPrepared DEF SaveUploaded, StepPrepared
    <3> QED
      BY <1>2, <2>2, <3>1, <3>2, RequestStep
  <2>3. ASSUME pc'[r] = "enqueue" PROVE jobs'[KeyOf[r]] # "none"
    BY <1>2, <2>3, RequestStep DEF SubmitJob, TypeOK
  <2> QED
    BY <2>1, <2>2, <2>3
<1> QED
  BY <1>1, <1>2, OthersKept

LEMMA InvariantStep == IInv /\ [Next]_vars => IInv'
<1> SUFFICES ASSUME IInv, [Next]_vars PROVE IInv'
  OBVIOUS
<1> USE DEF IInv
<1>1. TypeOK' /\ StoredOrNot' /\ DocumentRead' /\ UploadInspected' /\ StepPrepared'
  BY TypeStep, DocumentReadStep, UploadInspectedStep, StepPreparedStep
<1>2. SourceNeverMismatched'
  BY SourceStep DEF SourceNeverMismatched, Valid
<1>3. ASSUME NEW k \in Key
      PROVE  /\ jobs'[k] # "none" => doc'.status \notin {"none", "pending_upload"} /\ source' = "match"
             /\ queue'[k] > 0 => jobs'[k] # "none"
  <2>1. ASSUME jobs'[k] # "none"
        PROVE  doc'.status \notin {"none", "pending_upload"} /\ source' = "match"
    BY <2>1, JobsStep, StaysPrepared DEF DispatchedJobReady, StepPrepared, SubmitJob, Valid
  <2>2. ASSUME queue'[k] > 0 PROVE jobs'[k] # "none"
    <3>1. queue[k] \in Nat
      BY DEF TypeOK
    <3> QED
      BY <2>2, <3>1, JobsStep DEF DispatchedJobReady, StepPrepared, Enqueue
  <2> QED
    BY <2>1, <2>2
<1> QED
  BY <1>1, <1>2, <1>3 DEF DispatchedJobReady

LEMMA InvariantInit == Init => IInv
<1> SUFFICES ASSUME Init PROVE IInv
  OBVIOUS
<1>1. StoresOK /\ RequestsOK /\ CountersOK
  <2>1. Unregistered \in Document /\ NoObject \in Object /\ NoLease \in LeaseItem /\ Fresh \in Memory
    <3>1. 0 \in 0..MaxPuts /\ 0 \in 0..MaxFence
      OBVIOUS
    <3> QED
      BY <3>1, FreshTyped DEF Unregistered, Document, DocStatus, NoObject, Object, NoLease, LeaseItem
  <2> QED
    BY <2>1 DEF Init, StoresOK, RequestsOK, CountersOK, JobStatus, Place
<1>2. TypeOK
  BY <1>1, Typed
<1>3. StoredOrNot /\ DocumentRead /\ UploadInspected /\ StepPrepared
  BY DEF Init, StoredOrNot, DocumentRead, UploadInspected, StepPrepared, NoObject
<1> QED
  BY <1>2, <1>3 DEF Init, IInv, SourceNeverMismatched, DispatchedJobReady

\* The inductive invariant holds for any number of requests and sessions.
THEOREM SubmissionInvariant == Spec => []IInv
BY InvariantInit, InvariantStep, PTL DEF Spec

\* The types of the document, the uploads, the job and the requests.
THEOREM SubmissionTypeCorrect == Spec => []TypeOK
<1>1. IInv => TypeOK
  BY DEF IInv
<1> QED
  BY <1>1, SubmissionInvariant, PTL

\* Whatever is PUT to however many temporary objects, and whenever, the immutable
\* source never holds content other than the registered one.
THEOREM SourceIsNeverMismatched == Spec => []SourceNeverMismatched
<1>1. IInv => SourceNeverMismatched
  BY DEF IInv
<1> QED
  BY <1>1, SubmissionInvariant, PTL

\* Every persisted job has its source in place and every message a persisted job,
\* wherever submissions are interrupted and repeated.
THEOREM DispatchedJobsAreReady == Spec => []DispatchedJobReady
<1>1. IInv => DispatchedJobReady
  BY DEF IInv
<1> QED
  BY <1>1, SubmissionInvariant, PTL

\* A submission that holds an old read of the document, however long ago it lost
\* its lease, does not take the document back to UPLOADED.
THEOREM DocumentNeverBackToUploaded == Spec => NeverBackToUploaded
<1>1. ASSUME IInv, [Next]_vars, doc'.status = "uploaded"
      PROVE  doc.status = "pending_upload" \/ UNCHANGED doc
  <2>1. ASSUME NEW r \in Request, SaveUploaded(r), Current(r)
        PROVE  doc.status = "pending_upload"
    <3>1. pc[r] = "save" /\ doc.revision = local[r].revision
      BY <2>1 DEF SaveUploaded, Current
    <3>2. local[r].status = "pending_upload" /\ local[r].status = doc.status
      BY <1>1, <3>1 DEF IInv, StepPrepared, DocumentRead
    <3> QED
      BY <3>2
  <2> QED
    BY <1>1, <2>1, DocumentStep DEF IInv, Created
<1>2. IInv /\ [Next]_vars =>
        [doc'.status = "uploaded" => doc.status = "pending_upload" \/ UNCHANGED doc]_vars
  BY <1>1
<1> QED
  BY <1>2, SubmissionInvariant, PTL DEF Spec, NeverBackToUploaded

=============================================================================
