------------------------------- MODULE Worker -------------------------------
(***************************************************************************)
(* ReliableDocumentIngestionWorker.run_once() over the SQS queue and the   *)
(* job records, for jobs of one version of one document that have the same *)
(* fingerprint.  ingest() is reduced to the calls that touch the lease,    *)
(* the job records and the marker; module Ingestion has the rest of it.    *)
(*                                                                         *)
(* pc[w] names the call worker w is about to make; a job's fence is 0 when *)
(* its record has no fencing token.                                        *)
(***************************************************************************)
EXTENDS Naturals

CONSTANTS Worker, Job, NoWorker, NoJob,
          Message,      \* the messages, numbered in the order they were sent
          JobOf,        \* the job each message names
          Fifo,         \* TRUE: a FIFO queue, whose one message group is the document
          Faults,       \* the faults of the environment that may happen
          MaxReceives,  \* maxReceiveCount of the redrive policy
          MaxFence,     \* bound on the fencing counter
          MaxFaults     \* bound on the number of faults in a behaviour

AllFaults == {"crash",    \* a worker process dies
              "failure",  \* a call of the pipeline raises
              "visible",  \* a message becomes visible while its worker runs on
              "expire",   \* a lease runs out while its holder runs on
              "beat"}     \* a heartbeat raises, or comes before the claim

ASSUME WorkerAssumption ==
    /\ NoWorker \notin Worker /\ NoJob \notin Job
    /\ Message \subseteq Nat \ {0}
    /\ JobOf \in [Message -> Job]
    /\ Fifo \in BOOLEAN
    /\ Faults \subseteq AllFaults
    /\ MaxReceives \in Nat \ {0} /\ MaxFence \in Nat /\ MaxFaults \in Nat

VARIABLES jobs,    \* the job items
          marker,  \* the item of the fingerprint
          lease,   \* the lease item of the document version
          ready,   \* the document's status lets it be ingested
          msgs,    \* where each message is and how often it was received
          pc,      \* the next call of each worker
          run,     \* what each worker remembers of the delivery it works on
          budget   \* faults that may still happen

vars == <<jobs, marker, lease, ready, msgs, pc, run, budget>>

-----------------------------------------------------------------------------
(* Types *)

NoGen == [job |-> NoJob, fence |-> 0]
Gen == [job: Job, fence: 1..MaxFence]

JobItem == [status: {"pending", "running", "succeeded", "failed"},
            retryable: BOOLEAN,       \* error_code = INGESTION_FAILED
            fingerprinted: BOOLEAN,   \* the record has the fingerprint
            fence: 0..MaxFence,
            gen: Gen \cup {NoGen}]    \* the generation a success refers to
Pending == [status |-> "pending", retryable |-> FALSE, fingerprinted |-> FALSE,
            fence |-> 0, gen |-> NoGen]

NoMarker == [job |-> NoJob, fence |-> 0, status |-> "none"]
NoLease  == [owner |-> NoJob, execution |-> NoWorker, fence |-> 0, live |-> FALSE]

Leased  == {"claim", "produce", "publish", "conclude", "release"}
Ingest  == {"find", "acquire"} \cup Leased
Place   == {"idle", "read", "reread", "fail", "reuse", "ack"} \cup Ingest
Outcome == {"none", "published", "reused", "busy", "failed", "rejected", "unready",
            "conflict", "cancelled"}

NoRun == [msg |-> 0, receipt |-> 0, copy |-> Pending, fence |-> 0, outcome |-> "none"]

TypeOK ==
    /\ jobs \in [Job -> JobItem]
    /\ marker \in [job: Job \cup {NoJob}, fence: 0..MaxFence,
                   status: {"none", "running", "succeeded", "failed"}]
    /\ lease \in [owner: Job \cup {NoJob}, execution: Worker \cup {NoWorker},
                  fence: 0..MaxFence, live: BOOLEAN]
    /\ ready \in BOOLEAN
    /\ msgs \in [Message -> [place: {"queued", "flight", "gone", "dead"},
                             receives: 0..MaxReceives]]
    /\ pc \in [Worker -> Place]
    /\ run \in [Worker -> [msg: Message \cup {0}, receipt: 0..MaxReceives, copy: JobItem,
                           fence: 0..MaxFence, outcome: Outcome]]
    /\ budget \in 0..MaxFaults

-----------------------------------------------------------------------------
(* Helpers *)

J(w) == JobOf[run[w].msg]
Terminal(j) == jobs[j].status \in {"succeeded", "failed"}

\* the receipt handle of the last receive, while its visibility timeout runs
ReceiptValid(w) == msgs[run[w].msg].place = "flight" /\ msgs[run[w].msg].receives = run[w].receipt

Spend(fault) == fault \in Faults /\ budget > 0 /\ budget' = budget - 1

Goto(w, place) == pc' = [pc EXCEPT ![w] = place]
Remember(w, field, value) == run' = [run EXCEPT ![w][field] = value]

\* run_once() returns or raises: the message stays in flight until its timeout
Leave(w) == Goto(w, "idle") /\ run' = [run EXCEPT ![w] = NoRun]
\* the end of ingest(): what it returns or raises is remembered until the lease is given back
Conclude(w, outcome) == Goto(w, "release") /\ Remember(w, "outcome", outcome)

-----------------------------------------------------------------------------
(* Faulty variants of definitions below *)

\* a job left RUNNING needs no execution either
SettledOnceClaimed(j) == jobs[j].status # "pending"
\* a reused result is copied without its generation
ReusedWithoutGeneration(w) ==
    [run[w].copy EXCEPT !.status = "succeeded", !.retryable = FALSE, !.fingerprinted = TRUE]
\* the marker is left out of the transaction of a fenced save
AcceptedByJob(j, new) ==
    /\ jobs[j].fingerprinted /\ jobs[j].fence = new.fence
    /\ jobs[j].status \in {"running", new.status}

-----------------------------------------------------------------------------
(* The queue *)

\* receive_message; a FIFO queue gives the first message of the group, one at a time
Deliverable(m) ==
    /\ msgs[m].place = "queued" /\ msgs[m].receives < MaxReceives
    /\ Fifo => /\ \A other \in Message : msgs[other].place # "flight"
               /\ \A other \in Message : other < m => msgs[other].place # "queued"

Receive(w) ==
    /\ pc[w] = "idle"
    /\ \E m \in Message :
        /\ Deliverable(m)
        /\ msgs' = [msgs EXCEPT ![m] = [place |-> "flight", receives |-> @.receives + 1]]
        /\ run' = [run EXCEPT ![w] = [NoRun EXCEPT !.msg = m, !.receipt = msgs[m].receives + 1]]
    /\ Goto(w, "read")
    /\ UNCHANGED <<jobs, marker, lease, ready, budget>>

\* delete_message; a FIFO queue rejects an expired handle, a standard one may ignore it
Acknowledge(w) ==
    LET m == run[w].msg IN
    /\ pc[w] = "ack"
    /\ \/ /\ ReceiptValid(w) \/ ~Fifo
          /\ msgs' = [msgs EXCEPT ![m].place = IF @ = "dead" THEN @ ELSE "gone"]
       \/ ~ReceiptValid(w) /\ UNCHANGED msgs
    /\ Leave(w)
    /\ UNCHANGED <<jobs, marker, lease, ready, budget>>

\* The visibility timeout of a message runs out; before its worker is done, that is a fault.
BecomeVisible(m) ==
    /\ msgs[m].place = "flight"
    /\ IF \E w \in Worker : run[w].msg = m /\ run[w].receipt = msgs[m].receives
         THEN Spend("visible") ELSE UNCHANGED budget
    /\ msgs' = [msgs EXCEPT ![m].place = "queued"]
    /\ UNCHANGED <<jobs, marker, lease, ready, pc, run>>

\* The redrive policy moves a message received too often to the dead-letter queue.
DeadLetter(m) ==
    /\ msgs[m].place = "queued" /\ msgs[m].receives = MaxReceives
    /\ msgs' = [msgs EXCEPT ![m].place = "dead"]
    /\ UNCHANGED <<jobs, marker, lease, ready, pc, run, budget>>

-----------------------------------------------------------------------------
(* The job records *)

\* the conditions of a fenced save: the stored job and the marker are of its execution
Accepts(j, new) ==
    /\ jobs[j].fingerprinted /\ jobs[j].fence = new.fence
    /\ jobs[j].status \in {"running", new.status}
    /\ \/ marker.status = "none"
       \/ marker.job = j /\ marker.fence = new.fence /\ marker.status \in {"running", new.status}

\* jobs.save(): without a token the item is put unconditionally and the marker is left alone
SaveTakesEffect(j, new) ==
    /\ new.fence # 0 => Accepts(j, new)
    /\ jobs' = [jobs EXCEPT ![j] = new]
    /\ marker' = IF new.fence = 0 THEN marker
                 ELSE [job |-> j, fence |-> new.fence, status |-> new.status]

SaveConflicts(j, new) == new.fence # 0 /\ ~Accepts(j, new) /\ UNCHANGED <<jobs, marker>>

\* the conditions claim() puts on the job and on the marker
Claimable(j, f) ==
    \/ jobs[j].status = "pending"
    \/ /\ jobs[j].fingerprinted
       /\ jobs[j].status = "failed" \/ (jobs[j].status = "running" /\ jobs[j].fence < f)
MarkerFree(f) ==
    marker.status \in {"none", "failed"} \/ (marker.status = "running" /\ marker.fence < f)

\* find_by_fingerprint(): the job the marker names has succeeded
CanonicalSucceeded == IF marker.status = "none" THEN FALSE
                      ELSE jobs[marker.job].status = "succeeded"

-----------------------------------------------------------------------------
(* ingest() *)

\* find_by_fingerprint before the lease; the document is read first
Find(w) ==
    /\ pc[w] = "find"
    /\ \/ ~ready /\ Goto(w, "fail") /\ Remember(w, "outcome", "unready")
       \/ /\ ready /\ CanonicalSucceeded
          /\ Goto(w, IF marker.job = J(w) THEN "ack" ELSE "reuse") /\ UNCHANGED run
       \/ /\ ready /\ ~CanonicalSucceeded
          /\ Goto(w, "acquire") /\ UNCHANGED run
    /\ UNCHANGED <<jobs, marker, lease, ready, msgs, budget>>

Acquire(w) ==
    /\ pc[w] = "acquire"
    /\ \/ lease.live /\ Leave(w) /\ UNCHANGED lease
       \/ /\ ~lease.live /\ lease.fence < MaxFence
          /\ lease' = [owner |-> J(w), execution |-> w, fence |-> lease.fence + 1, live |-> TRUE]
          /\ Remember(w, "fence", lease.fence + 1) /\ Goto(w, "claim")
    /\ UNCHANGED <<jobs, marker, ready, msgs, budget>>

Claim(w) ==
    LET j == J(w)  f == run[w].fence  free == Claimable(j, f) /\ MarkerFree(f) IN
    /\ pc[w] = "claim"
    /\ \/ /\ free
          /\ jobs' = [jobs EXCEPT ![j] = [Pending EXCEPT !.status = "running",
                                              !.fingerprinted = TRUE, !.fence = f]]
          /\ marker' = [job |-> j, fence |-> f, status |-> "running"]
          /\ Goto(w, "produce") /\ UNCHANGED run
       \/ /\ ~free
          /\ Conclude(w, IF marker.status = "none" THEN "conflict"
                         ELSE IF CanonicalSucceeded THEN "reused" ELSE "busy")
          /\ UNCHANGED <<jobs, marker>>
    /\ UNCHANGED <<lease, ready, msgs, budget>>

\* extraction, embedding and the stores: done, rejected, or a call raised
Produce(w) ==
    /\ pc[w] = "produce"
    /\ \/ Goto(w, "publish") /\ UNCHANGED <<run, budget>>
       \/ Goto(w, "conclude") /\ Remember(w, "outcome", "rejected") /\ UNCHANGED budget
       \/ Goto(w, "conclude") /\ Remember(w, "outcome", "failed") /\ Spend("failure")
    /\ UNCHANGED <<jobs, marker, lease, ready, msgs>>

\* activate(): the transaction checks the lease, the job and the marker
Activatable(w) ==
    LET j == J(w)  f == run[w].fence IN
    /\ lease.owner = j /\ lease.fence = f /\ lease.live
    /\ jobs[j].status = "running" /\ jobs[j].fence = f
    /\ marker = [job |-> j, fence |-> f, status |-> "running"]

Publish(w) ==
    LET j == J(w)  f == run[w].fence IN
    /\ pc[w] = "publish"
    /\ \/ /\ Activatable(w)
          /\ jobs' = [jobs EXCEPT ![j].status = "succeeded", ![j].gen = [job |-> j, fence |-> f]]
          /\ marker' = [marker EXCEPT !.status = "succeeded"]
          /\ Conclude(w, "published")
       \/ /\ ~Activatable(w)
          /\ Goto(w, "conclude") /\ Remember(w, "outcome", "rejected")
          /\ UNCHANGED <<jobs, marker>>
    /\ UNCHANGED <<lease, ready, msgs, budget>>

\* the handler of ingest() saves the running job it built as FAILED
RecordFailure(w) ==
    LET new == [Pending EXCEPT !.status = "failed", !.fingerprinted = TRUE, !.fence = run[w].fence,
                               !.retryable = run[w].outcome = "failed"] IN
    /\ pc[w] = "conclude"
    /\ \/ SaveTakesEffect(J(w), new) /\ Goto(w, "release") /\ UNCHANGED run
       \/ SaveConflicts(J(w), new) /\ Conclude(w, "conflict")
    /\ UNCHANGED <<lease, ready, msgs, budget>>

\* where run_once() goes on for what ingest() returned or raised
After(w) ==
    CASE run[w].outcome = "published" -> "ack"
      [] run[w].outcome = "reused" -> IF marker.job = J(w) THEN "ack" ELSE "reuse"
      [] run[w].outcome \in {"failed", "rejected"} -> "reread"
      [] OTHER -> "idle"

\* the finally clause; the execution is not compared
Release(w) ==
    /\ pc[w] = "release"
    /\ lease' = IF lease.owner = J(w) /\ lease.fence = run[w].fence THEN NoLease ELSE lease
    /\ IF After(w) = "idle" THEN Leave(w) ELSE Goto(w, After(w)) /\ UNCHANGED run
    /\ UNCHANGED <<jobs, marker, ready, msgs, budget>>

-----------------------------------------------------------------------------
(* run_once() *)

\* a job that needs no execution: succeeded, or failed for good
Settled(j) ==
    jobs[j].status = "succeeded" \/ (jobs[j].status = "failed" /\ ~jobs[j].retryable)

ReadJob(w) ==
    /\ pc[w] = "read"
    /\ Goto(w, IF Settled(J(w)) THEN "ack" ELSE "find")
    /\ Remember(w, "copy", jobs[J(w)])
    /\ UNCHANGED <<jobs, marker, lease, ready, msgs, budget>>

\* where a failed delivery ends once the job is FAILED: left to SQS, or acknowledged
EndOf(w) == IF run[w].outcome = "failed" THEN "idle" ELSE "ack"

\* after an IngestionError the job is read again, and failed unless it already ended
Reread(w) ==
    LET current == jobs[J(w)] IN
    /\ pc[w] = "reread"
    /\ \/ /\ current.status \in {"pending", "running"}
          /\ Remember(w, "copy", current) /\ Goto(w, "fail")
       \/ /\ current.status = "failed" /\ current.retryable /\ EndOf(w) = "idle"
          /\ Leave(w)
       \/ /\ current.status = "succeeded" \/ (current.status = "failed" /\
                ~(current.retryable /\ EndOf(w) = "idle"))
          /\ Goto(w, "ack") /\ UNCHANGED run
    /\ UNCHANGED <<jobs, marker, lease, ready, msgs, budget>>

\* _fail_job of the copy; a rejected save escapes run_once()
FailJob(w) ==
    LET new == [run[w].copy EXCEPT !.status = "failed", !.retryable = run[w].outcome # "unready"] IN
    /\ pc[w] = "fail"
    /\ \/ /\ SaveTakesEffect(J(w), new)
          /\ IF EndOf(w) = "idle" THEN Leave(w) ELSE Goto(w, "ack") /\ UNCHANGED run
       \/ SaveConflicts(J(w), new) /\ Leave(w)
    /\ UNCHANGED <<lease, ready, msgs, budget>>

\* _save_reused_result: the copy read at the start, with the fields of the canonical result
Reused(w) == [run[w].copy EXCEPT !.status = "succeeded", !.retryable = FALSE,
                                 !.fingerprinted = TRUE, !.gen = jobs[marker.job].gen]

SaveReused(w) ==
    /\ pc[w] = "reuse"
    /\ \/ SaveTakesEffect(J(w), Reused(w)) /\ Goto(w, "ack") /\ UNCHANGED run
       \/ SaveConflicts(J(w), Reused(w)) /\ Leave(w)
    /\ UNCHANGED <<lease, ready, msgs, budget>>

-----------------------------------------------------------------------------
(* The heartbeat, and the environment *)

\* what a beat needs: the job RUNNING, the lease of exactly this execution, the receipt
Renewable(w) ==
    /\ jobs[J(w)].status = "running"
    /\ lease.owner = J(w) /\ lease.execution = w /\ lease.fence = jobs[J(w)].fence /\ lease.live
    /\ ReceiptValid(w)

\* A beat that raises cancels ingest(): its finally clause runs, its handler does not.
\* It is no fault when the lease or the receipt was lost before.
HeartbeatStops(w) ==
    /\ pc[w] \in {"acquire", "claim", "produce", "publish", "conclude"}
    /\ \/ /\ pc[w] # "acquire" /\ UNCHANGED budget
          /\ lease.execution # w \/ ~lease.live \/ ~ReceiptValid(w)
       \/ Spend("beat")
    /\ IF pc[w] = "acquire" THEN Leave(w) ELSE Conclude(w, "cancelled")
    /\ UNCHANGED <<jobs, marker, lease, ready, msgs>>

Crash(w) ==
    /\ pc[w] # "idle" /\ Spend("crash")
    /\ Leave(w)
    /\ UNCHANGED <<jobs, marker, lease, ready, msgs>>

Holds(w) == pc[w] \in Leased /\ lease.execution = w /\ lease.fence = run[w].fence

\* The heartbeats of a running holder keep its lease: only a fault lets that expire.
LeaseExpires ==
    /\ lease.live
    /\ IF \E w \in Worker : Holds(w) THEN Spend("expire") ELSE UNCHANGED budget
    /\ lease' = [lease EXCEPT !.live = FALSE]
    /\ UNCHANGED <<jobs, marker, ready, msgs, pc, run>>

-----------------------------------------------------------------------------
Init ==
    /\ jobs = [j \in Job |-> Pending]
    /\ marker = NoMarker /\ lease = NoLease
    /\ ready \in BOOLEAN
    /\ msgs = [m \in Message |-> [place |-> "queued", receives |-> 0]]
    /\ pc = [w \in Worker |-> "idle"]
    /\ run = [w \in Worker |-> NoRun]
    /\ budget = MaxFaults

Step(w) ==
    \/ Receive(w) \/ ReadJob(w) \/ Find(w) \/ Acquire(w) \/ Claim(w) \/ Produce(w)
    \/ Publish(w) \/ RecordFailure(w) \/ Release(w) \/ Reread(w) \/ FailJob(w)
    \/ SaveReused(w) \/ Acknowledge(w)

Queue(m) == BecomeVisible(m) \/ DeadLetter(m)

Next ==
    \/ \E w \in Worker : Step(w) \/ HeartbeatStops(w) \/ Crash(w)
    \/ \E m \in Message : Queue(m)
    \/ LeaseExpires

Spec == Init /\ [][Next]_vars

\* The worker loop goes on after every error; SQS and the lease's clock do not stop.
Fairness ==
    /\ \A w \in Worker : WF_vars(Step(w))
    /\ \A m \in Message : WF_vars(Queue(m))
    /\ WF_vars(LeaseExpires)
FairSpec == Spec /\ Fairness

-----------------------------------------------------------------------------
(* Properties *)

\* A message is deleted only when nothing is left to do for its job: the job has
\* ended, another message names it, or a worker is at it.
NoJobForgotten ==
    \A m \in Message : msgs[m].place = "gone" =>
        \/ Terminal(JobOf[m])
        \/ \E other \in Message : JobOf[other] = JobOf[m] /\ msgs[other].place # "gone"
        \/ \E w \in Worker : pc[w] # "idle" /\ J(w) = JobOf[m]

\* A job never reports SUCCEEDED without the generation the marker's job published.
AliasesGrounded ==
    \A j \in Job : jobs[j].status = "succeeded" =>
        /\ marker.status = "succeeded"
        /\ jobs[j].gen = [job |-> marker.job, fence |-> marker.fence]
        /\ jobs[marker.job].status = "succeeded"

\* A fingerprint is published once: no late save or activation of another execution
\* changes the marker of a published fingerprint or the job it names.
PublishedOnce ==
    [][marker.status = "succeeded" =>
        marker' = marker /\ jobs'[marker.job] = jobs[marker.job]]_vars

\* Every job that was sent ends, or its message is in the dead-letter queue for an operator.
NothingLost ==
    \A j \in Job : (jobs[j].status \in {"pending", "running"}) ~>
        (Terminal(j) \/ \E m \in Message : JobOf[m] = j /\ msgs[m].place = "dead")

\* A submitted job whose fingerprint was published under another job can be made its alias.
\* The code does not keep this; MCWorker_alias.cfg shows how.
ReuseAccepted ==
    \A w \in Worker : (pc[w] = "reuse" /\ run[w].copy.fence # 0) =>
        Accepts(J(w), Reused(w))

-----------------------------------------------------------------------------
(* The inductive invariant of the records                                  *)

\* A delivery under way has its message, a token once it holds the lease, and an
\* error before it saves a failure.
Delivering ==
    \A w \in Worker :
        /\ pc[w] # "idle" => run[w].msg \in Message
        /\ pc[w] \in Leased => run[w].fence # 0
        /\ pc[w] = "conclude" => run[w].outcome \in {"failed", "rejected"}

\* A RUNNING job has the token of its claim.
RunningFenced == \A j \in Job : jobs[j].status = "running" => jobs[j].fence # 0

\* The marker names a job; once it reports a success, that job's generation.
MarkerGrounded ==
    /\ marker.status # "none" => marker.job \in Job
    /\ marker.status = "succeeded" =>
         /\ jobs[marker.job].status = "succeeded"
         /\ jobs[marker.job].gen = [job |-> marker.job, fence |-> marker.fence]

\* Once claimed a job is never PENDING again, so that the worker that claimed it
\* does not read it without a token.
ClaimedStays ==
    \A w \in Worker :
        \/ pc[w] \in {"produce", "publish", "conclude", "reread"}
        \/ pc[w] = "release" /\ run[w].outcome \in {"published", "failed", "rejected"}
        => jobs[J(w)].status # "pending"

\* A result is reused from another job, whose success the marker reports.
ReusedElsewhere ==
    \A w \in Worker :
        /\ pc[w] = "reuse" \/ (pc[w] = "release" /\ run[w].outcome = "reused") =>
             marker.status = "succeeded"
        /\ pc[w] = "reuse" => marker.job # J(w)

\* _fail_job without a token is for documents that cannot be ingested, and of
\* those no job gets past the first read.
FailsFenced == \A w \in Worker : pc[w] = "fail" /\ ready => run[w].copy.fence # 0
Unready ==
    ~ready => /\ marker.status # "succeeded"
              /\ \A w \in Worker : pc[w] \in {"idle", "read", "find", "fail", "ack"}

IInv ==
    /\ TypeOK
    /\ Delivering
    /\ RunningFenced
    /\ MarkerGrounded
    /\ ClaimedStays
    /\ ReusedElsewhere
    /\ FailsFenced
    /\ Unready
    /\ AliasesGrounded

-----------------------------------------------------------------------------
(* What more holds while no message becomes visible under its worker       *)

\* A worker's message is in flight under its receipt, and is no other worker's.
MessageHeld ==
    /\ \A w \in Worker : pc[w] # "idle" => ReceiptValid(w)
    /\ \A v, w \in Worker : pc[v] # "idle" /\ pc[w] # "idle" /\ run[v].msg = run[w].msg => v = w

\* An attempt that published goes to its acknowledgement.
PublishedStays ==
    \A w \in Worker : pc[w] = "release" /\ run[w].outcome = "published" =>
        marker.status = "succeeded" /\ marker.job = J(w)

\* The messages that will be delivered again, or are for an operator.
Remaining(j) ==
    {m \in Message : /\ JobOf[m] = j /\ msgs[m].place # "gone"
                     /\ \A w \in Worker : pc[w] = "ack" => run[w].msg # m}

\* A job that was sent has ended, or a message of it remains.
EndedOrRemaining == \A m \in Message : Terminal(JobOf[m]) \/ Remaining(JobOf[m]) # {}

HeldInv == MessageHeld /\ PublishedStays /\ EndedOrRemaining

=============================================================================
