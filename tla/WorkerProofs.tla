---------------------------- MODULE WorkerProofs ----------------------------
(***************************************************************************)
(* Proofs about run_once() for any number of workers, jobs and messages:   *)
(* a success refers to the one generation its fingerprint published, and   *)
(* no message is deleted before its job has ended.                         *)
(***************************************************************************)
EXTENDS Worker, TLAPS

USE WorkerAssumption

-----------------------------------------------------------------------------
(* Types                                                                   *)

Marker == [job: Job \cup {NoJob}, fence: 0..MaxFence,
           status: {"none", "running", "succeeded", "failed"}]
LeaseItem == [owner: Job \cup {NoJob}, execution: Worker \cup {NoWorker},
              fence: 0..MaxFence, live: BOOLEAN]
MessageItem == [place: {"queued", "flight", "gone", "dead"}, receives: 0..MaxReceives]
Run == [msg: Message \cup {0}, receipt: 0..MaxReceives, copy: JobItem,
        fence: 0..MaxFence, outcome: Outcome]

RecordsOK == jobs \in [Job -> JobItem] /\ marker \in Marker
OthersOK == lease \in LeaseItem /\ ready \in BOOLEAN /\ msgs \in [Message -> MessageItem]
            /\ budget \in 0..MaxFaults
WorkersOK == pc \in [Worker -> Place] /\ run \in [Worker -> Run]

\* The type invariant in its three parts.
LEMMA Typed == TypeOK <=> RecordsOK /\ OthersOK /\ WorkersOK
BY DEF TypeOK, RecordsOK, OthersOK, WorkersOK, Marker, LeaseItem, MessageItem, Run

\* What an assignment to one field of what a worker remembers does.
LEMMA Remembered ==
  ASSUME WorkersOK, NEW w \in Worker, NEW x
  PROVE  /\ Remember(w, "outcome", x) /\ x \in Outcome =>
              /\ run' \in [Worker -> Run] /\ run' = [run EXCEPT ![w] = run'[w]]
              /\ run'[w].msg = run[w].msg /\ run'[w].receipt = run[w].receipt
              /\ run'[w].copy = run[w].copy /\ run'[w].fence = run[w].fence
              /\ run'[w].outcome = x
         /\ Remember(w, "fence", x) /\ x \in 0..MaxFence =>
              /\ run' \in [Worker -> Run] /\ run' = [run EXCEPT ![w] = run'[w]]
              /\ run'[w].msg = run[w].msg /\ run'[w].receipt = run[w].receipt
              /\ run'[w].copy = run[w].copy /\ run'[w].fence = x
              /\ run'[w].outcome = run[w].outcome
         /\ Remember(w, "copy", x) /\ x \in JobItem =>
              /\ run' \in [Worker -> Run] /\ run' = [run EXCEPT ![w] = run'[w]]
              /\ run'[w].msg = run[w].msg /\ run'[w].receipt = run[w].receipt
              /\ run'[w].copy = x /\ run'[w].fence = run[w].fence
              /\ run'[w].outcome = run[w].outcome
<1> run \in [Worker -> Run] /\ run[w] \in Run
  BY DEF WorkersOK
<1>1. ASSUME Remember(w, "outcome", x), x \in Outcome
      PROVE  /\ run' \in [Worker -> Run] /\ run' = [run EXCEPT ![w] = run'[w]]
             /\ run'[w].msg = run[w].msg /\ run'[w].receipt = run[w].receipt
             /\ run'[w].copy = run[w].copy /\ run'[w].fence = run[w].fence
             /\ run'[w].outcome = x
  BY <1>1 DEF Remember, Run
<1>2. ASSUME Remember(w, "fence", x), x \in 0..MaxFence
      PROVE  /\ run' \in [Worker -> Run] /\ run' = [run EXCEPT ![w] = run'[w]]
             /\ run'[w].msg = run[w].msg /\ run'[w].receipt = run[w].receipt
             /\ run'[w].copy = run[w].copy /\ run'[w].fence = x
             /\ run'[w].outcome = run[w].outcome
  BY <1>2 DEF Remember, Run
<1>3. ASSUME Remember(w, "copy", x), x \in JobItem
      PROVE  /\ run' \in [Worker -> Run] /\ run' = [run EXCEPT ![w] = run'[w]]
             /\ run'[w].msg = run[w].msg /\ run'[w].receipt = run[w].receipt
             /\ run'[w].copy = x /\ run'[w].fence = run[w].fence
             /\ run'[w].outcome = run[w].outcome
  BY <1>3 DEF Remember, Run
<1> QED
  BY <1>1, <1>2, <1>3

\* The saves of the two handlers, and of a reused result.
Failure(w) == [Pending EXCEPT !.status = "failed", !.fingerprinted = TRUE, !.fence = run[w].fence,
                              !.retryable = run[w].outcome = "failed"]
FailedCopy(w) == [run[w].copy EXCEPT !.status = "failed", !.retryable = run[w].outcome # "unready"]
Claimed(w) == [Pending EXCEPT !.status = "running", !.fingerprinted = TRUE, !.fence = run[w].fence]

\* The records a worker saves are job items, under the token of the delivery or of the copy.
LEMMA SavedTyped ==
  ASSUME WorkersOK, NEW w \in Worker
  PROVE  /\ Failure(w) \in JobItem /\ Failure(w).status = "failed"
         /\ Failure(w).fence = run[w].fence
         /\ FailedCopy(w) \in JobItem /\ FailedCopy(w).status = "failed"
         /\ FailedCopy(w).fence = run[w].copy.fence
         /\ Claimed(w) \in JobItem /\ Claimed(w).status = "running"
         /\ Claimed(w).fence = run[w].fence
<1>1. run[w].fence \in 0..MaxFence /\ run[w].copy \in JobItem
  BY DEF WorkersOK, Run
<1>2. Pending \in JobItem
  BY DEF Pending, JobItem
<1> DEFINE again == (run[w].outcome = "failed")
           retry == (run[w].outcome # "unready")
<1>3. again \in BOOLEAN /\ retry \in BOOLEAN
  OBVIOUS
<1>4. /\ Failure(w) = [Pending EXCEPT !.status = "failed", !.fingerprinted = TRUE,
                                      !.fence = run[w].fence, !.retryable = again]
      /\ FailedCopy(w) = [run[w].copy EXCEPT !.status = "failed", !.retryable = retry]
  BY DEF Failure, FailedCopy
<1> HIDE DEF again, retry
<1>5. /\ Failure(w) \in JobItem /\ Failure(w).status = "failed"
      /\ Failure(w).fence = run[w].fence
  BY <1>1, <1>2, <1>3, <1>4 DEF JobItem
<1>6. /\ FailedCopy(w) \in JobItem /\ FailedCopy(w).status = "failed"
      /\ FailedCopy(w).fence = run[w].copy.fence
  BY <1>1, <1>3, <1>4 DEF JobItem
<1>7. /\ Claimed(w) \in JobItem /\ Claimed(w).status = "running"
      /\ Claimed(w).fence = run[w].fence
  BY <1>1, <1>2 DEF JobItem, Claimed
<1> QED
  BY <1>5, <1>6, <1>7

\* What a save does, when it takes effect.
LEMMA SaveTyped ==
  ASSUME RecordsOK, NEW j \in Job, NEW new \in JobItem, new.status \in {"succeeded", "failed"},
         SaveTakesEffect(j, new)
  PROVE  /\ RecordsOK'
         /\ jobs'[j] = new /\ \A i \in Job : i # j => jobs'[i] = jobs[i]
         /\ new.fence = 0 => marker' = marker
         /\ new.fence # 0 => /\ marker' = [job |-> j, fence |-> new.fence, status |-> new.status]
                             /\ marker'.job = j /\ marker'.status = new.status
                             /\ Accepts(j, new)
<1>1. new.fence \in 0..MaxFence
  BY DEF JobItem
<1> QED
  BY <1>1 DEF RecordsOK, SaveTakesEffect, Marker

\* The calls that write the records.
Claims(w) ==
    /\ pc[w] = "claim" /\ Claimable(J(w), run[w].fence) /\ MarkerFree(run[w].fence)
    /\ jobs' = [jobs EXCEPT ![J(w)] = Claimed(w)]
    /\ marker' = [job |-> J(w), fence |-> run[w].fence, status |-> "running"]
Publishes(w) ==
    /\ pc[w] = "publish" /\ Activatable(w)
    /\ jobs' = [jobs EXCEPT ![J(w)].status = "succeeded",
                            ![J(w)].gen = [job |-> J(w), fence |-> run[w].fence]]
    /\ marker' = [marker EXCEPT !.status = "succeeded"]
Saves(w) ==
    \/ pc[w] = "conclude" /\ SaveTakesEffect(J(w), Failure(w))
    \/ pc[w] = "fail" /\ SaveTakesEffect(J(w), FailedCopy(w))
Reuses(w) == pc[w] = "reuse" /\ SaveTakesEffect(J(w), Reused(w))

\* The job records and the marker are written by these calls only.
LEMMA RecordsStep ==
  ASSUME [Next]_vars
  PROVE  \/ UNCHANGED <<jobs, marker>>
         \/ \E w \in Worker : Claims(w) \/ Publishes(w) \/ Saves(w) \/ Reuses(w)
<1>1. CASE UNCHANGED vars \/ LeaseExpires
  BY <1>1 DEF vars, LeaseExpires
<1>2. ASSUME NEW m \in Message, Queue(m) PROVE UNCHANGED <<jobs, marker>>
  BY <1>2 DEF Queue, BecomeVisible, DeadLetter
<1>3. ASSUME NEW w \in Worker, HeartbeatStops(w) \/ Crash(w) PROVE UNCHANGED <<jobs, marker>>
  BY <1>3 DEF HeartbeatStops, Crash
<1>4. ASSUME NEW w \in Worker, Step(w)
      PROVE  UNCHANGED <<jobs, marker>> \/ Claims(w) \/ Publishes(w) \/ Saves(w) \/ Reuses(w)
  <2>1. CASE Receive(w) \/ ReadJob(w) \/ Find(w) \/ Acquire(w) \/ Produce(w) \/ Release(w)
             \/ Reread(w) \/ Acknowledge(w)
    BY <2>1 DEF Receive, ReadJob, Find, Acquire, Produce, Release, Reread, Acknowledge
  <2>2. CASE Claim(w)
    BY <2>2 DEF Claim, Claims, Claimed
  <2>3. CASE Publish(w)
    BY <2>3 DEF Publish, Publishes
  <2>4. CASE RecordFailure(w)
    BY <2>4 DEF RecordFailure, Saves, Failure, SaveConflicts
  <2>5. CASE FailJob(w)
    BY <2>5 DEF FailJob, Saves, FailedCopy, SaveConflicts
  <2>6. CASE SaveReused(w)
    BY <2>6 DEF SaveReused, Reuses, SaveConflicts
  <2> QED
    BY <1>4, <2>1, <2>2, <2>3, <2>4, <2>5, <2>6 DEF Step
<1> QED
  BY <1>1, <1>2, <1>3, <1>4 DEF Next

-----------------------------------------------------------------------------
(* What the writes do to a success                                         *)

\* The parts of the inductive invariant the records rest on.
Grounded == /\ TypeOK /\ Delivering /\ RunningFenced /\ MarkerGrounded /\ ReusedElsewhere
            /\ FailsFenced /\ Unready /\ AliasesGrounded

\* A claim takes no success over.
LEMMA ClaimSpares ==
  ASSUME Grounded, NEW w \in Worker, Claims(w)
  PROVE  /\ RecordsOK' /\ J(w) \in Job
         /\ marker.status # "succeeded"
         /\ marker'.job = J(w) /\ marker'.status = "running"
         /\ jobs'[J(w)].status = "running" /\ jobs'[J(w)].fence # 0
         /\ \A j \in Job : j # J(w) => jobs'[j] = jobs[j]
<1> RecordsOK /\ WorkersOK /\ J(w) \in Job
  BY Typed DEF Grounded, Delivering, Claims, J
<1>1. run[w].fence \in 0..MaxFence /\ run[w].fence # 0
  BY DEF WorkersOK, Run, Grounded, Delivering, Claims, Leased
<1>2. Claimed(w) \in JobItem /\ Claimed(w).status = "running" /\ Claimed(w).fence = run[w].fence
  BY SavedTyped
<1>3. marker' \in Marker
  BY <1>1 DEF Claims, Marker
<1> QED
  BY <1>1, <1>2, <1>3 DEF Claims, MarkerFree, RecordsOK

\* A publication makes the marker and the job of its execution report the generation.
LEMMA PublicationGrounds ==
  ASSUME Grounded, NEW w \in Worker, Publishes(w)
  PROVE  /\ RecordsOK' /\ J(w) \in Job
         /\ marker.status = "running" /\ marker.job = J(w)
         /\ marker'.job = J(w) /\ marker'.status = "succeeded"
         /\ jobs'[J(w)].status = "succeeded"
         /\ jobs'[J(w)].gen = [job |-> marker'.job, fence |-> marker'.fence]
         /\ \A j \in Job : j # J(w) => jobs'[j] = jobs[j]
<1> RecordsOK /\ WorkersOK /\ J(w) \in Job
  BY Typed DEF Grounded, Delivering, Publishes, J
<1>1. run[w].fence \in 1..MaxFence
  BY DEF WorkersOK, Run, Grounded, Delivering, Publishes, Leased
<1>2. marker.status = "running" /\ marker.job = J(w) /\ marker.fence = run[w].fence
  BY DEF Publishes, Activatable
<1>3. /\ marker' \in Marker /\ marker'.job = J(w) /\ marker'.fence = run[w].fence
      /\ marker'.status = "succeeded"
  BY <1>2 DEF Publishes, RecordsOK, Marker
<1> DEFINE g == [job |-> J(w), fence |-> run[w].fence]
<1>4. g \in Gen \cup {NoGen}
  BY <1>1 DEF Gen
<1>5. /\ jobs' \in [Job -> JobItem]
      /\ jobs'[J(w)].status = "succeeded" /\ jobs'[J(w)].gen = g
      /\ \A j \in Job : j # J(w) => jobs'[j] = jobs[j]
  <2>1. jobs[J(w)] \in JobItem
    BY DEF RecordsOK
  <2> DEFINE new == [jobs[J(w)] EXCEPT !.status = "succeeded", !.gen = g]
  <2>2. new \in JobItem /\ new.status = "succeeded" /\ new.gen = g
    BY <1>4, <2>1 DEF JobItem
  <2>3. jobs' = [jobs EXCEPT ![J(w)] = new]
    BY DEF Publishes, RecordsOK
  <2> HIDE DEF new
  <2> QED
    BY <2>2, <2>3 DEF RecordsOK
<1> QED
  BY <1>2, <1>3, <1>5 DEF RecordsOK

\* A failure is saved of no published fingerprint: under a token the marker would
\* have to be of this execution, and without one nothing was published.
LEMMA FailureSpares ==
  ASSUME Grounded, NEW w \in Worker, Saves(w)
  PROVE  /\ RecordsOK' /\ J(w) \in Job
         /\ marker.status # "succeeded"
         /\ marker' = marker \/ (marker'.job = J(w) /\ marker'.status = "failed")
         /\ jobs'[J(w)].status = "failed"
         /\ \A j \in Job : j # J(w) => jobs'[j] = jobs[j]
<1> RecordsOK /\ WorkersOK /\ J(w) \in Job
  BY Typed DEF Grounded, Delivering, Saves, J
<1> /\ run[w].fence \in 0..MaxFence /\ run[w].copy \in JobItem
  BY DEF WorkersOK, Run
<1>1. PICK new \in JobItem :
        /\ new.status = "failed" /\ SaveTakesEffect(J(w), new)
        /\ new.fence = 0 => ~ready
  <2>1. CASE pc[w] = "conclude"
    <3>1. Failure(w) \in JobItem /\ Failure(w).status = "failed" /\ Failure(w).fence = run[w].fence
      BY SavedTyped
    <3>2. run[w].fence # 0 /\ SaveTakesEffect(J(w), Failure(w))
      BY <2>1 DEF Grounded, Delivering, Leased, Saves
    <3> QED
      BY <3>1, <3>2
  <2>2. CASE pc[w] = "fail"
    <3>1. /\ FailedCopy(w) \in JobItem /\ FailedCopy(w).status = "failed"
          /\ FailedCopy(w).fence = run[w].copy.fence
      BY SavedTyped
    <3>2. SaveTakesEffect(J(w), FailedCopy(w)) /\ (run[w].copy.fence = 0 => ~ready)
      BY <2>2 DEF Grounded, FailsFenced, Saves
    <3> QED
      BY <3>1, <3>2
  <2> QED
    BY <2>1, <2>2 DEF Saves
<1>2. /\ RecordsOK' /\ jobs'[J(w)] = new /\ \A j \in Job : j # J(w) => jobs'[j] = jobs[j]
      /\ new.fence = 0 => marker' = marker
      /\ new.fence # 0 => marker'.job = J(w) /\ marker'.status = "failed" /\ Accepts(J(w), new)
  BY <1>1, SaveTyped
<1>3. marker.status # "succeeded"
  BY <1>1, <1>2 DEF Accepts, Grounded, Unready
<1> QED
  BY <1>1, <1>2, <1>3

\* A result is reused by a job without a token only, and the marker and its job stay.
LEMMA ReuseGrounded ==
  ASSUME Grounded, NEW w \in Worker, Reuses(w)
  PROVE  /\ RecordsOK' /\ J(w) \in Job
         /\ marker.status = "succeeded" /\ marker.job # J(w) /\ marker' = marker
         /\ jobs'[J(w)].status = "succeeded" /\ jobs'[J(w)].gen = jobs[marker.job].gen
         /\ \A j \in Job : j # J(w) => jobs'[j] = jobs[j]
<1> RecordsOK /\ WorkersOK /\ J(w) \in Job
  BY Typed DEF Grounded, Delivering, Reuses, J
<1>1. marker.status = "succeeded" /\ marker.job # J(w) /\ marker.job \in Job
  BY DEF Grounded, ReusedElsewhere, MarkerGrounded, Reuses
<1>2. /\ Reused(w) \in JobItem /\ Reused(w).status = "succeeded"
      /\ Reused(w).gen = jobs[marker.job].gen
  <2>1. run[w].copy \in JobItem /\ jobs[marker.job].gen \in Gen \cup {NoGen}
    BY <1>1 DEF WorkersOK, Run, RecordsOK, JobItem
  <2> DEFINE copy == run[w].copy
             g == jobs[marker.job].gen
  <2>2. Reused(w) = [copy EXCEPT !.status = "succeeded", !.retryable = FALSE,
                                 !.fingerprinted = TRUE, !.gen = g]
    BY DEF Reused
  <2>3. copy \in JobItem /\ g \in Gen \cup {NoGen}
    BY <2>1
  <2> HIDE DEF copy, g
  <2>4. /\ Reused(w) \in JobItem /\ Reused(w).status = "succeeded" /\ Reused(w).gen = g
    BY <2>2, <2>3 DEF JobItem
  <2> QED
    BY <2>4 DEF g
<1>3. SaveTakesEffect(J(w), Reused(w))
  BY DEF Reuses
<1>4. Reused(w).fence = 0
  BY <1>1, <1>2, <1>3, SaveTyped DEF Accepts
<1> QED
  BY <1>1, <1>2, <1>3, <1>4, SaveTyped

-----------------------------------------------------------------------------
(* The moves of a worker                                                   *)

Moves(w) == Step(w) \/ HeartbeatStops(w) \/ Crash(w)

\* What a move does to the worker's own state: its message and its token stay, and each
\* call is reached from the calls before it only.
Delivered(w) ==
    pc'[w] # "idle" =>
      \/ Receive(w) /\ pc'[w] = "read" /\ run'[w].msg \in Message
      \/ /\ pc[w] # "idle" /\ pc'[w] # "read"
         /\ run'[w].msg = run[w].msg /\ run'[w].receipt = run[w].receipt
Fenced(w) ==
    pc'[w] \in Leased =>
      \/ pc'[w] = "claim" /\ run'[w].fence # 0
      \/ pc[w] \in Leased /\ run'[w].fence = run[w].fence
Reached(w) ==
    /\ pc'[w] = "find" => pc[w] = "read"
    /\ pc'[w] = "acquire" => ready
    /\ pc'[w] = "claim" => pc[w] = "acquire"
    /\ pc'[w] = "produce" => Claims(w)
    /\ pc'[w] = "publish" => pc[w] = "produce"
    /\ pc'[w] = "conclude" => pc[w] \in {"produce", "publish"} /\ run'[w].outcome \in {"failed", "rejected"}
    /\ pc'[w] = "release" =>
         /\ pc[w] \in {"claim", "produce", "publish", "conclude"}
         /\ run'[w].outcome = "published" => Publishes(w)
         /\ run'[w].outcome \in {"failed", "rejected"} => pc[w] = "conclude"
         /\ run'[w].outcome = "reused" => CanonicalSucceeded /\ UNCHANGED <<jobs, marker>>
    /\ pc'[w] = "reread" => pc[w] = "release" /\ run[w].outcome \in {"failed", "rejected"}
    /\ pc'[w] = "fail" =>
         \/ ~ready
         \/ /\ pc[w] = "reread" /\ jobs[J(w)].status \in {"pending", "running"}
            /\ run'[w].copy = jobs[J(w)]
    /\ pc'[w] = "reuse" =>
         /\ marker.job # J(w) /\ UNCHANGED <<jobs, marker>>
         /\ CanonicalSucceeded \/ (pc[w] = "release" /\ run[w].outcome = "reused")
Moved(w) ==
    /\ pc' = [pc EXCEPT ![w] = pc'[w]] /\ pc' \in [Worker -> Place]
    /\ run' = [run EXCEPT ![w] = run'[w]] /\ run' \in [Worker -> Run]
    /\ Delivered(w) /\ Fenced(w) /\ Reached(w)

\* The worker goes on without touching what it remembers.
LEMMA WentOn ==
  ASSUME WorkersOK, NEW w \in Worker, NEW place \in Place, Goto(w, place)
  PROVE  /\ pc' = [pc EXCEPT ![w] = pc'[w]] /\ pc' \in [Worker -> Place] /\ pc'[w] = place
         /\ run' = run => run' = [run EXCEPT ![w] = run'[w]] /\ run' \in [Worker -> Run]
BY DEF WorkersOK, Goto

LEMMA NoRunTyped == NoRun \in Run /\ Pending \in JobItem
<1>1. Pending \in JobItem
  BY DEF Pending, JobItem
<1>2. 0 \in 0..MaxFence /\ 0 \in 0..MaxReceives
  OBVIOUS
<1> QED
  BY <1>1, <1>2 DEF NoRun, Run, Outcome

\* A delivery that is left is forgotten.
LEMMA LeftMoved ==
  ASSUME WorkersOK, NEW w \in Worker, Leave(w)
  PROVE  pc'[w] = "idle" /\ run'[w] = NoRun /\ Moved(w)
<1>1. pc' = [pc EXCEPT ![w] = pc'[w]] /\ pc' \in [Worker -> Place] /\ pc'[w] = "idle"
  BY WentOn DEF Leave, Place
<1>2. run' = [run EXCEPT ![w] = run'[w]] /\ run' \in [Worker -> Run] /\ run'[w] = NoRun
  BY NoRunTyped DEF Leave, WorkersOK
<1> QED
  BY <1>1, <1>2 DEF Moved, Delivered, Fenced, Reached, Leased

\* The moves, one per call.
LEMMA ReceiveMoved ==
  ASSUME TypeOK, NEW w \in Worker, Receive(w) PROVE Moved(w)
<1> WorkersOK /\ OthersOK
  BY Typed
<1>1. pc' = [pc EXCEPT ![w] = pc'[w]] /\ pc' \in [Worker -> Place] /\ pc'[w] = "read"
  BY WentOn DEF Receive, Place
<1>2. PICK m \in Message :
        /\ msgs[m].receives < MaxReceives
        /\ run' = [run EXCEPT ![w] = [NoRun EXCEPT !.msg = m, !.receipt = msgs[m].receives + 1]]
  BY DEF Receive, Deliverable
<1> DEFINE r == [NoRun EXCEPT !.msg = m, !.receipt = msgs[m].receives + 1]
<1>3. r \in Run /\ r.msg = m
  <2>1. msgs[m].receives + 1 \in 0..MaxReceives
    BY <1>2 DEF OthersOK, MessageItem
  <2> QED
    BY <2>1, NoRunTyped DEF Run
<1>4. run' = [run EXCEPT ![w] = r]
  BY <1>2
<1> HIDE DEF r
<1>5. run' \in [Worker -> Run] /\ run' = [run EXCEPT ![w] = run'[w]] /\ run'[w].msg \in Message
  BY <1>3, <1>4 DEF WorkersOK
<1> QED
  BY <1>1, <1>5 DEF Moved, Delivered, Fenced, Reached, Leased

LEMMA ReadMoved ==
  ASSUME TypeOK, NEW w \in Worker, pc[w] # "idle" => run[w].msg \in Message,
         ReadJob(w) \/ Reread(w)
  PROVE  Moved(w)
<1> WorkersOK /\ RecordsOK
  BY Typed
<1> J(w) \in Job /\ jobs[J(w)] \in JobItem
  BY DEF J, RecordsOK, ReadJob, Reread
<1>1. CASE ReadJob(w)
  <2>1. /\ pc' = [pc EXCEPT ![w] = pc'[w]] /\ pc' \in [Worker -> Place]
        /\ pc'[w] \in {"ack", "find"}
    BY <1>1, WentOn DEF ReadJob, Place, Ingest
  <2>2. Remember(w, "copy", jobs[J(w)])
    BY <1>1 DEF ReadJob
  <2> QED
    BY <1>1, <2>1, <2>2, Remembered DEF ReadJob, Moved, Delivered, Fenced, Reached, Leased
<1>2. CASE Reread(w)
  <2>1. CASE /\ jobs[J(w)].status \in {"pending", "running"}
             /\ Remember(w, "copy", jobs[J(w)]) /\ Goto(w, "fail")
    <3>1. pc' = [pc EXCEPT ![w] = pc'[w]] /\ pc' \in [Worker -> Place] /\ pc'[w] = "fail"
      BY <2>1, WentOn DEF Place
    <3> QED
      BY <1>2, <2>1, <3>1, Remembered DEF Reread, Moved, Delivered, Fenced, Reached, Leased
  <2>2. CASE Leave(w)
    BY <2>2, LeftMoved
  <2>3. CASE Goto(w, "ack") /\ UNCHANGED run
    <3>1. pc' = [pc EXCEPT ![w] = pc'[w]] /\ pc' \in [Worker -> Place] /\ pc'[w] = "ack"
      BY <2>3, WentOn DEF Place
    <3> QED
      BY <1>2, <2>3, <3>1, WentOn DEF Reread, Moved, Delivered, Fenced, Reached, Leased
  <2> QED
    BY <1>2, <2>1, <2>2, <2>3 DEF Reread
<1> QED
  BY <1>1, <1>2

LEMMA FindMoved ==
  ASSUME TypeOK, NEW w \in Worker, Find(w) \/ Acquire(w) PROVE Moved(w)
<1> WorkersOK /\ OthersOK
  BY Typed
<1>1. CASE Find(w) /\ ~ready
  <2>1. pc' = [pc EXCEPT ![w] = pc'[w]] /\ pc' \in [Worker -> Place] /\ pc'[w] = "fail"
    BY <1>1, WentOn DEF Find, Place
  <2>2. Remember(w, "outcome", "unready") /\ "unready" \in Outcome
    BY <1>1 DEF Find, Outcome
  <2> QED
    BY <1>1, <2>1, <2>2, Remembered DEF Find, Moved, Delivered, Fenced, Reached, Leased
<1>2. CASE Find(w) /\ ready
  <2>1. /\ pc' = [pc EXCEPT ![w] = pc'[w]] /\ pc' \in [Worker -> Place] /\ run' = run
        /\ run' = [run EXCEPT ![w] = run'[w]] /\ run' \in [Worker -> Run]
        /\ pc'[w] \in {"ack", "reuse", "acquire"}
        /\ pc'[w] = "reuse" => CanonicalSucceeded /\ marker.job # J(w)
    BY <1>2, WentOn DEF Find, Place, Ingest
  <2> QED
    BY <1>2, <2>1 DEF Find, Moved, Delivered, Fenced, Reached, Leased
<1>3. CASE Acquire(w) /\ Leave(w)
  BY <1>3, LeftMoved
<1>4. CASE Acquire(w) /\ ~Leave(w)
  <2>1. pc' = [pc EXCEPT ![w] = pc'[w]] /\ pc' \in [Worker -> Place] /\ pc'[w] = "claim"
    BY <1>4, WentOn DEF Acquire, Place, Ingest, Leased
  <2>2. /\ lease.fence + 1 \in 0..MaxFence /\ lease.fence + 1 # 0
        /\ Remember(w, "fence", lease.fence + 1)
    BY <1>4 DEF Acquire, OthersOK, LeaseItem
  <2> QED
    BY <1>4, <2>1, <2>2, Remembered DEF Acquire, Moved, Delivered, Fenced, Reached, Leased
<1> QED
  BY <1>1, <1>2, <1>3, <1>4

\* The end of ingest().
LEMMA Concluded ==
  ASSUME WorkersOK, NEW w \in Worker, NEW outcome \in Outcome, Conclude(w, outcome)
  PROVE  /\ pc' = [pc EXCEPT ![w] = pc'[w]] /\ pc' \in [Worker -> Place] /\ pc'[w] = "release"
         /\ run' = [run EXCEPT ![w] = run'[w]] /\ run' \in [Worker -> Run]
         /\ run'[w].msg = run[w].msg /\ run'[w].receipt = run[w].receipt
         /\ run'[w].fence = run[w].fence /\ run'[w].outcome = outcome
BY WentOn, Remembered DEF Conclude, Place, Ingest, Leased

LEMMA ClaimMoved ==
  ASSUME TypeOK, NEW w \in Worker, Claim(w) PROVE Moved(w)
<1> WorkersOK
  BY Typed
<1>1. CASE Claims(w) /\ Goto(w, "produce") /\ UNCHANGED run
  <2>1. /\ pc' = [pc EXCEPT ![w] = pc'[w]] /\ pc' \in [Worker -> Place] /\ pc'[w] = "produce"
        /\ run' = [run EXCEPT ![w] = run'[w]] /\ run' \in [Worker -> Run] /\ run' = run
    BY <1>1, WentOn DEF Place, Ingest, Leased
  <2> QED
    BY <1>1, <2>1 DEF Claim, Moved, Delivered, Fenced, Reached, Leased
<1>2. CASE ~(Claims(w) /\ Goto(w, "produce") /\ UNCHANGED run)
  <2> DEFINE outcome == IF marker.status = "none" THEN "conflict"
                        ELSE IF CanonicalSucceeded THEN "reused" ELSE "busy"
  <2>1. Conclude(w, outcome) /\ UNCHANGED <<jobs, marker>>
    BY <1>2 DEF Claim, Claims, Claimed
  <2>2. /\ outcome \in Outcome /\ outcome \notin {"published", "failed", "rejected"}
        /\ outcome = "reused" => CanonicalSucceeded
    BY DEF Outcome
  <2> HIDE DEF outcome
  <2>3. /\ pc' = [pc EXCEPT ![w] = pc'[w]] /\ pc' \in [Worker -> Place] /\ pc'[w] = "release"
        /\ run' = [run EXCEPT ![w] = run'[w]] /\ run' \in [Worker -> Run]
        /\ run'[w].msg = run[w].msg /\ run'[w].receipt = run[w].receipt
        /\ run'[w].fence = run[w].fence /\ run'[w].outcome = outcome
    BY <2>1, <2>2, Concluded
  <2> QED
    BY <2>1, <2>2, <2>3 DEF Claim, Moved, Delivered, Fenced, Reached, Leased
<1> QED
  BY <1>1, <1>2

LEMMA ProduceMoved ==
  ASSUME TypeOK, NEW w \in Worker, Produce(w) PROVE Moved(w)
<1> WorkersOK
  BY Typed
<1>1. CASE Goto(w, "publish") /\ UNCHANGED run
  <2>1. /\ pc' = [pc EXCEPT ![w] = pc'[w]] /\ pc' \in [Worker -> Place] /\ pc'[w] = "publish"
        /\ run' = [run EXCEPT ![w] = run'[w]] /\ run' \in [Worker -> Run] /\ run' = run
    BY <1>1, WentOn DEF Place, Ingest, Leased
  <2> QED
    BY <1>1, <2>1 DEF Produce, Moved, Delivered, Fenced, Reached, Leased
<1>2. ASSUME NEW outcome \in {"failed", "rejected"}, Goto(w, "conclude"),
             Remember(w, "outcome", outcome)
      PROVE  Moved(w)
  <2>1. pc' = [pc EXCEPT ![w] = pc'[w]] /\ pc' \in [Worker -> Place] /\ pc'[w] = "conclude"
    BY <1>2, WentOn DEF Place, Ingest, Leased
  <2>2. outcome \in Outcome
    BY DEF Outcome
  <2> QED
    BY <1>2, <2>1, <2>2, Remembered DEF Produce, Moved, Delivered, Fenced, Reached, Leased
<1> QED
  BY <1>1, <1>2 DEF Produce

LEMMA PublishMoved ==
  ASSUME TypeOK, NEW w \in Worker, Publish(w) PROVE Moved(w)
<1> WorkersOK /\ "published" \in Outcome /\ "rejected" \in Outcome
  BY Typed DEF Outcome
<1>1. CASE Publishes(w) /\ Conclude(w, "published")
  BY <1>1, Concluded DEF Publish, Moved, Delivered, Fenced, Reached, Leased
<1>2. CASE Goto(w, "conclude") /\ Remember(w, "outcome", "rejected")
  <2>1. pc' = [pc EXCEPT ![w] = pc'[w]] /\ pc' \in [Worker -> Place] /\ pc'[w] = "conclude"
    BY <1>2, WentOn DEF Place, Ingest, Leased
  <2> QED
    BY <1>2, <2>1, Remembered DEF Publish, Moved, Delivered, Fenced, Reached, Leased
<1> QED
  BY <1>1, <1>2 DEF Publish, Publishes

LEMMA RecordFailureMoved ==
  ASSUME TypeOK, Delivering, NEW w \in Worker, RecordFailure(w) PROVE Moved(w)
<1> WorkersOK /\ "conflict" \in Outcome /\ run[w].outcome \in {"failed", "rejected"}
  BY Typed DEF Outcome, Delivering, RecordFailure
<1>1. CASE Goto(w, "release") /\ UNCHANGED run
  <2>1. /\ pc' = [pc EXCEPT ![w] = pc'[w]] /\ pc' \in [Worker -> Place] /\ pc'[w] = "release"
        /\ run' = [run EXCEPT ![w] = run'[w]] /\ run' \in [Worker -> Run] /\ run' = run
    BY <1>1, WentOn DEF Place, Ingest, Leased
  <2> QED
    BY <2>1 DEF RecordFailure, Moved, Delivered, Fenced, Reached, Leased
<1>2. CASE Conclude(w, "conflict")
  BY <1>2, Concluded DEF RecordFailure, Moved, Delivered, Fenced, Reached, Leased
<1> QED
  BY <1>1, <1>2 DEF RecordFailure

LEMMA ReleaseMoved ==
  ASSUME TypeOK, NEW w \in Worker, Release(w) PROVE Moved(w)
<1> WorkersOK
  BY Typed
<1>1. CASE Leave(w)
  BY <1>1, LeftMoved
<1>2. CASE ~Leave(w)
  <2>1. /\ After(w) \in {"ack", "reuse", "reread"}
        /\ After(w) = "reuse" => run[w].outcome = "reused" /\ marker.job # J(w)
        /\ After(w) = "reread" => run[w].outcome \in {"failed", "rejected"}
    BY <1>2 DEF Release, After
  <2>2. /\ pc' = [pc EXCEPT ![w] = pc'[w]] /\ pc' \in [Worker -> Place] /\ pc'[w] = After(w)
        /\ run' = [run EXCEPT ![w] = run'[w]] /\ run' \in [Worker -> Run] /\ run' = run
    BY <1>2, <2>1, WentOn DEF Release, Place
  <2> QED
    BY <1>2, <2>1, <2>2 DEF Release, Moved, Delivered, Fenced, Reached, Leased
<1> QED
  BY <1>1, <1>2

LEMMA SaveMoved ==
  ASSUME TypeOK, NEW w \in Worker, FailJob(w) \/ SaveReused(w) PROVE Moved(w)
<1> WorkersOK
  BY Typed
<1>1. CASE Leave(w)
  BY <1>1, LeftMoved
<1>2. CASE Goto(w, "ack") /\ UNCHANGED run
  <2>1. /\ pc' = [pc EXCEPT ![w] = pc'[w]] /\ pc' \in [Worker -> Place] /\ pc'[w] = "ack"
        /\ run' = [run EXCEPT ![w] = run'[w]] /\ run' \in [Worker -> Run] /\ run' = run
    BY <1>2, WentOn DEF Place
  <2> QED
    BY <1>2, <2>1 DEF FailJob, SaveReused, Moved, Delivered, Fenced, Reached, Leased
<1> QED
  BY <1>1, <1>2 DEF FailJob, SaveReused

LEMMA StoppedMoved ==
  ASSUME TypeOK, NEW w \in Worker, HeartbeatStops(w) \/ Crash(w) \/ Acknowledge(w) PROVE Moved(w)
<1> WorkersOK /\ "cancelled" \in Outcome
  BY Typed DEF Outcome
<1>1. CASE Leave(w)
  BY <1>1, LeftMoved
<1>2. CASE HeartbeatStops(w) /\ pc[w] # "acquire" /\ Conclude(w, "cancelled")
  BY <1>2, Concluded DEF HeartbeatStops, Moved, Delivered, Fenced, Reached, Leased
<1> QED
  BY <1>1, <1>2 DEF HeartbeatStops, Crash, Acknowledge

LEMMA MoveMoved ==
  ASSUME TypeOK, Delivering, NEW w \in Worker, Moves(w) PROVE Moved(w)
<1> pc[w] # "idle" => run[w].msg \in Message
  BY DEF Delivering
<1> QED
  BY ReceiveMoved, ReadMoved, FindMoved, ClaimMoved, ProduceMoved, PublishMoved,
     RecordFailureMoved, ReleaseMoved, SaveMoved, StoppedMoved DEF Moves, Step

\* A step is a move of one worker, or the workers stay.
LEMMA WorkersStep ==
  ASSUME TypeOK, Delivering, [Next]_vars
  PROVE  \/ pc' = pc /\ run' = run /\ UNCHANGED <<jobs, marker>>
         \/ \E w \in Worker : Moves(w) /\ Moved(w)
<1>1. CASE UNCHANGED vars \/ LeaseExpires
  BY <1>1 DEF vars, LeaseExpires
<1>2. ASSUME NEW m \in Message, Queue(m) PROVE pc' = pc /\ run' = run /\ UNCHANGED <<jobs, marker>>
  BY <1>2 DEF Queue, BecomeVisible, DeadLetter
<1> QED
  BY <1>1, <1>2, MoveMoved DEF Next, Moves

\* How one worker's state changes in a step.
LEMMA WorkerStep ==
  ASSUME TypeOK, Delivering, [Next]_vars, NEW w \in Worker
  PROVE  \/ pc'[w] = pc[w] /\ run'[w] = run[w]
         \/ Moves(w) /\ Delivered(w) /\ Fenced(w) /\ Reached(w)
<1> WorkersOK
  BY Typed
<1>1. ASSUME NEW v \in Worker, v # w, Moved(v) PROVE pc'[w] = pc[w] /\ run'[w] = run[w]
  BY <1>1 DEF Moved, WorkersOK
<1> QED
  BY <1>1, WorkersStep DEF Moved

-----------------------------------------------------------------------------
(* The inductive invariant                                                 *)

LEMMA SpendTyped ==
  ASSUME OthersOK, NEW fault, Spend(fault) PROVE budget' \in 0..MaxFaults
BY DEF OthersOK, Spend

LEMMA LeaseStep ==
  ASSUME TypeOK, Delivering, [Next]_vars PROVE lease' \in LeaseItem
<1> OthersOK /\ WorkersOK
  BY Typed
<1> lease \in LeaseItem /\ NoLease \in LeaseItem
  BY DEF OthersOK, NoLease, LeaseItem
<1>1. ASSUME NEW w \in Worker, Acquire(w) PROVE lease' \in LeaseItem
  <2>1. J(w) \in Job
    BY <1>1 DEF J, Delivering, Acquire
  <2>2. CASE lease.fence < MaxFence
    <3>1. lease.fence + 1 \in 0..MaxFence
      BY <2>2 DEF LeaseItem
    <3>2. [owner |-> J(w), execution |-> w, fence |-> lease.fence + 1, live |-> TRUE] \in LeaseItem
      BY <2>1, <3>1 DEF LeaseItem
    <3> QED
      BY <1>1, <3>2 DEF Acquire
  <2> QED
    BY <1>1, <2>2 DEF Acquire
<1>2. ASSUME NEW w \in Worker, Release(w) PROVE lease' \in LeaseItem
  BY <1>2 DEF Release
<1>3. ASSUME NEW w \in Worker, Step(w), ~Acquire(w), ~Release(w) PROVE lease' = lease
  BY <1>3 DEF Step, Receive, ReadJob, Find, Claim, Produce, Publish, RecordFailure, Reread,
     FailJob, SaveReused, Acknowledge
<1>4. ASSUME NEW w \in Worker, HeartbeatStops(w) \/ Crash(w) PROVE lease' = lease
  BY <1>4 DEF HeartbeatStops, Crash
<1>5. ASSUME NEW m \in Message, Queue(m) PROVE lease' = lease
  BY <1>5 DEF Queue, BecomeVisible, DeadLetter
<1>6. CASE UNCHANGED vars \/ LeaseExpires
  BY <1>6 DEF vars, LeaseExpires, LeaseItem
<1> QED
  BY <1>1, <1>2, <1>3, <1>4, <1>5, <1>6 DEF Next

LEMMA QueueStep ==
  ASSUME TypeOK, Delivering, [Next]_vars
  PROVE  ready' = ready /\ msgs' \in [Message -> MessageItem] /\ budget' \in 0..MaxFaults
<1> OthersOK /\ WorkersOK
  BY Typed
<1> msgs \in [Message -> MessageItem] /\ budget \in 0..MaxFaults
  BY DEF OthersOK
<1>1. ASSUME NEW w \in Worker, Receive(w)
      PROVE  ready' = ready /\ msgs' \in [Message -> MessageItem] /\ budget' = budget
  <2>1. ASSUME NEW m \in Message, msgs[m].receives < MaxReceives,
               msgs' = [msgs EXCEPT ![m] = [place |-> "flight", receives |-> @.receives + 1]]
        PROVE  msgs' \in [Message -> MessageItem]
    <3>1. msgs[m].receives + 1 \in 0..MaxReceives
      BY <2>1 DEF MessageItem
    <3> QED
      BY <2>1, <3>1 DEF MessageItem
  <2> QED
    BY <1>1, <2>1 DEF Receive, Deliverable
<1>2. ASSUME NEW w \in Worker, Acknowledge(w)
      PROVE  ready' = ready /\ msgs' \in [Message -> MessageItem] /\ budget' = budget
  <2>1. run[w].msg \in Message
    BY <1>2 DEF Delivering, Acknowledge
  <2> QED
    BY <1>2, <2>1 DEF Acknowledge, MessageItem
<1>3. ASSUME NEW w \in Worker, Step(w), ~Receive(w), ~Acknowledge(w)
      PROVE  ready' = ready /\ msgs' = msgs /\ budget' \in 0..MaxFaults
  BY <1>3, SpendTyped DEF Step, ReadJob, Find, Acquire, Claim, Produce, Publish, RecordFailure,
     Release, Reread, FailJob, SaveReused
<1>4. ASSUME NEW w \in Worker, HeartbeatStops(w) \/ Crash(w)
      PROVE  ready' = ready /\ msgs' = msgs /\ budget' \in 0..MaxFaults
  BY <1>4, SpendTyped DEF HeartbeatStops, Crash
<1>5. ASSUME NEW m \in Message, Queue(m)
      PROVE  ready' = ready /\ msgs' \in [Message -> MessageItem] /\ budget' \in 0..MaxFaults
  BY <1>5, SpendTyped DEF Queue, BecomeVisible, DeadLetter, MessageItem
<1>6. CASE UNCHANGED vars \/ LeaseExpires
  BY <1>6, SpendTyped DEF vars, LeaseExpires
<1> QED
  BY <1>1, <1>2, <1>3, <1>4, <1>5, <1>6 DEF Next

LEMMA TypeStep ==
  ASSUME Grounded, [Next]_vars PROVE TypeOK'
<1> RecordsOK /\ OthersOK /\ WorkersOK /\ TypeOK /\ Delivering
  BY Typed DEF Grounded
<1>1. RecordsOK'
  BY RecordsStep, ClaimSpares, PublicationGrounds, FailureSpares, ReuseGrounded DEF RecordsOK
<1>2. OthersOK'
  BY LeaseStep, QueueStep DEF OthersOK
<1>3. WorkersOK'
  BY WorkersStep DEF WorkersOK, Moved
<1>4. TypeOK' <=> RecordsOK' /\ OthersOK' /\ WorkersOK'
  BY DEF TypeOK, RecordsOK, OthersOK, WorkersOK, Marker, LeaseItem, MessageItem, Run
<1> QED
  BY <1>1, <1>2, <1>3, <1>4

\* A published marker stays, and so does the job it names.
LEMMA SuccessStays ==
  ASSUME Grounded, [Next]_vars, marker.status = "succeeded"
  PROVE  marker' = marker /\ jobs'[marker.job] = jobs[marker.job]
<1> marker.job \in Job
  BY DEF Grounded, MarkerGrounded
<1>1. ASSUME NEW w \in Worker, Claims(w) \/ Publishes(w) \/ Saves(w) PROVE FALSE
  BY <1>1, ClaimSpares, PublicationGrounds, FailureSpares
<1>2. ASSUME NEW w \in Worker, Reuses(w)
      PROVE  marker' = marker /\ jobs'[marker.job] = jobs[marker.job]
  BY <1>2, ReuseGrounded
<1> QED
  BY <1>1, <1>2, RecordsStep

\* A job that left PENDING never returns to it.
LEMMA LeftPendingStays ==
  ASSUME Grounded, [Next]_vars, NEW j \in Job
  PROVE  /\ jobs[j].status # "pending" => jobs'[j].status # "pending"
         /\ jobs'[j].status = "running" /\ jobs[j].status # "running" => jobs'[j].fence # 0
         /\ jobs'[j] = jobs[j] \/ jobs'[j].status # "running" \/ jobs'[j].fence # 0
<1>1. ASSUME NEW w \in Worker, Claims(w) \/ Publishes(w) \/ Saves(w) \/ Reuses(w)
      PROVE  /\ J(w) \in Job
             /\ \/ jobs'[J(w)].status \in {"succeeded", "failed"}
                \/ jobs'[J(w)].status = "running" /\ jobs'[J(w)].fence # 0
             /\ \A i \in Job : i # J(w) => jobs'[i] = jobs[i]
  BY <1>1, ClaimSpares, PublicationGrounds, FailureSpares, ReuseGrounded
<1> QED
  BY <1>1, RecordsStep

LEMMA DeliveringStep ==
  ASSUME TypeOK, Delivering, [Next]_vars PROVE Delivering'
<1> SUFFICES ASSUME NEW w \in Worker
             PROVE  /\ pc'[w] # "idle" => run'[w].msg \in Message
                    /\ pc'[w] \in Leased => run'[w].fence # 0
                    /\ pc'[w] = "conclude" => run'[w].outcome \in {"failed", "rejected"}
  BY DEF Delivering
<1> QED
  BY WorkerStep DEF Delivering, Delivered, Fenced, Reached

\* What a worker's job is does not change while it is at it.
LEMMA SameJob ==
  ASSUME TypeOK, Delivering, [Next]_vars, NEW w \in Worker, pc'[w] \notin {"idle", "read"}
  PROVE  J(w)' = J(w) /\ J(w) \in Job /\ pc[w] # "idle"
BY WorkerStep DEF Delivered, Delivering, J

LEMMA ClaimedStaysStep ==
  ASSUME Grounded, ClaimedStays, [Next]_vars PROVE ClaimedStays'
<1> TypeOK /\ Delivering
  BY DEF Grounded
<1> SUFFICES ASSUME NEW w \in Worker,
                    \/ pc'[w] \in {"produce", "publish", "conclude", "reread"}
                    \/ pc'[w] = "release" /\ run'[w].outcome \in {"published", "failed", "rejected"}
             PROVE  jobs'[J(w)'].status # "pending"
  BY DEF ClaimedStays
<1>1. J(w)' = J(w) /\ J(w) \in Job
  BY SameJob
<1>2. CASE Claims(w) \/ Publishes(w)
  BY <1>1, <1>2, ClaimSpares, PublicationGrounds
<1>3. CASE ~Claims(w) /\ ~Publishes(w)
  <2>1. \/ pc[w] \in {"produce", "publish", "conclude", "reread"}
        \/ pc[w] = "release" /\ run[w].outcome \in {"published", "failed", "rejected"}
    BY <1>3, WorkerStep DEF Reached
  <2> QED
    BY <1>1, <2>1, LeftPendingStays DEF ClaimedStays
<1> QED
  BY <1>2, <1>3

LEMMA ReusedElsewhereStep ==
  ASSUME Grounded, [Next]_vars PROVE ReusedElsewhere'
<1> TypeOK /\ Delivering /\ AliasesGrounded /\ MarkerGrounded /\ ReusedElsewhere
  BY DEF Grounded
<1>0. CanonicalSucceeded => marker.status = "succeeded"
  BY DEF CanonicalSucceeded, AliasesGrounded, MarkerGrounded
<1> SUFFICES ASSUME NEW w \in Worker
             PROVE  /\ pc'[w] = "reuse" \/ (pc'[w] = "release" /\ run'[w].outcome = "reused") =>
                         marker'.status = "succeeded"
                    /\ pc'[w] = "reuse" => marker'.job # J(w)'
  BY DEF ReusedElsewhere
<1>1. CASE pc'[w] = pc[w] /\ run'[w] = run[w]
  BY <1>1, SuccessStays DEF ReusedElsewhere, J
<1>2. CASE Moves(w) /\ Delivered(w) /\ Reached(w)
  <2>1. ASSUME pc'[w] = "reuse" PROVE marker'.status = "succeeded" /\ marker'.job # J(w)'
    BY <1>0, <1>2, <2>1, SameJob DEF Reached, ReusedElsewhere
  <2>2. ASSUME pc'[w] = "release", run'[w].outcome = "reused" PROVE marker'.status = "succeeded"
    BY <1>0, <1>2, <2>2 DEF Reached
  <2> QED
    BY <2>1, <2>2
<1> QED
  BY <1>1, <1>2, WorkerStep

LEMMA FailsFencedStep ==
  ASSUME Grounded, ClaimedStays, [Next]_vars PROVE FailsFenced'
<1> TypeOK /\ Delivering /\ RunningFenced /\ FailsFenced
  BY DEF Grounded
<1> SUFFICES ASSUME NEW w \in Worker, pc'[w] = "fail", ready' PROVE run'[w].copy.fence # 0
  BY DEF FailsFenced
<1>1. ready
  BY QueueStep
<1>2. CASE pc'[w] = pc[w] /\ run'[w] = run[w]
  BY <1>1, <1>2 DEF FailsFenced
<1>3. CASE Moves(w) /\ Reached(w)
  <2>1. /\ pc[w] = "reread" /\ jobs[J(w)].status \in {"pending", "running"}
        /\ run'[w].copy = jobs[J(w)]
    BY <1>1, <1>3 DEF Reached
  <2>2. J(w) \in Job
    BY <2>1 DEF Delivering, J
  <2> QED
    BY <2>1, <2>2 DEF ClaimedStays, RunningFenced
<1> QED
  BY <1>2, <1>3, WorkerStep

LEMMA UnreadyStep ==
  ASSUME Grounded, [Next]_vars PROVE Unready'
<1> TypeOK /\ Delivering /\ Unready /\ WorkersOK
  BY Typed DEF Grounded
<1> SUFFICES ASSUME ~ready
             PROVE  /\ marker'.status # "succeeded"
                    /\ \A w \in Worker : pc'[w] \in {"idle", "read", "find", "fail", "ack"}
  BY QueueStep DEF Unready
<1>1. marker'.status # "succeeded"
  <2>1. ASSUME NEW w \in Worker, Claims(w) \/ Publishes(w) \/ Reuses(w) PROVE FALSE
    BY <2>1 DEF Unready, Claims, Publishes, Reuses
  <2>2. ASSUME NEW w \in Worker, Saves(w) PROVE marker'.status # "succeeded"
    BY <2>2, FailureSpares
  <2> QED
    BY <2>1, <2>2, RecordsStep DEF Unready
<1>2. ASSUME NEW w \in Worker PROVE pc'[w] \in {"idle", "read", "find", "fail", "ack"}
  <2>1. pc[w] \in {"idle", "read", "find", "fail", "ack"} /\ marker.status # "succeeded"
    BY DEF Unready
  <2>2. CASE pc'[w] = pc[w]
    BY <2>1, <2>2
  <2>3. CASE Reached(w)
    <3>1. pc'[w] \in Place
      BY WorkersStep DEF Moved, WorkersOK
    <3>2. ~CanonicalSucceeded
      BY DEF CanonicalSucceeded, Grounded, AliasesGrounded, MarkerGrounded, Unready
    <3> QED
      BY <2>1, <2>3, <3>1, <3>2 DEF Reached, Claims, Place, Ingest, Leased
  <2> QED
    BY <2>2, <2>3, WorkerStep
<1> QED
  BY <1>1, <1>2

LEMMA SuccessStep ==
  ASSUME Grounded, [Next]_vars PROVE MarkerGrounded' /\ AliasesGrounded' /\ RunningFenced'
<1> MarkerGrounded /\ AliasesGrounded /\ RunningFenced
  BY DEF Grounded
<1>1. RunningFenced'
  BY LeftPendingStays DEF RunningFenced
<1>2. CASE UNCHANGED <<jobs, marker>>
  <2>1. jobs' = jobs /\ marker' = marker
    BY <1>2
  <2>2. MarkerGrounded'
    BY <2>1 DEF MarkerGrounded
  <2>3. AliasesGrounded'
    BY <2>1 DEF AliasesGrounded
  <2> QED
    BY <1>1, <2>2, <2>3
<1>3. ASSUME NEW w \in Worker, Claims(w) \/ Saves(w) PROVE MarkerGrounded' /\ AliasesGrounded'
  <2>1. /\ marker.status # "succeeded" /\ marker'.status # "succeeded"
        /\ marker' = marker \/ marker'.job \in Job
        /\ J(w) \in Job /\ jobs'[J(w)].status # "succeeded"
        /\ \A j \in Job : j # J(w) => jobs'[j] = jobs[j]
    BY <1>3, ClaimSpares, FailureSpares
  <2> QED
    BY <2>1 DEF MarkerGrounded, AliasesGrounded
<1>4. ASSUME NEW w \in Worker, Publishes(w) PROVE MarkerGrounded' /\ AliasesGrounded'
  <2>1. ASSUME NEW j \in Job, jobs'[j].status = "succeeded" PROVE j = J(w)
    BY <1>4, <2>1, PublicationGrounds DEF AliasesGrounded
  <2> QED
    BY <1>4, <2>1, PublicationGrounds DEF MarkerGrounded, AliasesGrounded
<1>5. ASSUME NEW w \in Worker, Reuses(w) PROVE MarkerGrounded' /\ AliasesGrounded'
  <2>1. marker' = marker /\ marker.status = "succeeded" /\ jobs'[marker.job] = jobs[marker.job]
    BY <1>5, ReuseGrounded, SuccessStays
  <2>2. ASSUME NEW j \in Job, jobs'[j].status = "succeeded"
        PROVE  jobs'[j].gen = [job |-> marker.job, fence |-> marker.fence]
    BY <1>5, <2>1, <2>2, ReuseGrounded DEF MarkerGrounded, AliasesGrounded
  <2> QED
    BY <2>1, <2>2 DEF MarkerGrounded, AliasesGrounded
<1> QED
  BY <1>1, <1>2, <1>3, <1>4, <1>5, RecordsStep

LEMMA InvariantInit == Init => IInv
<1> SUFFICES ASSUME Init PROVE IInv
  OBVIOUS
<1> USE DEF Init
<1>1. TypeOK
  <2>1. RecordsOK
    <3>1. 0 \in 0..MaxFence
      OBVIOUS
    <3> QED
      BY <3>1, NoRunTyped DEF RecordsOK, NoMarker, Marker
  <2>2. OthersOK
    <3>1. 0 \in 0..MaxFence /\ 0 \in 0..MaxReceives /\ MaxFaults \in 0..MaxFaults
      OBVIOUS
    <3> QED
      BY <3>1 DEF OthersOK, NoLease, LeaseItem, MessageItem
  <2>3. WorkersOK
    BY NoRunTyped DEF WorkersOK, Place
  <2> QED
    BY <2>1, <2>2, <2>3, Typed
<1>2. Delivering /\ ClaimedStays /\ ReusedElsewhere /\ FailsFenced
  BY DEF Delivering, ClaimedStays, ReusedElsewhere, FailsFenced, Leased
<1>3. RunningFenced /\ MarkerGrounded /\ Unready /\ AliasesGrounded
  BY DEF RunningFenced, MarkerGrounded, Unready, AliasesGrounded, Pending, NoMarker
<1> QED
  BY <1>1, <1>2, <1>3 DEF IInv

LEMMA InvariantStep == IInv /\ [Next]_vars => IInv'
<1> SUFFICES ASSUME IInv, [Next]_vars PROVE IInv'
  OBVIOUS
<1> Grounded /\ ClaimedStays /\ TypeOK /\ Delivering
  BY DEF IInv, Grounded
<1> QED
  BY TypeStep, DeliveringStep, SuccessStep, ClaimedStaysStep, ReusedElsewhereStep,
     FailsFencedStep, UnreadyStep DEF IInv

\* The job records keep their inductive invariant, whatever the workers, the queue
\* and the faults do.
THEOREM WorkerInvariant == Spec => []IInv
<1>1. Init => IInv
  BY InvariantInit
<1>2. IInv /\ [Next]_vars => IInv'
  BY InvariantStep
<1> QED
  BY <1>1, <1>2, PTL DEF Spec

\* run_once() keeps every record, message and delivery well formed.
THEOREM WorkerTypeCorrect == Spec => []TypeOK
<1>1. IInv => TypeOK
  BY DEF IInv
<1> QED
  BY <1>1, WorkerInvariant, PTL

\* A job never reports SUCCEEDED without the generation the marker's job published:
\* neither _save_reused_result nor a late save of another execution breaks it.
THEOREM AliasesAreGrounded == Spec => []AliasesGrounded
<1>1. IInv => AliasesGrounded
  BY DEF IInv
<1> QED
  BY <1>1, WorkerInvariant, PTL

\* A fingerprint is published once: no late save or activation of another execution
\* changes the marker of a published fingerprint or the job it names.
THEOREM FingerprintPublishedOnce == Spec => PublishedOnce
<1> DEFINE Step1 == marker.status = "succeeded" =>
                      marker' = marker /\ jobs'[marker.job] = jobs[marker.job]
<1>1. IInv /\ [Next]_vars => [Step1]_vars
  BY SuccessStays DEF IInv, Grounded
<1>2. PublishedOnce <=> [][Step1]_vars
  BY DEF PublishedOnce
<1> HIDE DEF Step1
<1> QED
  BY <1>1, <1>2, WorkerInvariant, PTL DEF Spec

-----------------------------------------------------------------------------
(* No job is forgotten while no message becomes visible under its worker   *)

\* A worker gets to its acknowledgement only when its job has ended.
LEMMA AcknowledgesEnded ==
  ASSUME IInv, PublishedStays, NEW w \in Worker, Moves(w), pc'[w] = "ack"
  PROVE  J(w) \in Job /\ jobs'[J(w)].status \in {"succeeded", "failed"}
<1> TypeOK /\ Delivering /\ Grounded /\ RecordsOK /\ WorkersOK
  BY Typed DEF IInv, Grounded
<1> Moved(w)
  BY MoveMoved
<1>1. pc[w] # "idle" /\ J(w) \in Job
  BY DEF Moved, Delivered, Delivering, J
<1>2. CASE ReadJob(w)
  <2>1. Settled(J(w)) /\ jobs' = jobs
    BY <1>2 DEF ReadJob, Goto, WorkersOK
  <2> QED
    BY <1>1, <2>1 DEF Settled
<1>3. CASE Find(w)
  <2>1. ready /\ CanonicalSucceeded /\ marker.job = J(w) /\ jobs' = jobs
    BY <1>3 DEF Find, Goto, WorkersOK
  <2> QED
    BY <1>1, <2>1 DEF CanonicalSucceeded
<1>4. CASE Release(w)
  <2>1. After(w) = "ack" /\ jobs' = jobs
    BY <1>4 DEF Release, Leave, Goto, WorkersOK
  <2>2. marker.status = "succeeded" /\ marker.job = J(w)
    BY <1>4, <2>1 DEF After, PublishedStays, IInv, ReusedElsewhere, Release
  <2> QED
    BY <1>1, <2>1, <2>2 DEF IInv, MarkerGrounded
<1>5. CASE Reread(w)
  <2>1. jobs[J(w)].status \in {"succeeded", "failed"} /\ jobs' = jobs
    BY <1>5 DEF Reread, Leave, Goto, WorkersOK
  <2> QED
    BY <1>1, <2>1
<1>6. CASE FailJob(w)
  <2>1. Saves(w)
    BY <1>6 DEF FailJob, Leave, Goto, WorkersOK, Saves, FailedCopy
  <2> QED
    BY <1>1, <2>1, FailureSpares
<1>7. CASE SaveReused(w)
  <2>1. Reuses(w)
    BY <1>7 DEF SaveReused, Leave, Goto, WorkersOK, Reuses
  <2> QED
    BY <1>1, <2>1, ReuseGrounded
<1>8. ASSUME Receive(w) \/ Acquire(w) \/ Claim(w) \/ Produce(w) \/ Publish(w) \/ RecordFailure(w)
             \/ Acknowledge(w) \/ HeartbeatStops(w) \/ Crash(w)
      PROVE  FALSE
  BY <1>8 DEF Receive, Acquire, Claim, Produce, Publish, RecordFailure, Acknowledge,
     HeartbeatStops, Crash, Leave, Conclude, Goto, WorkersOK
<1> QED
  BY <1>2, <1>3, <1>4, <1>5, <1>6, <1>7, <1>8 DEF Moves, Step

\* How one message changes while no message becomes visible under its worker: its worker
\* receives or acknowledges it, or no worker is at it.
LEMMA MessageStep ==
  ASSUME IInv, MessageHeld, "visible" \notin Faults, [Next]_vars, NEW m \in Message
  PROVE  \/ msgs'[m] = msgs[m]
         \/ \E w \in Worker : /\ Receive(w) /\ run'[w].msg = m /\ msgs[m].place = "queued"
                              /\ msgs'[m].place = "flight" /\ msgs'[m].receives = run'[w].receipt
         \/ \E w \in Worker : Acknowledge(w) /\ run[w].msg = m
         \/ /\ \A w \in Worker : pc[w] # "idle" => run[w].msg # m
            /\ pc' = pc /\ msgs'[m].place # "gone"
<1> TypeOK /\ Delivering /\ OthersOK /\ WorkersOK
  BY Typed DEF IInv
<1> msgs \in [Message -> MessageItem]
  BY DEF OthersOK
<1>1. ASSUME NEW w \in Worker, Receive(w), msgs'[m] # msgs[m]
      PROVE  /\ run'[w].msg = m /\ msgs[m].place = "queued"
             /\ msgs'[m].place = "flight" /\ msgs'[m].receives = run'[w].receipt
  <2>1. PICK k \in Message :
          /\ msgs[k].place = "queued"
          /\ msgs' = [msgs EXCEPT ![k] = [place |-> "flight", receives |-> msgs[k].receives + 1]]
          /\ run' = [run EXCEPT ![w] = [NoRun EXCEPT !.msg = k, !.receipt = msgs[k].receives + 1]]
    BY <1>1 DEF Receive, Deliverable
  <2>2. k = m
    BY <1>1, <2>1
  <2>3. run'[w] = [NoRun EXCEPT !.msg = m, !.receipt = msgs[m].receives + 1]
    BY <2>1, <2>2 DEF WorkersOK
  <2>4. run'[w].msg = m /\ run'[w].receipt = msgs[m].receives + 1
    BY <2>3, NoRunTyped DEF Run
  <2> QED
    BY <2>1, <2>2, <2>4
<1>2. ASSUME NEW w \in Worker, Acknowledge(w), msgs'[m] # msgs[m] PROVE run[w].msg = m
  BY <1>2 DEF Acknowledge
<1>3. ASSUME NEW w \in Worker, Step(w), ~Receive(w), ~Acknowledge(w) PROVE msgs' = msgs
  BY <1>3 DEF Step, ReadJob, Find, Acquire, Claim, Produce, Publish, RecordFailure,
     Release, Reread, FailJob, SaveReused
<1>4. ASSUME NEW w \in Worker, HeartbeatStops(w) \/ Crash(w) PROVE msgs' = msgs
  BY <1>4 DEF HeartbeatStops, Crash
<1>5. ASSUME NEW k \in Message, Queue(k), msgs'[m] # msgs[m]
      PROVE  /\ \A w \in Worker : pc[w] # "idle" => run[w].msg # m
             /\ pc' = pc /\ msgs'[m].place # "gone"
  <2>1. k = m /\ pc' = pc /\ msgs'[m].place # "gone"
    BY <1>5 DEF Queue, BecomeVisible, DeadLetter, MessageItem
  <2>2. ASSUME NEW w \in Worker, pc[w] # "idle", run[w].msg = m PROVE FALSE
    <3>1. msgs[m].place = "flight" /\ msgs[m].receives = run[w].receipt
      BY <2>2 DEF MessageHeld, ReceiptValid
    <3>2. Spend("visible")
      BY <1>5, <2>1, <2>2, <3>1 DEF Queue, BecomeVisible, DeadLetter
    <3> QED
      BY <3>2 DEF Spend
  <2> QED
    BY <2>1, <2>2
<1>6. CASE UNCHANGED vars \/ LeaseExpires
  BY <1>6 DEF vars, LeaseExpires
<1> QED
  BY <1>1, <1>2, <1>3, <1>4, <1>5, <1>6 DEF Next

LEMMA MessageHeldStep ==
  ASSUME IInv, MessageHeld, "visible" \notin Faults, [Next]_vars PROVE MessageHeld'
<1> TypeOK /\ Delivering /\ WorkersOK
  BY Typed DEF IInv
\* a worker that is at a message was at it before, or received it in this step
<1>1. ASSUME NEW w \in Worker, pc'[w] # "idle"
      PROVE  /\ run'[w].msg \in Message
             /\ \/ pc[w] # "idle" /\ run'[w].msg = run[w].msg /\ run'[w].receipt = run[w].receipt
                \/ Receive(w)
  BY <1>1, WorkerStep, DeliveringStep DEF Delivered, Delivering
<1>2. ASSUME NEW w \in Worker, Receive(w)
      PROVE  /\ msgs[run'[w].msg].place = "queued" /\ msgs'[run'[w].msg].place = "flight"
             /\ msgs'[run'[w].msg].receives = run'[w].receipt
             /\ \A v \in Worker : v # w => pc'[v] = pc[v] /\ run'[v] = run[v]
  <2>1. Moved(w) /\ pc'[w] # "idle" /\ run'[w].msg \in Message
    BY <1>1, <1>2, MoveMoved DEF Moves, Step, Receive, Goto, WorkersOK
  <2>2. PICK k \in Message : /\ msgs[k].place = "queued"
                             /\ msgs' = [msgs EXCEPT ![k] = [place |-> "flight", receives |-> msgs[k].receives + 1]]
                             /\ run' = [run EXCEPT ![w] = [NoRun EXCEPT !.msg = k, !.receipt = msgs[k].receives + 1]]
    BY <1>2 DEF Receive, Deliverable
  <2>3. run'[w] = [NoRun EXCEPT !.msg = k, !.receipt = msgs[k].receives + 1]
    BY <2>2 DEF WorkersOK
  <2>4. run'[w].msg = k /\ run'[w].receipt = msgs[k].receives + 1
    BY <2>3, NoRunTyped DEF Run
  <2>5. msgs'[k] = [place |-> "flight", receives |-> msgs[k].receives + 1]
    BY <2>2, Typed DEF OthersOK
  <2> QED
    BY <2>1, <2>2, <2>4, <2>5 DEF Moved, WorkersOK
<1>3. ASSUME NEW w \in Worker, pc'[w] # "idle" PROVE ReceiptValid(w)'
  <2>1. CASE Receive(w)
    BY <1>2, <2>1 DEF ReceiptValid
  <2>2. CASE ~Receive(w)
    <3> DEFINE m == run[w].msg
    <3>1. /\ pc[w] # "idle" /\ run'[w].msg = m /\ run'[w].receipt = run[w].receipt
          /\ m \in Message
      BY <1>1, <1>3, <2>2
    <3>2. msgs[m].place = "flight" /\ msgs[m].receives = run[w].receipt
      BY <3>1 DEF MessageHeld, ReceiptValid
    <3>3. ASSUME NEW v \in Worker, Acknowledge(v), run[v].msg = m PROVE FALSE
      <4>1. v = w
        BY <3>1, <3>3 DEF MessageHeld, Acknowledge
      <4> QED
        BY <1>3, <3>3, <4>1 DEF Acknowledge, Leave, Goto, WorkersOK
    <3>4. msgs'[m] = msgs[m]
      BY <3>1, <3>2, <3>3, MessageStep
    <3> QED
      BY <3>1, <3>2, <3>4 DEF ReceiptValid
  <2> QED
    BY <2>1, <2>2
<1>4. ASSUME NEW v \in Worker, NEW w \in Worker, pc'[v] # "idle", pc'[w] # "idle",
             run'[v].msg = run'[w].msg
      PROVE  v = w
  <2>1. ASSUME NEW x \in Worker, NEW y \in Worker, x # y, Receive(x), pc'[y] # "idle",
               run'[x].msg = run'[y].msg
        PROVE  FALSE
    <3>1. pc[y] # "idle" /\ run'[y].msg = run[y].msg /\ msgs[run'[x].msg].place = "queued"
      BY <1>2, <2>1
    <3> QED
      BY <2>1, <3>1 DEF MessageHeld, ReceiptValid
  <2> QED
    BY <1>1, <1>4, <2>1 DEF MessageHeld
<1> QED
  BY <1>3, <1>4 DEF MessageHeld

LEMMA PublishedStaysStep ==
  ASSUME IInv, PublishedStays, [Next]_vars PROVE PublishedStays'
<1> TypeOK /\ Delivering /\ Grounded
  BY DEF IInv, Grounded
<1> SUFFICES ASSUME NEW w \in Worker, pc'[w] = "release", run'[w].outcome = "published"
             PROVE  marker'.status = "succeeded" /\ marker'.job = J(w)'
  BY DEF PublishedStays
<1>1. J(w)' = J(w)
  BY SameJob
<1>2. CASE Publishes(w)
  BY <1>1, <1>2, PublicationGrounds
<1>3. CASE ~Publishes(w)
  <2>1. pc[w] = "release" /\ run[w].outcome = "published"
    BY <1>3, WorkerStep DEF Reached
  <2> QED
    BY <1>1, <2>1, SuccessStays DEF PublishedStays
<1> QED
  BY <1>2, <1>3

LEMMA EndedOrRemainingStep ==
  ASSUME IInv, HeldInv, "visible" \notin Faults, [Next]_vars PROVE EndedOrRemaining'
<1> TypeOK /\ Delivering /\ Grounded /\ MessageHeld /\ PublishedStays /\ WorkersOK
  BY Typed DEF IInv, Grounded, HeldInv
<1> SUFFICES ASSUME NEW m \in Message, ~Terminal(JobOf[m])'
             PROVE  \E k \in Message : /\ JobOf[k] = JobOf[m] /\ msgs'[k].place # "gone"
                                       /\ \A w \in Worker : pc'[w] = "ack" => run'[w].msg # k
  BY DEF EndedOrRemaining, Remaining
<1> DEFINE j == JobOf[m]
<1> j \in Job
  OBVIOUS
\* a job runs again by a claim, whose message remains
<1>1. CASE Terminal(j)
  <2>1. PICK w \in Worker : Claims(w) /\ J(w) = j
    BY <1>1, RecordsStep, ClaimSpares, PublicationGrounds, FailureSpares, ReuseGrounded DEF Terminal
  <2> DEFINE k == run[w].msg
  <2>2. k \in Message /\ JobOf[k] = j /\ pc[w] = "claim" /\ msgs[k].place = "flight"
    BY <2>1 DEF Delivering, Claims, J, MessageHeld, ReceiptValid
  <2>3. ASSUME NEW v \in Worker, Acknowledge(v) PROVE FALSE
    BY <2>1, <2>3, <1>1, ClaimSpares DEF Acknowledge, Terminal
  <2>4. msgs'[k].place # "gone"
    BY <2>2, <2>3, MessageStep
  <2>5. ASSUME NEW v \in Worker, pc'[v] = "ack" PROVE run'[v].msg # k
    <3>1. CASE pc'[v] = pc[v] /\ run'[v] = run[v]
      BY <2>2, <2>5, <3>1 DEF MessageHeld
    <3>2. CASE Moves(v)
      <4>1. J(v) \in Job /\ jobs'[J(v)].status \in {"succeeded", "failed"}
        BY <2>5, <3>2, AcknowledgesEnded DEF HeldInv
      <4>2. J(v)' = J(v)
        BY <2>5, SameJob
      <4> QED
        BY <2>2, <4>1, <4>2 DEF J, Terminal
    <3> QED
      BY <3>1, <3>2, WorkerStep
  <2> QED
    BY <2>2, <2>4, <2>5
\* the message of a job that has not ended remains: only an acknowledgement removes it
<1>2. CASE ~Terminal(j)
  <2>1. PICK k \in Message : /\ JobOf[k] = j /\ msgs[k].place # "gone"
                             /\ \A w \in Worker : pc[w] = "ack" => run[w].msg # k
    BY <1>2 DEF HeldInv, EndedOrRemaining, Remaining
  <2>2. msgs'[k].place # "gone"
    BY <2>1, MessageStep DEF Acknowledge
  <2>3. ASSUME NEW v \in Worker, pc'[v] = "ack" PROVE run'[v].msg # k
    <3>1. CASE pc'[v] = pc[v] /\ run'[v] = run[v]
      BY <2>1, <2>3, <3>1
    <3>2. CASE Moves(v)
      <4>1. J(v) \in Job /\ jobs'[J(v)].status \in {"succeeded", "failed"}
        BY <2>3, <3>2, AcknowledgesEnded DEF HeldInv
      <4>2. J(v)' = J(v)
        BY <2>3, SameJob
      <4> QED
        BY <2>1, <4>1, <4>2 DEF J, Terminal
    <3> QED
      BY <3>1, <3>2, WorkerStep
  <2> QED
    BY <2>1, <2>2, <2>3
<1> QED
  BY <1>1, <1>2

LEMMA HeldInit == Init => HeldInv
BY DEF Init, HeldInv, MessageHeld, PublishedStays, EndedOrRemaining, Remaining

\* A message is deleted only when nothing is left to do for its job, as long as no
\* message becomes visible while its worker is at it.
THEOREM NoJobIsForgotten ==
  ASSUME "visible" \notin Faults
  PROVE  Spec => []NoJobForgotten
<1>1. Init => HeldInv
  BY HeldInit
<1>2. IInv /\ HeldInv /\ [Next]_vars => HeldInv'
  <2>1. ASSUME IInv, HeldInv, [Next]_vars PROVE HeldInv'
    BY <2>1, MessageHeldStep, PublishedStaysStep, EndedOrRemainingStep DEF HeldInv
  <2> QED
    BY <2>1
<1>3. HeldInv => NoJobForgotten
  BY DEF HeldInv, EndedOrRemaining, Remaining, NoJobForgotten
<1> QED
  BY <1>1, <1>2, <1>3, WorkerInvariant, PTL DEF Spec

=============================================================================
