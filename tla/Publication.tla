---------------------------- MODULE Publication ----------------------------
(***************************************************************************)
(* What ingestion promises a reader of a document: the active generation   *)
(* changes in one atomic step together with the outcome of the job that    *)
(* built it, each fingerprint is published by one job only, an outcome is  *)
(* never withdrawn, and the fencing token of the active generation grows.  *)
(***************************************************************************)
EXTENDS Naturals

CONSTANTS Job, Gen, NoGen   \* a generation is a record [fp, job, fence]

VARIABLES active,   \* the generation the document points at
          outcome   \* the generation each succeeded job reports

Publish(g) ==
    /\ active.fence < g.fence
    /\ outcome[g.job] = NoGen
    /\ \A j \in Job : outcome[j].fp # g.fp
    /\ active' = g
    /\ outcome' = [outcome EXCEPT ![g.job] = g]

Init ==
    /\ active = NoGen
    /\ outcome = [j \in Job |-> NoGen]

Next == \E g \in Gen : Publish(g)

Spec == Init /\ [][Next]_<<active, outcome>>
=============================================================================
