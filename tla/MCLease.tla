------------------------------ MODULE MCLease ------------------------------
EXTENDS Lease, TLC

CONSTANTS a1, a2, a3, a4, job, submit

\* Three deliveries of one job and one submission of the same document version.
SharedOwner == (a1 :> job) @@ (a2 :> job) @@ (a3 :> job) @@ (a4 :> submit)

\* The deliveries of the job are interchangeable.
Deliveries == Permutations({a1, a2, a3})
=============================================================================
