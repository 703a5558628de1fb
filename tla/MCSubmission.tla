---------------------------- MODULE MCSubmission ----------------------------
EXTENDS Submission

CONSTANTS r1, r2, k1, s1

\* Two requests with one idempotency key and the same upload session.
OneKey == [r \in Request |-> k1]
OneSession == [r \in Request |-> s1]
=============================================================================
