---------------------------- MODULE MCIngestion ----------------------------
EXTENDS Ingestion

CONSTANTS a1, a2, a3, j1, j2, j3, f1, f2, f3

\* Every job is delivered once.
OneEach == [a \in Attempt |-> CASE a = a1 -> j1 [] a = a2 -> j2 [] OTHER -> j3]

\* The first two deliveries are of one job.
TwoAndOne == [a \in Attempt |-> IF a \in {a1, a2} THEN j1 ELSE j2]

\* Each attempt has a job and a fingerprint of its own.
OwnJob == [a \in Attempt |-> IF a = a1 THEN j1 ELSE j2]
OwnFingerprint == [a \in Attempt |-> IF a = a1 THEN f1 ELSE f2]

\* A fingerprint for each of three attempts.
ThreeFingerprints == [a \in Attempt |-> CASE a = a1 -> f1 [] a = a2 -> f2 [] OTHER -> f3]

\* All deliveries are of one job.
OneJob == [a \in Attempt |-> j1]

\* One fingerprint, or one for the first two attempts and one for the third.
OneFingerprint == [a \in Attempt |-> f1]
TwoFingerprints == [a \in Attempt |-> IF a \in {a1, a2} THEN f1 ELSE f2]
=============================================================================
