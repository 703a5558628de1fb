------------------------------ MODULE MCWorker ------------------------------
EXTENDS Worker

CONSTANTS w1, w2, j1, j2

TwoMessages == 1..2
ThreeMessages == 1..3
OneEach == [m \in Message |-> IF m = 1 THEN j1 ELSE j2]

\* Two messages of one job, and one of another.
TwoAndOne == [m \in Message |-> IF m < 3 THEN j1 ELSE j2]
=============================================================================
