--------------------------- MODULE MCExecutorTests ---------------------------
(* The unit tests on three actions and the four mock authorities of       *)
(* setup(), each with the stake 2500 of its test committee.                *)
EXTENDS ExecutorTests

CONSTANTS x1, x2, x3, m0, m1, m2, m3

MCActions == {x1, x2, x3}

MCStake == [m \in {m0, m1, m2, m3} |-> 2500]
=============================================================================
