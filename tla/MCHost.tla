------------------------------- MODULE MCHost -------------------------------
(* Two operations, as spn test submits them, and two emitting threads.       *)
EXTENDS Host
CONSTANTS o1, o2, e1, e2

TwoOps == {o1, o2}
TwoEmitters == {e1, e2}
=============================================================================
