-------------------------------- MODULE Fifo --------------------------------
(***************************************************************************)
(* What sp_queue_t promises: nodes come out in the order they went in, each  *)
(* once, and a consumer that keeps waiting gets every one of them.           *)
(***************************************************************************)
EXTENDS Sequences

CONSTANT Nodes

VARIABLE q

Init == q = <<>>

Push(n) == q' = Append(q, n)
Take == q # <<>> /\ q' = Tail(q)

Next == Take \/ \E n \in Nodes : Push(n)

(* No node is lost, doubled or overtaken.                                   *)
Safe == Init /\ [][Next]_q

(* And every one is taken.                                                  *)
Spec == Safe /\ WF_q(Take)
=============================================================================
