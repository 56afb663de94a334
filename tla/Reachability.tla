---------------------------- MODULE Reachability ----------------------------
(***************************************************************************)
(* What a work list that follows edges ends up with, whatever order it     *)
(* takes them in: the nodes that can be reached over a finite set E of     *)
(* edges <<from, to>> from a set S of nodes.                               *)
(***************************************************************************)
EXTENDS Naturals, FiniteSets

Follow(E, X) == X \cup {p[2] : p \in {q \in E : q[1] \in X}}

(* A round per edge is enough: each but the last passes an edge more.      *)
Reach(E, S) ==
  LET Round[n \in 0 .. Cardinality(E)] == IF n = 0 THEN S ELSE Follow(E, Round[n - 1])
  IN  Round[Cardinality(E)]
=============================================================================
