----------------------------- MODULE MCOpQueue -----------------------------
(* Two hosts that share three nodes, so that a node can be pushed again      *)
(* while the other host still holds it as the head it loaded.                *)
EXTENDS OpQueue
CONSTANTS h1, h2, n1, n2, n3

TwoHosts == {h1, h2}
ThreeNodes == {n1, n2, n3}
=============================================================================
