---------------------------- MODULE MCThreadPool ----------------------------
(* Instances of ThreadPool for model checking.  Workers and jobs are         *)
(* interchangeable, but symmetry is left off: liveness is checked.           *)
EXTENDS ThreadPool
CONSTANTS w1, w2, j1, j2, j3

TwoWorkers == {w1, w2}
ThreeJobs == {j1, j2, j3}
=============================================================================
