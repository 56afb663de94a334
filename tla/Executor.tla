------------------------------ MODULE Executor ------------------------------
(***************************************************************************)
(* What spn_thread_pool_executor_t promises its caller: a job given to       *)
(* submit is run once by some thread and then handed back once, by poll or   *)
(* try_poll, in no particular order.  A job that was handed back may be      *)
(* submitted again.  After a wait a finished job may be left in the pool.    *)
(***************************************************************************)
CONSTANT Jobs

VARIABLES
  status,   \* status[j]: "idle", "queued", "running" or "done"
  open      \* FALSE once the pool has been torn down

vars == <<status, open>>

Init == status = [j \in Jobs |-> "idle"] /\ open = TRUE

Move(j, from, to) ==
  /\ open
  /\ status[j] = from
  /\ status' = [status EXCEPT ![j] = to]
  /\ UNCHANGED open

Submit(j) == Move(j, "idle", "queued")
Start(j) == Move(j, "queued", "running")
Finish(j) == Move(j, "running", "done")
Return(j) == Move(j, "done", "idle")

(* The pool goes away only when nothing is queued or running.               *)
Close ==
  /\ open
  /\ \A j \in Jobs : status[j] \in {"idle", "done"}
  /\ open' = FALSE
  /\ UNCHANGED status

Next == Close \/ \E j \in Jobs : Submit(j) \/ Start(j) \/ Finish(j) \/ Return(j)

(* Safety alone, which DagRun's use of the executor and the pool both meet. *)
Safe == Init /\ [][Next]_vars

(* And every submitted job is run to its end.                               *)
Spec == Safe /\ \A j \in Jobs : WF_vars(Start(j)) /\ WF_vars(Finish(j))
=============================================================================
