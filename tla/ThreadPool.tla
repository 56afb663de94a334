----------------------------- MODULE ThreadPool -----------------------------
(***************************************************************************)
(* The thread pool (source/util/thread_pool/thread_pool.c): a mutex, two     *)
(* condition variables, a stack of queued and a stack of finished jobs.      *)
(*                                                                          *)
(* A critical section is one action: the mutex is never held across a        *)
(* blocking call, and sp_cv_wait gives it up and falls asleep in one step.   *)
(* The notifications come after the unlock, so they are actions of their     *)
(* own.  One client thread owns the pool, as in all the callers:             *)
(* spn_dag_run_executor polls, sync_packages and sync_indexes wait.          *)
(***************************************************************************)
EXTENDS Integers, Sequences, FiniteSets

CONSTANTS
  Workers,    \* the threads spn_thread_pool_init may start
  Client,     \* the thread that owns the pool
  Jobs,       \* the jobs it may submit, each at most once at a time
  NoJob,
  MaxSubmits  \* bound on the number of submissions

ASSUME PoolAssumption ==
  /\ Client \notin Workers /\ IsFiniteSet(Workers)
  /\ NoJob \notin Jobs
  /\ MaxSubmits \in Nat

Threads == Workers \cup {Client}

VARIABLES
  team,       \* the workers of this pool, pool->workers; {} in spn_dag_run
  pc,         \* where each thread is
  job,        \* the job a thread is running
  queue,      \* pool->queue
  done,       \* pool->done
  submitted,  \* pool->count.submitted
  completed,  \* pool->count.completed
  shutdown,   \* pool->shutdown
  held        \* the jobs the client has in the pool, by its own account

vars == <<team, pc, job, queue, done, submitted, completed, shutdown, held>>

Top(s) == s[Len(s)]
BugPop(s) == Tail(s)   \* mutant: drop the oldest job instead of the newest
Pop(s) == SubSeq(s, 1, Len(s) - 1)
Elements(s) == {s[i] : i \in DOMAIN s}
Go(t, where) == pc' = [pc EXCEPT ![t] = where]

(* spn_thread_pool_init: a pool is made with any number of workers, none    *)
(* included; a thread that is not started counts as exited.                 *)
Init ==
  /\ team \in SUBSET Workers
  /\ pc = [t \in Threads |-> IF t = Client THEN "idle"
                             ELSE IF t \in team THEN "check" ELSE "exited"]
  /\ job = [t \in Threads |-> NoJob]
  /\ queue = <<>> /\ done = <<>>
  /\ submitted = 0 /\ completed = 0
  /\ shutdown = FALSE
  /\ held = {}

-----------------------------------------------------------------------------
(* Where a thread goes on after spn_thread_pool_step.                       *)
AfterStep(t) == IF t = Client THEN "poll" ELSE "check"

(* spn_thread_pool_step, first critical section.                            *)
StepTake(t) ==
  /\ pc[t] = "step"
  /\ IF queue = <<>>
     THEN Go(t, AfterStep(t)) /\ UNCHANGED <<job, queue>>
     ELSE /\ job' = [job EXCEPT ![t] = Top(queue)]
          /\ queue' = Pop(queue)
          /\ Go(t, "run")
  /\ UNCHANGED <<team, done, submitted, completed, shutdown, held>>

(* The job's function returns; second critical section.                     *)
StepFinish(t) ==
  /\ pc[t] = "run"
  /\ done' = Append(done, job[t])
  /\ completed' = completed + 1
  /\ job' = [job EXCEPT ![t] = NoJob]
  /\ Go(t, "notify")
  /\ UNCHANGED <<team, queue, submitted, shutdown, held>>

Woken(p) == IF p = "poll_asleep" THEN "poll" ELSE IF p = "wait_asleep" THEN "wait" ELSE p

(* sp_cv_notify_all(&pool->signal.completed): only the client sleeps on it. *)
StepNotify(t) ==
  /\ pc[t] = "notify"
  /\ pc' = [u \in Threads |-> IF u = t THEN AfterStep(t) ELSE Woken(pc[u])]
  /\ UNCHANGED <<team, job, queue, done, submitted, completed, shutdown, held>>

(* Mutant: the worker tests the shutdown flag only before it sleeps.        *)
BugAfterCheck == IF queue = <<>> THEN "asleep" ELSE "step"

AfterCheck == IF shutdown THEN "exited" ELSE IF queue = <<>> THEN "asleep" ELSE "step"

(* pool_worker: the loop around sp_cv_wait, and the exit.                   *)
WorkerCheck(w) ==
  /\ pc[w] = "check"
  /\ Go(w, AfterCheck)
  /\ UNCHANGED <<team, job, queue, done, submitted, completed, shutdown, held>>

(* A condition variable may also wake a sleeper for no reason.              *)
SpuriousWake(t) ==
  /\ pc[t] \in {"asleep", "poll_asleep", "wait_asleep"}
  /\ Go(t, IF pc[t] = "asleep" THEN "check" ELSE Woken(pc[t]))
  /\ UNCHANGED <<team, job, queue, done, submitted, completed, shutdown, held>>

-----------------------------------------------------------------------------
(* pool_submit.                                                             *)
Submit(j) ==
  /\ pc[Client] = "idle"
  /\ j \notin held
  /\ submitted < MaxSubmits
  /\ queue' = Append(queue, j)
  /\ submitted' = submitted + 1
  /\ held' = held \cup {j}
  /\ Go(Client, "submit_notify")
  /\ UNCHANGED <<team, job, done, completed, shutdown>>

Asleep == {w \in Workers : pc[w] = "asleep"}

(* Mutant: signal the condition variable the client sleeps on.              *)
BugWakeOne == Go(Client, "idle")

(* sp_cv_notify_one wakes a sleeper if there is one.                        *)
WakeOne ==
  \/ Asleep = {} /\ Go(Client, "idle")
  \/ \E w \in Asleep : pc' = [pc EXCEPT ![Client] = "idle", ![w] = "check"]

SubmitNotify ==
  /\ pc[Client] = "submit_notify"
  /\ WakeOne
  /\ UNCHANGED <<team, job, queue, done, submitted, completed, shutdown, held>>

(* Hand the job on top of pool->done to the caller.                         *)
TakeDone ==
  /\ done # <<>>
  /\ done' = Pop(done)
  /\ held' = held \ {Top(done)}
  /\ Go(Client, "idle")
  /\ UNCHANGED <<team, job, queue, submitted, completed, shutdown>>

TryPoll == pc[Client] = "idle" /\ TakeDone

(* pool_poll; spn_dag_run_executor calls it only with jobs in the pool.     *)
PollCall ==
  /\ pc[Client] = "idle" /\ held # {}
  /\ Go(Client, "poll")
  /\ UNCHANGED <<team, job, queue, done, submitted, completed, shutdown, held>>

PollReturn == pc[Client] = "poll" /\ TakeDone

(* Without workers the caller runs a job itself.                            *)
PollBlock ==
  /\ pc[Client] = "poll" /\ done = <<>>
  /\ Go(Client, IF team # {} THEN "poll_asleep" ELSE "step")
  /\ UNCHANGED <<team, job, queue, done, submitted, completed, shutdown, held>>

(* spn_thread_pool_wait; its callers make a worker whenever there is a job. *)
WaitCall ==
  /\ pc[Client] = "idle" /\ team # {}
  /\ Go(Client, "wait")
  /\ UNCHANGED <<team, job, queue, done, submitted, completed, shutdown, held>>

(* Mutant: the comparison is the wrong one.                                 *)
BugWaitOver == completed <= submitted
WaitOver == completed = submitted

WaitCheck ==
  /\ pc[Client] = "wait"
  /\ Go(Client, IF WaitOver THEN "waited" ELSE "wait_asleep")
  /\ UNCHANGED <<team, job, queue, done, submitted, completed, shutdown, held>>

(* spn_thread_pool_deinit, from a caller that has its jobs back or waited.  *)
Deinit ==
  /\ pc[Client] = "waited" \/ (pc[Client] = "idle" /\ held = {})
  /\ shutdown' = TRUE
  /\ Go(Client, "deinit_notify")
  /\ UNCHANGED <<team, job, queue, done, submitted, completed, held>>

DeinitNotify ==
  /\ pc[Client] = "deinit_notify"
  /\ pc' = [t \in Threads |-> IF t = Client THEN "join"
                              ELSE IF t \in Asleep THEN "check" ELSE pc[t]]
  /\ UNCHANGED <<team, job, queue, done, submitted, completed, shutdown, held>>

Join ==
  /\ pc[Client] = "join"
  /\ \A w \in team : pc[w] = "exited"
  /\ Go(Client, "closed")
  /\ UNCHANGED <<team, job, queue, done, submitted, completed, shutdown, held>>

Closed == pc[Client] = "closed" /\ UNCHANGED vars

-----------------------------------------------------------------------------
Step(t) == StepTake(t) \/ StepFinish(t) \/ StepNotify(t)
WorkerStep(w) == WorkerCheck(w) \/ Step(w)

(* What the client does once it has made a call, and the calls it may make. *)
ClientStep == \/ SubmitNotify \/ PollReturn \/ PollBlock \/ WaitCheck
              \/ DeinitNotify \/ Join \/ Step(Client)
ClientCall == \/ TryPoll \/ PollCall \/ WaitCall \/ Deinit
              \/ \E j \in Jobs : Submit(j)

Next == \/ ClientStep \/ ClientCall \/ Closed
        \/ \E w \in Workers : WorkerStep(w)
        \/ \E t \in Threads : SpuriousWake(t)

(* A thread that can run does.  No call is ever due, and no condition       *)
(* variable is obliged to wake anyone without being notified.               *)
Fairness == WF_vars(ClientStep) /\ \A w \in Workers : WF_vars(WorkerStep(w))

Spec == Init /\ [][Next]_vars /\ Fairness

-----------------------------------------------------------------------------
WorkerPCs == {"check", "asleep", "step", "run", "notify", "exited"}
ClientPCs == {"idle", "submit_notify", "poll", "poll_asleep", "step", "run", "notify",
              "wait", "wait_asleep", "waited", "deinit_notify", "join", "closed"}

(* Every variable has the type of the field it models.                      *)
TypeOK ==
  /\ team \subseteq Workers
  /\ pc \in [Threads -> WorkerPCs \cup ClientPCs]
  /\ pc[Client] \in ClientPCs /\ \A w \in Workers : pc[w] \in WorkerPCs
  /\ job \in [Threads -> Jobs \cup {NoJob}]
  /\ queue \in Seq(Jobs) /\ done \in Seq(Jobs)
  /\ submitted \in Nat /\ completed \in Nat
  /\ shutdown \in BOOLEAN
  /\ held \subseteq Jobs

(* The workers on their way to the queue.                                   *)
Heading == {w \in Workers : pc[w] \in {"check", "step"}}

(* No wakeup is lost although pool_submit notifies after unlocking: while a *)
(* worker sleeps there are never more queued jobs than workers heading for  *)
(* the queue, counting the notification that is still to come.              *)
WorkConserving ==
  Asleep # {} => Len(queue) <= Cardinality(Heading)
                               + (IF pc[Client] = "submit_notify" THEN 1 ELSE 0)

(* Neither assertion of the code fires: pool_poll without workers finds a   *)
(* job to run, and spn_thread_pool_deinit finds the queue empty.            *)
AssertsHold ==
  /\ TypeOK
  /\ pc[Client] = "poll" /\ team = {} /\ done = <<>> => queue # <<>>
  /\ shutdown \/ pc[Client] = "waited" \/ (pc[Client] = "idle" /\ held = {}) => queue = <<>>

(* The pool is an Executor.                                                 *)
Status(j) ==
  IF j \in Elements(queue) THEN "queued"
  ELSE IF \E t \in Threads : pc[t] = "run" /\ job[t] = j THEN "running"
  ELSE IF j \in Elements(done) THEN "done" ELSE "idle"

Abstract == INSTANCE Executor WITH status <- [j \in Jobs |-> Status(j)],
                                   open <- ~shutdown

(* Every job submitted is run exactly once, by one thread, and handed back  *)
(* at most once, however the threads interleave; a pool without workers,    *)
(* which runs jobs inside pool_poll, included.                              *)
IsSafeExecutor == Abstract!Safe

(* Every call returns, whatever the other threads do meanwhile, and a pool  *)
(* with workers runs every submitted job even if the client never calls     *)
(* again.                                                                   *)
CallsReturn ==
  /\ pc[Client] \notin {"idle", "waited", "closed"} ~> pc[Client] \in {"idle", "waited", "closed"}
  /\ \A j \in Jobs : team # {} /\ Status(j) \in {"queued", "running"} ~> Status(j) = "done"
=============================================================================
