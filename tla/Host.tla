-------------------------------- MODULE Host --------------------------------
(***************************************************************************)
(* The command line host and the op thread: operations (core/op/op.c), the   *)
(* wake flag (core/core/core.c), the event buffer (core/event/event.c), the  *)
(* wait loop (cli/host/host.c) and the interrupt handler (cli/main.c).       *)
(*                                                                          *)
(* Four kinds of threads share an eventfd, the doorbell: the host waits on   *)
(* it; the op thread, the threads an operation runs on and the signal        *)
(* handler ring it.  To spare system calls a thread rings only if it is the  *)
(* one that raises the wake flag, which the host lowers when it has drained  *)
(* the events.  The queue of operations is the one OpQueue implements, with  *)
(* the NULL that a wake, or a late one, makes sp_queue_wait return.          *)
(***************************************************************************)
EXTENDS Integers, Sequences

CONSTANTS
  Ops,        \* the operations the host may submit
  NoOp,
  Emitters,   \* the threads that emit while an operation runs
  MaxEmits    \* bound on the number of events and progress steps

ASSUME HostAssumption == NoOp \notin Ops /\ MaxEmits \in Nat

VARIABLES
  host,       \* where the host thread is
  waiting,    \* the operation it waits for
  submitted,  \* the operations it has submitted
  queue,      \* ctx->ops.queue
  poked,      \* its poked flag
  running,    \* ctx->ops.running
  thread,     \* where the op thread is
  op,         \* the operation it runs
  cancelled,  \* the operations with op->cancelled
  done,       \* the operations with op->done
  result,     \* op->result.err
  error,      \* ctx->error
  emit,       \* where each emitter is: "idle", "ring" or "signal"
  events,     \* the number of events in the buffer
  progress,   \* the dag progress counter
  seen,       \* the progress the host last showed
  emits,      \* events and progress steps so far
  signaled,   \* wake->signaled
  doorbell,   \* host.doorbell
  granted,    \* tui.handoff.granted: events stay in the buffer until the end
  handler,    \* the signal handler: "armed", "signal" or "over"
  interrupted \* host.interrupted

ops == <<submitted, queue, poked, running>>
outcome == <<cancelled, done, result, error>>
output == <<events, progress, emits>>
vars == <<host, waiting, ops, thread, op, outcome, emit, output, seen, signaled,
          doorbell, granted, handler, interrupted>>

Init ==
  /\ host = "call" /\ waiting = NoOp /\ submitted = {}
  /\ queue = <<>> /\ poked = FALSE /\ running = TRUE
  /\ thread = "wait" /\ op = NoOp
  /\ cancelled = {} /\ done = {} /\ result = [o \in Ops |-> "none"] /\ error = "ok"
  /\ emit = [e \in Emitters |-> "idle"]
  /\ events = 0 /\ progress = 0 /\ seen = 0 /\ emits = 0
  /\ signaled = FALSE /\ doorbell = FALSE
  /\ granted = FALSE /\ handler = "armed" /\ interrupted = FALSE

-----------------------------------------------------------------------------
(* The op thread: op_thread.                                                *)

OpTake ==
  /\ thread = "wait" /\ queue # <<>>
  /\ op' = Head(queue) /\ queue' = Tail(queue)
  /\ thread' = "begin"
  /\ UNCHANGED <<host, waiting, submitted, poked, running, outcome, emit, output, seen,
                 signaled, doorbell, handler, interrupted, granted>>

(* sp_queue_wait returns NULL: it found poked raised after both pops, or    *)
(* the futex woke it early.                                                 *)
OpNull ==
  /\ thread = "wait"
  /\ poked \/ queue = <<>>
  /\ poked' \in {poked, FALSE}
  /\ thread' = IF running THEN "wait" ELSE "exited"
  /\ UNCHANGED <<host, waiting, submitted, queue, running, op, outcome, emit, output, seen,
                 signaled, doorbell, handler, interrupted, granted>>

OpBegin ==
  /\ thread = "begin"
  /\ IF op \in cancelled
     THEN result' = [result EXCEPT ![op] = "cancelled"] /\ thread' = "failed"
     ELSE UNCHANGED result /\ thread' = "work"
  /\ UNCHANGED <<host, waiting, ops, op, cancelled, done, error, emit, output, seen,
                 signaled, doorbell, handler, interrupted, granted>>

After(r) == IF r = "ok" THEN "publish" ELSE "failed"

(* The operation ends, its pool joined.  It may notice its cancellation.    *)
OpEnd ==
  /\ thread = "work"
  /\ \A e \in Emitters : emit[e] = "idle"
  /\ \E r \in {"ok", "failed"} \cup (IF op \in cancelled THEN {"cancelled"} ELSE {}) :
       /\ result' = [result EXCEPT ![op] = r]
       /\ thread' = After(r)
  /\ UNCHANGED <<host, waiting, ops, op, cancelled, done, error, emit, output, seen,
                 signaled, doorbell, handler, interrupted, granted>>

First(e) == IF error = "ok" THEN e ELSE error  \* compare-and-swap from zero

OpFailed ==
  /\ thread = "failed"
  /\ error' = First(result[op])
  /\ thread' = "publish"
  /\ UNCHANGED <<host, waiting, ops, op, cancelled, done, result, emit, output, seen,
                 signaled, doorbell, handler, interrupted, granted>>

OpPublish ==
  /\ thread = "publish"
  /\ done' = done \cup {op}
  /\ thread' = "pulse"
  /\ UNCHANGED <<host, waiting, ops, op, cancelled, result, error, emit, output, seen,
                 signaled, doorbell, handler, interrupted, granted>>

(* spn_wake_pulse rings without looking whether the flag is raised already. *)
BugPulse == thread' = IF signaled THEN "wait" ELSE "signal"  \* mutant: a ring instead
Pulse == thread' = "signal"

OpPulse ==
  /\ thread = "pulse"
  /\ Pulse
  /\ signaled' = TRUE
  /\ UNCHANGED <<host, waiting, ops, op, outcome, emit, output, seen, doorbell,
                 handler, interrupted, granted>>

OpSignal ==
  /\ thread = "signal"
  /\ doorbell' = TRUE
  /\ thread' = "wait"
  /\ UNCHANGED <<host, waiting, ops, op, outcome, emit, output, seen, signaled,
                 handler, interrupted, granted>>

-----------------------------------------------------------------------------
(* The threads of an operation: spn_event_buffer_push and progress_count.   *)

Emit(e) ==
  /\ thread = "work" /\ emit[e] = "idle" /\ emits < MaxEmits
  /\ emits' = emits + 1
  /\ \/ events' = events + 1 /\ UNCHANGED progress
     \/ progress' = progress + 1 /\ UNCHANGED events
  /\ emit' = [emit EXCEPT ![e] = "ring"]
  /\ UNCHANGED <<host, waiting, ops, thread, op, outcome, seen, signaled, doorbell,
                 handler, interrupted, granted>>

(* spn_wake_ring: only the thread that raises the flag calls wake->fn.      *)
Ring(e) ==
  /\ emit[e] = "ring"
  /\ emit' = [emit EXCEPT ![e] = IF signaled THEN "idle" ELSE "signal"]
  /\ signaled' = TRUE
  /\ UNCHANGED <<host, waiting, ops, thread, op, outcome, output, seen, doorbell,
                 handler, interrupted, granted>>

Signal(e) ==
  /\ emit[e] = "signal"
  /\ doorbell' = TRUE
  /\ emit' = [emit EXCEPT ![e] = "idle"]
  /\ UNCHANGED <<host, waiting, ops, thread, op, outcome, output, seen, signaled,
                 handler, interrupted, granted>>

(* on_signal.                                                               *)
Interrupt ==
  /\ handler = "armed"
  /\ interrupted' = TRUE /\ handler' = "signal"
  /\ UNCHANGED <<host, waiting, ops, thread, op, outcome, emit, output, seen, signaled, doorbell, granted>>

InterruptSignal ==
  /\ handler = "signal"
  /\ doorbell' = TRUE /\ handler' = "over"
  /\ UNCHANGED <<host, waiting, ops, thread, op, outcome, emit, output, seen, signaled, interrupted, granted>>

-----------------------------------------------------------------------------
(* The host: spn_op_submit, then spn_cli_wait.                              *)

Submit(o) ==
  /\ host = "call" /\ o \notin submitted
  /\ queue' = Append(queue, o) /\ submitted' = submitted \cup {o}
  /\ waiting' = o /\ host' = "clear"
  /\ UNCHANGED <<poked, running, thread, op, outcome, emit, output, seen, signaled,
                 doorbell, handler, interrupted, granted>>

WaitClear ==
  /\ host = "clear"
  /\ doorbell' = FALSE /\ host' = "interrupted"
  /\ UNCHANGED <<waiting, ops, thread, op, outcome, emit, output, seen, signaled,
                 handler, interrupted, granted>>

WaitInterrupted ==
  /\ host = "interrupted"
  /\ cancelled' = IF interrupted THEN cancelled \cup {waiting} ELSE cancelled
  /\ host' = IF granted THEN "done" ELSE "drain"
  /\ UNCHANGED <<waiting, ops, thread, op, done, result, error, emit, output, seen, signaled,
                 doorbell, handler, interrupted, granted>>

Empty == events = 0

(* Mutant: lower the flag before the buffer is empty.                       *)
BugRearm == IF Empty THEN signaled ELSE FALSE
Rearm == IF Empty THEN FALSE ELSE signaled

(* spn_tui_flush: one spn_ctx_drain, which lowers the flag in the critical  *)
(* section that finds the buffer empty.  The flush at "last" is the one of  *)
(* spn_tui_op_done, the one at "closing" that of spn_cli_shutdown, the one  *)
(* at "handoff" that of spn_tui_handoff, after which spn_tui_poll and       *)
(* spn_tui_op_done leave the buffer and the flag alone.                     *)
Drained == [drain |-> "progress", last |-> "call", closing |-> "closed", handoff |-> "call"]

WaitDrain ==
  /\ host \in DOMAIN Drained
  /\ signaled' = Rearm
  /\ granted' = (granted \/ (host = "handoff" /\ Empty))
  /\ IF Empty
     THEN host' = Drained[host] /\ UNCHANGED events
     ELSE events' = events - 1 /\ UNCHANGED host
  /\ UNCHANGED <<waiting, ops, thread, op, outcome, emit, progress, emits, seen, doorbell,
                 handler, interrupted>>

(* spn_ctx_progress, and the prompt shows it.                               *)
WaitProgress ==
  /\ host = "progress"
  /\ seen' = progress /\ host' = "done"
  /\ UNCHANGED <<waiting, ops, thread, op, outcome, emit, output, signaled, doorbell,
                 handler, interrupted, granted>>

BugOver == waiting \in done \cup cancelled   \* mutant: a cancelled operation counts as done
Over == waiting \in done

WaitDone ==
  /\ host = "done"
  /\ host' = IF ~Over THEN "sleep" ELSE IF granted THEN "call" ELSE "last"
  /\ UNCHANGED <<waiting, ops, thread, op, outcome, emit, output, seen, signaled, doorbell,
                 handler, interrupted, granted>>

WaitSleep ==
  /\ host = "sleep" /\ doorbell
  /\ host' = "clear"
  /\ UNCHANGED <<waiting, ops, thread, op, outcome, emit, output, seen, signaled, doorbell,
                 handler, interrupted, granted>>

Handoff ==
  /\ host = "call" /\ ~granted
  /\ host' = "handoff"
  /\ UNCHANGED <<waiting, ops, thread, op, outcome, emit, output, seen, signaled, doorbell,
                 handler, interrupted, granted>>

(* spn_cli_shutdown: spn_ctx_close stops the op thread, joins it and emits  *)
(* the result, and the events are flushed.                                  *)
Stop ==
  /\ host = "call"
  /\ running' = FALSE /\ host' = "poke"
  /\ UNCHANGED <<waiting, submitted, queue, poked, thread, op, outcome, emit, output, seen,
                 signaled, doorbell, handler, interrupted, granted>>

StopPoke ==
  /\ host = "poke"
  /\ poked' = TRUE /\ host' = "join"
  /\ UNCHANGED <<waiting, submitted, queue, running, thread, op, outcome, emit, output, seen,
                 signaled, doorbell, handler, interrupted, granted>>

StopJoin ==
  /\ host = "join" /\ thread = "exited"
  /\ events' = events + 1
  /\ signaled' = TRUE /\ doorbell' = (doorbell \/ ~signaled)
  /\ host' = "closing"
  /\ UNCHANGED <<waiting, ops, thread, op, outcome, emit, progress, emits, seen,
                 handler, interrupted, granted>>

Closed == host = "closed" /\ UNCHANGED vars

-----------------------------------------------------------------------------
OpThread == OpTake \/ OpBegin \/ OpEnd \/ OpFailed \/ OpPublish \/ OpPulse \/ OpSignal
WokenNull == poked /\ OpNull
Wait == \/ WaitClear \/ WaitInterrupted \/ WaitDrain \/ WaitProgress \/ WaitDone
        \/ WaitSleep \/ StopPoke \/ StopJoin
Call == Stop \/ Handoff \/ \E o \in Ops : Submit(o)

Next == \/ OpThread \/ OpNull \/ Wait \/ Call \/ Interrupt \/ InterruptSignal \/ Closed
        \/ \E e \in Emitters : Emit(e) \/ Ring(e) \/ Signal(e)

(* Every thread that can run does; operations and emitters finish.  Nobody  *)
(* has to interrupt, submit or stop.  A raised poked flag is eventually     *)
(* noticed (OpQueue's WakeUnblocks).                                        *)
Fairness ==
  /\ WF_vars(OpThread) /\ WF_vars(WokenNull) /\ WF_vars(Wait) /\ WF_vars(InterruptSignal)
  /\ \A e \in Emitters : WF_vars(Ring(e) \/ Signal(e))

Spec == Init /\ [][Next]_vars /\ Fairness

-----------------------------------------------------------------------------
(* Every variable has the type of the field it models.                      *)
TypeOK ==
  /\ host \in {"call", "clear", "interrupted", "drain", "progress", "done", "sleep", "last",
               "poke", "join", "closing", "closed", "handoff"}
  /\ waiting \in Ops \cup {NoOp} /\ op \in Ops \cup {NoOp}
  /\ submitted \subseteq Ops /\ cancelled \subseteq Ops /\ done \subseteq Ops
  /\ queue \in Seq(Ops)
  /\ thread \in {"wait", "begin", "work", "failed", "publish", "pulse", "signal", "exited"}
  /\ result \in [Ops -> {"none", "ok", "failed", "cancelled"}]
  /\ error \in {"ok", "failed", "cancelled"}
  /\ emit \in [Emitters -> {"idle", "ring", "signal"}]
  /\ events \in Nat /\ progress \in Nat /\ seen \in Nat /\ emits \in Nat
  /\ handler \in {"armed", "signal", "over"}
  /\ {poked, running, signaled, doorbell, granted, interrupted} \subseteq BOOLEAN

(* Somebody has yet to ring the doorbell.                                   *)
Ringing ==
  \/ doorbell \/ handler = "signal" \/ thread \in {"pulse", "signal"}
  \/ \E e \in Emitters : emit[e] = "signal" \/ (emit[e] = "ring" /\ ~signaled)

(* The host never sleeps through news: when it sleeps with events not       *)
(* drained, progress not shown, an interrupt not passed on or its operation *)
(* finished, the doorbell has been rung or is about to be, although most    *)
(* threads skip the ring because another one raised the flag.               *)
NoLostRing ==
  host = "sleep" /\ ( \/ ~granted /\ (events > 0 \/ seen # progress)
                      \/ waiting \in done \/ (interrupted /\ waiting \notin cancelled) ) => Ringing

(* Nothing is lost on the way to the host: an operation that is done has    *)
(* its result and, if it failed, the context's error is already set; after  *)
(* the join everything submitted is done; after the last flush every event  *)
(* was shown.                                                               *)
NothingDropped ==
  /\ TypeOK
  /\ \A o \in done : result[o] # "none" /\ (result[o] # "ok" => error # "ok")
  /\ thread = "exited" => submitted = done
  /\ host = "closed" => events = 0

(* Every wait and the shutdown end.                                         *)
CallsReturn == host \notin {"call", "closed"} ~> host \in {"call", "closed"}
=============================================================================
