----------------------------- MODULE HostProofs -----------------------------
(***************************************************************************)
(* For every set of operations and emitting threads and any number of        *)
(* events: nothing is lost on the way to the host, and the host never sleeps *)
(* through news although most threads skip the ring.                         *)
(***************************************************************************)
EXTENDS Host, TLAPS, SequenceTheorems

Elements(s) == {s[i] : i \in DOMAIN s}
Queued == Elements(queue)
Distinct(s) == \A i, k \in DOMAIN s : s[i] = s[k] => i = k

(* The op thread has an operation that it has not published.                *)
Active == thread \in {"begin", "work", "failed", "publish"}

(* The host is inside spn_cli_wait and has not seen its operation done.     *)
InWait == {"clear", "interrupted", "drain", "progress", "done", "sleep"}

(* An operation is in one place, once: queued, with the op thread, or done. *)
Places ==
  /\ Distinct(queue)
  /\ Queued \cap done = {}
  /\ Active => op \in Ops /\ op \in submitted /\ op \notin done /\ op \notin Queued
  /\ Queued \subseteq submitted /\ done \subseteq submitted

(* Everything submitted is done, but for the one the host waits for.        *)
Settled ==
  /\ host \in InWait => waiting \in Ops
  /\ \A o \in submitted : o \in done \/ (o = waiting /\ host \in InWait)

(* What the op thread is about to publish, and what it has published.       *)
Outcomes ==
  /\ thread = "failed" => result[op] \in {"failed", "cancelled"}
  /\ thread = "publish" => result[op] # "none" /\ (result[op] # "ok" => error # "ok")
  /\ \A o \in done : result[o] # "none" /\ (result[o] # "ok" => error # "ok")

(* The op thread leaves only when told to, and the host waits for that.     *)
Stopping ==
  /\ ~running => host \in {"poke", "join", "closing", "closed"}
  /\ thread = "exited" => ~running
  /\ host \in {"closing", "closed"} => thread = "exited"
  /\ host = "closed" => events = 0

(* Since the host lowered the flag: whoever raised it has rung or will, and *)
(* whoever has news has raised it or is about to.                           *)
Raised == doorbell \/ thread = "signal" \/ \E e \in Emitters : emit[e] = "signal"
Noticed == signaled \/ \E e \in Emitters : emit[e] = "ring"

Bells ==
  /\ host \in {"progress", "done", "sleep"} /\ ~granted =>
       /\ signaled => Raised
       /\ events > 0 => Noticed
  /\ host \in {"done", "sleep"} /\ ~granted /\ seen # progress => Noticed
  /\ host = "sleep" /\ waiting \in done => doorbell \/ thread \in {"pulse", "signal"}
  /\ host \in {"drain", "progress", "done", "sleep"} /\ interrupted /\ waiting \notin cancelled
       => doorbell \/ handler = "signal"

IInv == TypeOK /\ Places /\ Settled /\ Outcomes /\ Stopping /\ Bells



-----------------------------------------------------------------------------
LEMMA InitInv == Init => IInv
<1> SUFFICES ASSUME Init PROVE IInv
  OBVIOUS
<1>1. TypeOK
  BY EmptySeq DEF Init, TypeOK
<1>2. Queued = {} /\ Distinct(queue)
  BY DEF Init, Queued, Elements, Distinct
<1>3. Places /\ Settled
  BY <1>2 DEF Init, Places, Settled, Active, InWait
<1>4. Outcomes /\ Stopping /\ Bells
  BY DEF Init, Outcomes, Stopping, Bells
<1> QED BY <1>1, <1>3, <1>4 DEF IInv

(* Submitting puts an operation at one end of the queue.                    *)
LEMMA AppendFacts ==
  ASSUME NEW S, NEW s \in Seq(S), NEW x \in S
  PROVE  /\ Append(s, x) \in Seq(S)
         /\ Elements(Append(s, x)) = Elements(s) \cup {x}
         /\ Distinct(s) /\ x \notin Elements(s) => Distinct(Append(s, x))
<1>1. /\ Append(s, x) \in Seq(S) /\ Len(Append(s, x)) = Len(s) + 1
      /\ \A i \in 1..Len(s) : Append(s, x)[i] = s[i]
      /\ Append(s, x)[Len(s) + 1] = x
      /\ Len(s) \in Nat
  BY AppendProperties, LenProperties
<1>2. DOMAIN s = 1..Len(s) /\ DOMAIN Append(s, x) = 1..(Len(s) + 1)
  BY <1>1, LenProperties
<1>3. \A i \in 1..(Len(s) + 1) : i \in 1..Len(s) \/ i = Len(s) + 1
  BY <1>1
<1>4. 1..Len(s) \subseteq 1..(Len(s) + 1) /\ Len(s) + 1 \in 1..(Len(s) + 1)
  BY <1>1
<1>5. Elements(Append(s, x)) = Elements(s) \cup {x}
  BY <1>1, <1>2, <1>3, <1>4 DEF Elements
<1>6. Distinct(s) /\ x \notin Elements(s) => Distinct(Append(s, x))
  BY <1>1, <1>2, <1>3 DEF Distinct, Elements
<1> QED BY <1>1, <1>5, <1>6

(* And the op thread takes one from the other end.                          *)
LEMMA TailFacts ==
  ASSUME NEW S, NEW s \in Seq(S), s # <<>>, Distinct(s)
  PROVE  /\ Head(s) \in S /\ Tail(s) \in Seq(S) /\ Distinct(Tail(s))
         /\ Head(s) \in Elements(s)
         /\ Elements(Tail(s)) = Elements(s) \ {Head(s)}
<1>1. /\ Head(s) \in S /\ Tail(s) \in Seq(S) /\ Head(s) = s[1]
      /\ Len(Tail(s)) = Len(s) - 1
      /\ \A i \in 1..Len(Tail(s)) : Tail(s)[i] = s[i + 1]
  BY HeadTailProperties
<1>2. /\ Len(s) \in Nat \ {0} /\ DOMAIN s = 1..Len(s)
      /\ DOMAIN Tail(s) = 1..(Len(s) - 1)
  BY <1>1, EmptySeq, LenProperties
<1>3. \A i \in 1..(Len(s) - 1) : Tail(s)[i] = s[i + 1] /\ i + 1 \in 1..Len(s) /\ i + 1 # 1
  BY <1>1, <1>2
<1>4. \A i \in 1..Len(s) : i # 1 => i - 1 \in 1..(Len(s) - 1) /\ (i - 1) + 1 = i
  BY <1>2
<1>5. Distinct(Tail(s))
  <2> SUFFICES ASSUME NEW i \in 1..(Len(s) - 1), NEW k \in 1..(Len(s) - 1),
                      Tail(s)[i] = Tail(s)[k]
               PROVE  i = k
    BY <1>2 DEF Distinct
  <2>1. i + 1 = k + 1
    BY <1>2, <1>3 DEF Distinct
  <2> QED BY <2>1
<1>6. 1 \in DOMAIN s
  BY <1>2
<1>7. ASSUME NEW y \in Elements(Tail(s))
      PROVE  y \in Elements(s) \ {Head(s)}
  <2>1. PICK i \in 1..(Len(s) - 1) : y = s[i + 1]
    BY <1>2, <1>3, <1>7 DEF Elements
  <2>2. i + 1 \in DOMAIN s /\ i + 1 # 1
    BY <1>2, <1>3
  <2> QED BY <1>1, <1>6, <2>1, <2>2 DEF Distinct, Elements
<1>8. ASSUME NEW y \in Elements(s) \ {Head(s)}
      PROVE  y \in Elements(Tail(s))
  <2>1. PICK i \in 1..Len(s) : y = s[i]
    BY <1>2, <1>8 DEF Elements
  <2>2. i # 1
    BY <1>1, <1>8, <2>1
  <2>3. i - 1 \in DOMAIN Tail(s) /\ y = Tail(s)[i - 1]
    BY <1>2, <1>3, <1>4, <2>1, <2>2
  <2> QED BY <2>3 DEF Elements
<1> QED BY <1>1, <1>5, <1>6, <1>7, <1>8 DEF Elements

LEMMA OpTakeInv ==
  ASSUME IInv, OpTake
  PROVE  IInv'
<1>0. /\ queue \in Seq(Ops) /\ queue # <<>> /\ Distinct(queue)
      /\ op' = Head(queue) /\ queue' = Tail(queue)
  BY DEF IInv, TypeOK, Places, OpTake
<1>1. /\ queue' \in Seq(Ops) /\ op' \in Ops /\ op' \in Queued /\ Distinct(queue')
      /\ Queued' = Queued \ {op'}
  BY <1>0, TailFacts DEF Queued
<1>2. TypeOK'
  BY <1>1 DEF IInv, TypeOK, OpTake, outcome, output
<1>3. Places' /\ Settled'
  BY <1>1 DEF IInv, Places, Settled, Active, OpTake, outcome
<1>4. Outcomes' /\ Stopping' /\ Bells'
  BY DEF IInv, Outcomes, Stopping, Bells, Raised, Noticed, OpTake, outcome, output
<1> QED BY <1>2, <1>3, <1>4 DEF IInv

LEMMA SubmitInv ==
  ASSUME IInv, NEW o \in Ops, Submit(o)
  PROVE  IInv'
<1>1. o \notin Queued
  BY DEF IInv, Places, Submit
<1>2. queue' \in Seq(Ops) /\ Distinct(queue') /\ Queued' = Queued \cup {o}
  BY <1>1, AppendFacts DEF IInv, TypeOK, Places, Submit, Queued
<1>3. TypeOK'
  BY <1>2 DEF IInv, TypeOK, Submit, outcome, output
<1>4. Places' /\ Settled'
  BY <1>1, <1>2 DEF IInv, Places, Settled, Active, InWait, Submit, outcome
<1>5. Outcomes' /\ Stopping' /\ Bells'
  BY DEF IInv, Outcomes, Stopping, Bells, Submit, outcome, output
<1> QED BY <1>3, <1>4, <1>5 DEF IInv

(* The op thread.                                                           *)
LEMMA OpNullInv ==
  ASSUME IInv, OpNull
  PROVE  IInv'
<1>1. TypeOK'
  BY DEF IInv, TypeOK, Places, Active, OpNull, outcome, output
<1>2. Places' /\ Settled'
  BY DEF IInv, TypeOK, Places, Settled, Active, Queued, InWait,
         OpNull, outcome, output
<1>3. Outcomes' /\ Stopping'
  BY DEF IInv, TypeOK, Places, Active, Outcomes, Stopping, OpNull, outcome, output
<1>4. Bells'
  BY DEF IInv, TypeOK, Settled, InWait, Bells, Raised, Noticed,
         OpNull, outcome, output
<1> QED BY <1>1, <1>2, <1>3, <1>4 DEF IInv

LEMMA OpBeginInv ==
  ASSUME IInv, OpBegin
  PROVE  IInv'
<1>1. TypeOK'
  BY DEF IInv, TypeOK, Places, Active, OpBegin, ops, output
<1>2. Places' /\ Settled'
  BY DEF IInv, TypeOK, Places, Settled, Active, Queued, InWait,
         OpBegin, ops, output
<1>3. Outcomes' /\ Stopping'
  BY DEF IInv, TypeOK, Places, Active, Outcomes, Stopping, OpBegin, ops, output
<1>4. Bells'
  BY DEF IInv, TypeOK, Settled, InWait, Bells, Raised, Noticed,
         OpBegin, ops, output
<1> QED BY <1>1, <1>2, <1>3, <1>4 DEF IInv

LEMMA OpEndInv ==
  ASSUME IInv, OpEnd
  PROVE  IInv'
<1>1. TypeOK'
  BY DEF IInv, TypeOK, Places, Active, OpEnd, After, ops, output
<1>2. Places' /\ Settled'
  BY DEF IInv, TypeOK, Places, Settled, Active, Queued, InWait,
         OpEnd, After, ops, output
<1>3. Outcomes' /\ Stopping'
  BY DEF IInv, TypeOK, Places, Active, Outcomes, Stopping, OpEnd, After, ops, output
<1>4. Bells'
  BY DEF IInv, TypeOK, Settled, InWait, Bells, Raised, Noticed,
         OpEnd, After, ops, output
<1> QED BY <1>1, <1>2, <1>3, <1>4 DEF IInv

LEMMA OpFailedInv ==
  ASSUME IInv, OpFailed
  PROVE  IInv'
<1>1. TypeOK'
  BY DEF IInv, TypeOK, Places, Active, Outcomes, OpFailed, First, ops, output
<1>2. Places' /\ Settled'
  BY DEF IInv, TypeOK, Places, Settled, Active, Queued, InWait,
         OpFailed, First, ops, output
<1>3. Outcomes' /\ Stopping'
  BY DEF IInv, TypeOK, Places, Active, Outcomes, Stopping, OpFailed, First, ops, output
<1>4. Bells'
  BY DEF IInv, TypeOK, Settled, InWait, Bells, Raised, Noticed,
         OpFailed, First, ops, output
<1> QED BY <1>1, <1>2, <1>3, <1>4 DEF IInv

LEMMA OpPublishInv ==
  ASSUME IInv, OpPublish
  PROVE  IInv'
<1>1. TypeOK'
  BY DEF IInv, TypeOK, Places, Active, OpPublish, ops, output
<1>2. Places' /\ Settled'
  BY DEF IInv, TypeOK, Places, Settled, Active, Queued, InWait,
         OpPublish, ops, output
<1>3. Outcomes' /\ Stopping'
  BY DEF IInv, TypeOK, Places, Active, Outcomes, Stopping, OpPublish, ops, output
<1>4. Bells'
  BY DEF IInv, TypeOK, Settled, InWait, Bells, Raised, Noticed,
         OpPublish, ops, output
<1> QED BY <1>1, <1>2, <1>3, <1>4 DEF IInv

LEMMA OpPulseInv ==
  ASSUME IInv, OpPulse
  PROVE  IInv'
<1>1. TypeOK'
  BY DEF IInv, TypeOK, Places, Active, OpPulse, Pulse, ops, outcome, output
<1>2. Places' /\ Settled'
  BY DEF IInv, TypeOK, Places, Settled, Active, Queued, InWait,
         OpPulse, Pulse, ops, outcome, output
<1>3. Outcomes' /\ Stopping'
  BY DEF IInv, TypeOK, Places, Active, Outcomes, Stopping, OpPulse, Pulse, ops, outcome, output
<1>4. Bells'
  BY DEF IInv, TypeOK, Settled, InWait, Bells, Raised, Noticed,
         OpPulse, Pulse, ops, outcome, output
<1> QED BY <1>1, <1>2, <1>3, <1>4 DEF IInv

LEMMA OpSignalInv ==
  ASSUME IInv, OpSignal
  PROVE  IInv'
<1>1. TypeOK'
  BY DEF IInv, TypeOK, Places, Active, OpSignal, ops, outcome, output
<1>2. Places' /\ Settled'
  BY DEF IInv, TypeOK, Places, Settled, Active, Queued, InWait,
         OpSignal, ops, outcome, output
<1>3. Outcomes' /\ Stopping'
  BY DEF IInv, TypeOK, Places, Active, Outcomes, Stopping, OpSignal, ops, outcome, output
<1>4. Bells'
  BY DEF IInv, TypeOK, Settled, InWait, Bells, Raised, Noticed,
         OpSignal, ops, outcome, output
<1> QED BY <1>1, <1>2, <1>3, <1>4 DEF IInv

(* The threads that emit, and the signal handler.                           *)
LEMMA EmitInv ==
  ASSUME IInv, NEW e \in Emitters, Emit(e)
  PROVE  IInv'
<1>1. TypeOK'
  BY DEF IInv, TypeOK, Emit, ops, outcome
<1>2. Places' /\ Settled'
  BY DEF IInv, TypeOK, Places, Settled, Active, Queued, InWait,
         Emit, ops, outcome
<1>3. Outcomes' /\ Stopping'
  BY DEF IInv, TypeOK, Places, Active, Outcomes, Stopping, Emit, ops, outcome
<1>4. Bells'
  BY DEF IInv, TypeOK, Settled, InWait, Bells, Raised, Noticed,
         Emit, ops, outcome
<1> QED BY <1>1, <1>2, <1>3, <1>4 DEF IInv

LEMMA RingInv ==
  ASSUME IInv, NEW e \in Emitters, Ring(e)
  PROVE  IInv'
<1>1. TypeOK'
  BY DEF IInv, TypeOK, Ring, ops, outcome, output
<1>2. Places' /\ Settled'
  BY DEF IInv, TypeOK, Places, Settled, Active, Queued, InWait,
         Ring, ops, outcome, output
<1>3. Outcomes' /\ Stopping'
  BY DEF IInv, TypeOK, Places, Active, Outcomes, Stopping, Ring, ops, outcome, output
<1>4. Bells'
  BY DEF IInv, TypeOK, Settled, InWait, Bells, Raised, Noticed,
         Ring, ops, outcome, output
<1> QED BY <1>1, <1>2, <1>3, <1>4 DEF IInv

LEMMA SignalInv ==
  ASSUME IInv, NEW e \in Emitters, Signal(e)
  PROVE  IInv'
<1>1. TypeOK'
  BY DEF IInv, TypeOK, Signal, ops, outcome, output
<1>2. Places' /\ Settled'
  BY DEF IInv, TypeOK, Places, Settled, Active, Queued, InWait,
         Signal, ops, outcome, output
<1>3. Outcomes' /\ Stopping'
  BY DEF IInv, TypeOK, Places, Active, Outcomes, Stopping, Signal, ops, outcome, output
<1>4. Bells'
  BY DEF IInv, TypeOK, Settled, InWait, Bells, Raised, Noticed,
         Signal, ops, outcome, output
<1> QED BY <1>1, <1>2, <1>3, <1>4 DEF IInv

LEMMA InterruptInv ==
  ASSUME IInv, Interrupt
  PROVE  IInv'
<1>1. TypeOK'
  BY DEF IInv, TypeOK, Interrupt, ops, outcome, output
<1>2. Places' /\ Settled'
  BY DEF IInv, TypeOK, Places, Settled, Active, Queued, InWait,
         Interrupt, ops, outcome, output
<1>3. Outcomes' /\ Stopping'
  BY DEF IInv, TypeOK, Places, Active, Outcomes, Stopping, Interrupt, ops, outcome, output
<1>4. Bells'
  BY DEF IInv, TypeOK, Settled, InWait, Bells, Raised, Noticed,
         Interrupt, ops, outcome, output
<1> QED BY <1>1, <1>2, <1>3, <1>4 DEF IInv

LEMMA InterruptSignalInv ==
  ASSUME IInv, InterruptSignal
  PROVE  IInv'
<1>1. TypeOK'
  BY DEF IInv, TypeOK, InterruptSignal, ops, outcome, output
<1>2. Places' /\ Settled'
  BY DEF IInv, TypeOK, Places, Settled, Active, Queued, InWait,
         InterruptSignal, ops, outcome, output
<1>3. Outcomes' /\ Stopping'
  BY DEF IInv, TypeOK, Places, Active, Outcomes, Stopping, InterruptSignal, ops, outcome, output
<1>4. Bells'
  BY DEF IInv, TypeOK, Settled, InWait, Bells, Raised, Noticed,
         InterruptSignal, ops, outcome, output
<1> QED BY <1>1, <1>2, <1>3, <1>4 DEF IInv

(* The host.                                                                *)
LEMMA WaitClearInv ==
  ASSUME IInv, WaitClear
  PROVE  IInv'
<1>1. TypeOK'
  BY DEF IInv, TypeOK, WaitClear, ops, outcome, output
<1>2. Places' /\ Settled'
  BY DEF IInv, TypeOK, Places, Settled, Active, Queued, InWait,
         WaitClear, ops, outcome, output
<1>3. Outcomes' /\ Stopping'
  BY DEF IInv, TypeOK, Places, Active, Outcomes, Stopping, WaitClear, ops, outcome, output
<1>4. Bells'
  BY DEF IInv, TypeOK, Settled, InWait, Bells, Raised, Noticed,
         WaitClear, ops, outcome, output
<1> QED BY <1>1, <1>2, <1>3, <1>4 DEF IInv

LEMMA WaitInterruptedInv ==
  ASSUME IInv, WaitInterrupted
  PROVE  IInv'
<1>1. TypeOK'
  BY DEF IInv, TypeOK, Settled, InWait, WaitInterrupted, ops, output
<1>2. Places' /\ Settled'
  BY DEF IInv, TypeOK, Places, Settled, Active, Queued, InWait,
         WaitInterrupted, ops, output
<1>3. Outcomes' /\ Stopping'
  BY DEF IInv, TypeOK, Places, Active, Outcomes, Stopping, WaitInterrupted, ops, output
<1>4. Bells'
  BY DEF IInv, TypeOK, Settled, InWait, Bells, Raised, Noticed,
         WaitInterrupted, ops, output
<1> QED BY <1>1, <1>2, <1>3, <1>4 DEF IInv

LEMMA WaitDrainInv ==
  ASSUME IInv, WaitDrain
  PROVE  IInv'
<1>1. TypeOK'
  <2>1. host' \in {"drain", "last", "closing", "handoff", "progress", "call", "closed"}
    BY DEF WaitDrain, Empty, Drained
  <2>2. events' \in Nat
    BY DEF IInv, TypeOK, WaitDrain, Empty
  <2>3. signaled' \in BOOLEAN /\ granted' \in BOOLEAN
    BY DEF IInv, TypeOK, WaitDrain, Rearm
  <2>4. UNCHANGED <<waiting, ops, thread, op, outcome, emit, progress, emits, seen, doorbell,
                    handler, interrupted>>
    BY DEF WaitDrain
  <2> QED BY <2>1, <2>2, <2>3, <2>4 DEF IInv, TypeOK, ops, outcome
<1>2. Places' /\ Settled'
  BY DEF IInv, TypeOK, Places, Settled, Active, Queued, InWait,
         WaitDrain, Rearm, Empty, Drained, ops, outcome
<1>3. Outcomes' /\ Stopping'
  BY DEF IInv, TypeOK, Places, Active, Outcomes, Stopping, WaitDrain, Rearm, Empty, Drained, ops, outcome
<1>4. Bells'
  BY DEF IInv, TypeOK, Settled, InWait, Bells, Raised, Noticed,
         WaitDrain, Rearm, Empty, Drained, ops, outcome
<1> QED BY <1>1, <1>2, <1>3, <1>4 DEF IInv

LEMMA WaitProgressInv ==
  ASSUME IInv, WaitProgress
  PROVE  IInv'
<1>1. TypeOK'
  BY DEF IInv, TypeOK, WaitProgress, ops, outcome, output
<1>2. Places' /\ Settled'
  BY DEF IInv, TypeOK, Places, Settled, Active, Queued, InWait,
         WaitProgress, ops, outcome, output
<1>3. Outcomes' /\ Stopping'
  BY DEF IInv, TypeOK, Places, Active, Outcomes, Stopping, WaitProgress, ops, outcome, output
<1>4. Bells'
  BY DEF IInv, TypeOK, Settled, InWait, Bells, Raised, Noticed,
         WaitProgress, ops, outcome, output
<1> QED BY <1>1, <1>2, <1>3, <1>4 DEF IInv

LEMMA WaitDoneInv ==
  ASSUME IInv, WaitDone
  PROVE  IInv'
<1>1. TypeOK'
  BY DEF IInv, TypeOK, WaitDone, Over, ops, outcome, output
<1>2. Places' /\ Settled'
  BY DEF IInv, TypeOK, Places, Settled, Active, Queued, InWait,
         WaitDone, Over, ops, outcome, output
<1>3. Outcomes' /\ Stopping'
  BY DEF IInv, TypeOK, Places, Active, Outcomes, Stopping, WaitDone, Over, ops, outcome, output
<1>4. Bells'
  BY DEF IInv, TypeOK, Settled, InWait, Bells, Raised, Noticed,
         WaitDone, Over, ops, outcome, output
<1> QED BY <1>1, <1>2, <1>3, <1>4 DEF IInv

LEMMA WaitSleepInv ==
  ASSUME IInv, WaitSleep
  PROVE  IInv'
<1>1. TypeOK'
  BY DEF IInv, TypeOK, WaitSleep, ops, outcome, output
<1>2. Places' /\ Settled'
  BY DEF IInv, TypeOK, Places, Settled, Active, Queued, InWait,
         WaitSleep, ops, outcome, output
<1>3. Outcomes' /\ Stopping'
  BY DEF IInv, TypeOK, Places, Active, Outcomes, Stopping, WaitSleep, ops, outcome, output
<1>4. Bells'
  BY DEF IInv, TypeOK, Settled, InWait, Bells, Raised, Noticed,
         WaitSleep, ops, outcome, output
<1> QED BY <1>1, <1>2, <1>3, <1>4 DEF IInv

LEMMA HandoffInv ==
  ASSUME IInv, Handoff
  PROVE  IInv'
<1>1. TypeOK'
  BY DEF IInv, TypeOK, Handoff, ops, outcome, output
<1>2. Places' /\ Settled'
  BY DEF IInv, TypeOK, Places, Settled, Active, Queued, InWait,
         Handoff, ops, outcome, output
<1>3. Outcomes' /\ Stopping'
  BY DEF IInv, TypeOK, Places, Active, Outcomes, Stopping, Handoff, ops, outcome, output
<1>4. Bells'
  BY DEF IInv, TypeOK, Settled, InWait, Bells, Raised, Noticed,
         Handoff, ops, outcome, output
<1> QED BY <1>1, <1>2, <1>3, <1>4 DEF IInv

LEMMA StopInv ==
  ASSUME IInv, Stop
  PROVE  IInv'
<1>1. TypeOK'
  BY DEF IInv, TypeOK, Stop, outcome, output
<1>2. Places' /\ Settled'
  BY DEF IInv, TypeOK, Places, Settled, Active, Queued, InWait,
         Stop, outcome, output
<1>3. Outcomes' /\ Stopping'
  BY DEF IInv, TypeOK, Places, Active, Outcomes, Stopping, Stop, outcome, output
<1>4. Bells'
  BY DEF IInv, TypeOK, Settled, InWait, Bells, Raised, Noticed,
         Stop, outcome, output
<1> QED BY <1>1, <1>2, <1>3, <1>4 DEF IInv

LEMMA StopPokeInv ==
  ASSUME IInv, StopPoke
  PROVE  IInv'
<1>1. TypeOK'
  BY DEF IInv, TypeOK, StopPoke, outcome, output
<1>2. Places' /\ Settled'
  BY DEF IInv, TypeOK, Places, Settled, Active, Queued, InWait,
         StopPoke, outcome, output
<1>3. Outcomes' /\ Stopping'
  BY DEF IInv, TypeOK, Places, Active, Outcomes, Stopping, StopPoke, outcome, output
<1>4. Bells'
  BY DEF IInv, TypeOK, Settled, InWait, Bells, Raised, Noticed,
         StopPoke, outcome, output
<1> QED BY <1>1, <1>2, <1>3, <1>4 DEF IInv

LEMMA StopJoinInv ==
  ASSUME IInv, StopJoin
  PROVE  IInv'
<1>1. TypeOK'
  BY DEF IInv, TypeOK, StopJoin, ops, outcome
<1>2. Places' /\ Settled'
  BY DEF IInv, TypeOK, Places, Settled, Active, Queued, InWait,
         StopJoin, ops, outcome
<1>3. Outcomes' /\ Stopping'
  BY DEF IInv, TypeOK, Places, Active, Outcomes, Stopping, StopJoin, ops, outcome
<1>4. Bells'
  BY DEF IInv, TypeOK, Settled, InWait, Bells, Raised, Noticed,
         StopJoin, ops, outcome
<1> QED BY <1>1, <1>2, <1>3, <1>4 DEF IInv

LEMMA NextInv == IInv /\ [Next]_vars => IInv'
<1> SUFFICES ASSUME IInv, [Next]_vars PROVE IInv'
  OBVIOUS
<1>1. CASE OpThread \/ OpNull
  BY <1>1, OpTakeInv, OpNullInv, OpBeginInv, OpEndInv, OpFailedInv, OpPublishInv,
     OpPulseInv, OpSignalInv DEF OpThread
<1>2. CASE Wait
  BY <1>2, WaitClearInv, WaitInterruptedInv, WaitDrainInv, WaitProgressInv, WaitDoneInv,
     WaitSleepInv, StopPokeInv, StopJoinInv DEF Wait
<1>3. CASE Call
  BY <1>3, StopInv, HandoffInv, SubmitInv DEF Call
<1>4. CASE Interrupt \/ InterruptSignal
  BY <1>4, InterruptInv, InterruptSignalInv
<1>5. ASSUME NEW e \in Emitters, Emit(e) \/ Ring(e) \/ Signal(e) PROVE IInv'
  BY <1>5, EmitInv, RingInv, SignalInv
<1>6. CASE UNCHANGED vars
  BY <1>6 DEF IInv, TypeOK, Places, Active, Queued, Settled, Outcomes, Stopping,
              Bells, Raised, Noticed, vars, ops, outcome, output
<1> QED BY <1>1, <1>2, <1>3, <1>4, <1>5, <1>6 DEF Next, Closed

(* The inductive invariant holds: operations stay in one place, outcomes    *)
(* are settled before they are published, and whoever has news for the     *)
(* waiting host has rung (spn_wake_signal) or is about to.                  *)
THEOREM HostInvariant == Spec => []IInv
BY InitInv, NextInv, PTL DEF Spec

(* The host never sleeps through news: when it sleeps with events not       *)
(* drained, progress not shown, an interrupt not passed on or its operation *)
(* finished, the doorbell has been rung or is about to be.                  *)
THEOREM NoRingLost == Spec => []NoLostRing
<1>1. IInv => NoLostRing
  BY DEF IInv, TypeOK, Bells, Raised, Noticed, NoLostRing, Ringing
<1> QED BY <1>1, HostInvariant, PTL

(* Nothing is lost on the way to the host: an operation that is done has    *)
(* its result and, if it failed, the context's error is already set; after  *)
(* the join everything submitted is done; after the last flush every event  *)
(* was shown.                                                               *)
THEOREM NothingLost == Spec => []NothingDropped
<1>1. IInv => NothingDropped
  BY DEF IInv, Outcomes, Stopping, Settled, InWait, Places, NothingDropped
<1> QED BY <1>1, HostInvariant, PTL

=============================================================================
