------------------------------ MODULE OpQueue ------------------------------
(***************************************************************************)
(* The queue between the host threads that submit operations and the op      *)
(* thread (source/util/queue/queue.h): a lock-free stack that producers push *)
(* on, a private list the consumer reverses it into, and a futex on the      *)
(* count of pushes for the consumer to sleep on.                             *)
(*                                                                          *)
(* Nodes are linked through node->next as in the code, and a node may be     *)
(* pushed again once it was taken, so a compare-and-swap can meet the same   *)
(* head at a different time.  An action is one atomic operation with the     *)
(* thread-private work after it.  The code's atomics are relaxed, acquire    *)
(* and release; here they are sequentially consistent, which assumes more.   *)
(***************************************************************************)
EXTENDS Integers, FiniteSets, Sequences, SequencesExt

CONSTANTS
  Hosts,      \* the threads that push and wake
  Nodes,      \* the nodes
  Null,
  MaxPushes   \* bound on queue->pushes, well below 2^32 where it wraps

ASSUME QueueAssumption ==
  /\ IsFiniteSet(Nodes) /\ Null \notin Nodes
  /\ MaxPushes \in Nat

VARIABLES
  stack,      \* queue->stack
  fifo,       \* queue->fifo
  next,       \* node->next
  pushes,     \* queue->pushes
  poked,      \* queue->poked
  at,         \* where each host is in sp_queue_push or sp_queue_wake
  node,       \* the node it pushes
  wait,       \* where the consumer is in sp_queue_wait
  generation  \* the count of pushes it loaded

shared == <<stack, fifo, next, pushes, poked>>
vars == <<shared, at, node, wait, generation>>

(* Following the links from p meets the nodes of c, in order, and then Null. *)
IsList(links, c, p) ==
  /\ p = IF c = <<>> THEN Null ELSE c[1]
  /\ \A i \in DOMAIN c : links[c[i]] = IF i = Len(c) THEN Null ELSE c[i + 1]

(* The nodes reached from p.                                                *)
Chain(links, p) == CHOOSE c \in SeqOf(Nodes, Cardinality(Nodes)) : IsList(links, c, p)

Contents == Chain(next, fifo) \o Reverse(Chain(next, stack))

Init ==
  /\ stack = Null /\ fifo = Null /\ next = [n \in Nodes |-> Null]
  /\ pushes = 0 /\ poked = FALSE
  /\ at = [h \in Hosts |-> "out"] /\ node = [h \in Hosts |-> Null]
  /\ wait = "first" /\ generation = 0

-----------------------------------------------------------------------------
(* sp_queue_push.                                                           *)

(* The nodes no host is pushing and the consumer does not still hold.       *)
Free == {n \in Nodes : /\ \A h \in Hosts : node[h] # n
                       /\ n \notin ToSet(Contents)}

PushLoad(h) ==
  /\ \/ at[h] = "out" /\ pushes < MaxPushes /\ \E n \in Free : node' = [node EXCEPT ![h] = n]
     \/ at[h] = "retry" /\ UNCHANGED node
  /\ next' = [next EXCEPT ![node'[h]] = stack]
  /\ at' = [at EXCEPT ![h] = "cas"]
  /\ UNCHANGED <<stack, fifo, pushes, poked, wait, generation>>

BugSwap(h) == TRUE     \* mutant: store the head without comparing
Swap(h) == stack = next[node[h]]

PushCas(h) ==
  /\ at[h] = "cas"
  /\ IF Swap(h)
     THEN stack' = node[h] /\ at' = [at EXCEPT ![h] = "bump"] /\ node' = [node EXCEPT ![h] = Null]
     ELSE at' = [at EXCEPT ![h] = "retry"] /\ UNCHANGED <<stack, node>>
  /\ UNCHANGED <<fifo, next, pushes, poked, wait, generation>>

(* The rest of push, shared with wake: count, then wake the sleeper.        *)
Bump(h) ==
  /\ at[h] = "bump"
  /\ pushes' = pushes + 1
  /\ at' = [at EXCEPT ![h] = "ring"]
  /\ UNCHANGED <<stack, fifo, next, poked, node, wait, generation>>

FutexWake(h) ==
  /\ at[h] = "ring"
  /\ wait' = IF wait = "asleep" THEN "last" ELSE wait
  /\ at' = [at EXCEPT ![h] = "out"]
  /\ UNCHANGED <<shared, node, generation>>

(* sp_queue_wake.                                                           *)
Poke(h) ==
  /\ at[h] = "out" /\ pushes < MaxPushes
  /\ poked' = TRUE
  /\ at' = [at EXCEPT ![h] = "bump"]
  /\ UNCHANGED <<stack, fifo, next, pushes, node, wait, generation>>

-----------------------------------------------------------------------------
(* sp_queue_pop, by the consumer only.  With an empty list it takes the     *)
(* whole stack and relinks it in reverse.                                   *)
Batch == Reverse(Chain(next, stack))

Linked(s) == [n \in Nodes |->
                IF n \in ToSet(s)
                THEN LET i == CHOOSE k \in DOMAIN s : s[k] = n
                     IN  IF i = Len(s) THEN Null ELSE s[i + 1]
                ELSE next[n]]

Pop(then) ==
  IF fifo # Null
  THEN fifo' = next[fifo] /\ wait' = "first" /\ UNCHANGED <<stack, next>>
  ELSE /\ stack' = Null
       /\ next' = Linked(Batch)
       /\ fifo' = IF stack = Null THEN Null ELSE next'[Batch[1]]
       /\ wait' = IF stack = Null THEN then ELSE "first"

(* sp_queue_wait: pop, load the count, pop again, look at poked, sleep, and *)
(* pop a last time.  The op thread calls it again whatever it returned.     *)
WaitPop ==
  /\ \/ wait = "first" /\ Pop("load")
     \/ wait = "again" /\ Pop("poke")
     \/ wait = "last" /\ Pop("first")
  /\ UNCHANGED <<pushes, poked, at, node, generation>>

Loaded == pushes

WaitLoad ==
  /\ wait = "load"
  /\ generation' = Loaded
  /\ wait' = "again"
  /\ UNCHANGED <<shared, at, node>>

WaitPoke ==
  /\ wait = "poke"
  /\ poked' = FALSE
  /\ wait' = IF poked THEN "first" ELSE "futex"
  /\ UNCHANGED <<stack, fifo, next, pushes, at, node, generation>>

(* Mutant: sleep without comparing the count.                               *)
BugSleeps == TRUE
Sleeps == pushes = generation

(* sp_sys_futex_wait sleeps only if the count is still the one loaded.      *)
WaitFutex ==
  /\ wait = "futex"
  /\ wait' = IF Sleeps THEN "asleep" ELSE "last"
  /\ UNCHANGED <<shared, at, node, generation>>

(* A futex may return without a wake.                                       *)
SpuriousWake ==
  /\ wait = "asleep" /\ wait' = "last"
  /\ UNCHANGED <<shared, at, node, generation>>

-----------------------------------------------------------------------------
Consumer == WaitPop \/ WaitLoad \/ WaitPoke \/ WaitFutex
Finish(h) == (at[h] # "out" /\ PushLoad(h)) \/ PushCas(h) \/ Bump(h) \/ FutexWake(h)
Call(h) == (at[h] = "out" /\ PushLoad(h)) \/ Poke(h)

Next == Consumer \/ SpuriousWake \/ \E h \in Hosts : Finish(h) \/ Call(h)

(* The op thread runs while it can; a call that was begun is finished.      *)
Fairness == WF_vars(Consumer) /\ \A h \in Hosts : WF_vars(Finish(h))

Spec == Init /\ [][Next]_vars /\ Fairness

-----------------------------------------------------------------------------
(* Every variable has the type of the field it models.                      *)
TypeOK ==
  /\ stack \in Nodes \cup {Null} /\ fifo \in Nodes \cup {Null}
  /\ next \in [Nodes -> Nodes \cup {Null}]
  /\ pushes \in Nat /\ generation \in Nat /\ poked \in BOOLEAN
  /\ at \in [Hosts -> {"out", "cas", "retry", "bump", "ring"}]
  /\ node \in [Hosts -> Nodes \cup {Null}]
  /\ wait \in {"first", "load", "again", "poke", "futex", "asleep", "last"}

(* The op thread never sleeps through a push or a wake: if it sleeps with   *)
(* work there, someone is about to wake it.                                 *)
NoSleepOnWork ==
  /\ TypeOK
  /\ wait = "asleep" /\ (stack # Null \/ fifo # Null \/ poked) =>
       \E h \in Hosts : at[h] \in {"bump", "ring"}

Abstract == INSTANCE Fifo WITH q <- Contents

(* The queue is a Fifo, whoever pushes while whoever pops: no node is lost, *)
(* doubled or overtaken, and every node pushed is eventually taken.         *)
IsFifo == Abstract!Spec

(* A wake gets the op thread out of its sleep, which the join in            *)
(* spn_op_thread_stop depends on.                                           *)
WakeUnblocks == poked /\ wait = "asleep" ~> wait # "asleep"
=============================================================================
