------------------------------- MODULE DagRun -------------------------------
(***************************************************************************)
(* One run of the build DAG (source/core/dag/run.c): the main thread's      *)
(* scheduler loop, the flights its worker threads execute, and the disk,    *)
(* blob store, action cache and observation table they share.               *)
(*                                                                          *)
(* The main thread is sequential: it takes one turn of the loop of          *)
(* spn_dag_run_executor at a time.  A flight runs on a worker: it reads the  *)
(* epoch, looks its action up in the cache (which may write the action's     *)
(* targets) and, on a miss, executes it.  A DISCOVERED action only knows     *)
(* after executing which paths it observed; when one of them is the target   *)
(* of another action the result is parked, committed, or thrown away.        *)
(*                                                                          *)
(* Abstractions.  The content of a target is "none", "old" (anything but     *)
(* what its action produces now) or "cur".  The executor is any set of       *)
(* workers: submitted flights start and land in any order.  The ready stack  *)
(* is a set, so that what is shown holds for every order of popping it.      *)
(***************************************************************************)
EXTENDS Integers, FiniteSets, Sequences, SequencesExt

CONSTANTS
  Actions,      \* the actions of the graph
  Artifacts,    \* the artifacts they consume and produce
  Kind,         \* Kind[a] is "static", "discovered" or "uncacheable"
  Consumes,     \* Consumes[a]: the set of artifacts a takes as input
  Produces,     \* Produces[a]: the sequence of a's outputs, in settling order
  Path,         \* Path[t]: a sequence of names, <<>> for an output without path
  Tree,         \* the artifacts that are directory trees
  Probes,       \* Probes[a]: the sets of probes an execution of a may make
  Pathsets,     \* Pathsets[a]: the pathsets earlier builds may have stored
  InitDisk,     \* InitDisk[t]: the contents a target may start with
  InitBlob,     \* InitBlob[t]: the states of t's blob in the store
  Cached,       \* the actions the action cache may hold an entry for
  Faulty,       \* the actions whose execution may fail
  Cancellable   \* whether another thread may cancel the run

Outputs(a) == {Produces[a][i] : i \in DOMAIN Produces[a]}

(* Artifacts with a path: files and trees on disk, sources included.        *)
Targets == {t \in Artifacts : Path[t] # <<>>}
Produced == UNION {Outputs(a) : a \in Actions}
Sources == Targets \ Produced

(* What spn_dag_action_add_output and spn_dag_validate accept: one producer *)
(* per artifact, one artifact per path, and nothing below a tree.           *)
ValidGraph ==
  /\ IsFiniteSet(Actions) /\ IsFiniteSet(Artifacts)
  /\ Kind \in [Actions -> {"static", "discovered", "uncacheable"}]
  /\ Consumes \in [Actions -> SUBSET Artifacts]
  /\ Produces \in [Actions -> Seq(Artifacts)]
  /\ \A a \in Actions, b \in Actions : a # b => Outputs(a) \cap Outputs(b) = {}
  /\ \A a \in Actions : IsInjective(Produces[a])
  /\ \A t \in Targets, u \in Targets : Path[t] = Path[u] => t = u
  /\ Tree \subseteq Targets \cap Produced
  /\ \A t \in Tree, u \in Targets : ~IsStrictPrefix(Path[t], Path[u])

ASSUME GraphAssumption == ValidGraph

ASSUME InputAssumption ==
  /\ Cached \subseteq Actions /\ Faulty \subseteq Actions
  /\ Cancellable \in BOOLEAN
  /\ \A t \in Targets : InitDisk[t] \subseteq {"none", "old", "cur"}
  /\ \A t \in Artifacts : InitBlob[t] \subseteq {"gone", "shared", "good"}
  /\ \A a \in Actions : Kind[a] # "discovered" => Probes[a] = {{}}
  /\ \A a \in Actions : \A S \in Probes[a] \cup Pathsets[a] : IsFiniteSet(S)

VARIABLES
  pc,         \* main thread: "seed", "loop", "poll", "finish", "ended"
  cur,        \* the action being finished when pc = "finish"
  err,        \* run.err
  turns,      \* turns of the loop taken
  pending,    \* states[a].pending: consumed artifacts without a digest
  deferred,   \* states[a].deferred: registrations a waits for
  waiters,    \* waiters[q][a]: times a is in states[q].waiters
  parked,     \* the actions with states[a].parked
  done,       \* the actions with states[a].done
  done_epoch, \* states[a].done_epoch
  ready,      \* run.ready
  completed,  \* run.completed
  in_flight,  \* run.in_flight
  flight,     \* states[a].flight
  scratch,    \* the actions whose scratch directory exists
  wrote,      \* action->wrote
  disk,       \* the content of every target
  blob,       \* the store's blob of each artifact's current digest
  entry,      \* the actions the action cache holds an entry for
  known,      \* the observation table: {} or {pathset} for each action
  cancel      \* *env->cancel

sched == <<pending, deferred, waiters, parked, done, done_epoch, ready, completed>>
store == <<disk, blob, wrote, entry>>
vars == <<pc, cur, err, turns, sched, in_flight, flight, scratch, store, known, cancel>>

-----------------------------------------------------------------------------
(* The file system as an observation resolves it (resolve_one): the content *)
(* at a path or of the tree around it, and the names below it.              *)

At(p) == {disk[t] : t \in {u \in Targets \ Tree : Path[u] = p}}
Within(p) == {disk[t] : t \in {u \in Tree : IsPrefix(Path[u], p)}}
Below(p) == {t \in Targets : IsStrictPrefix(p, Path[t])}
Members(p) == {Path[t][Len(p) + 1] : t \in {u \in Below(p) : disk[u] # "none"}}

View(o) == IF o.kind = "enum" THEN <<Within(o.path), Members(o.path)>>
                              ELSE <<At(o.path) \cup Within(o.path), Members(o.path)>>

Missing(p) == IF Below(p) # {} THEN Members(p) = {}
                               ELSE At(p) \cup Within(p) = {"none"}

(* A probe becomes an observation: a listing is an enumeration, a stat or   *)
(* an open is a file or an absence by what it found (wasi.c).               *)
Observe(pr) ==
  [kind |-> IF pr.list THEN "enum" ELSE IF Missing(pr.path) THEN "absent" ELSE "file",
   path |-> pr.path]

See(S) == {<<o, View(o)>> : o \in S}
Obs(a) == {p[1] : p \in flight[a].seen}

(* resolve_observations: a file observation of a missing path fails.        *)
Resolved(S) == \A o \in S : o.kind = "file" => ~Missing(o.path)

-----------------------------------------------------------------------------
(* settle, settle_file, settle_tree, target_state.  A blob is "gone",       *)
(* "good", or "shared": hard-linked to a target that was edited in place.   *)

(* The store can supply the artifact: spn_dag_store_locate finds its blob.  *)
Supplied(t) == blob[t] # "gone"

(* spn_dag_store_owns: the target that differs is the blob, which is then   *)
(* dropped.                                                                 *)
Poisoned(t) == t \in Targets /\ disk[t] # "cur" /\ blob[t] = "shared"

Stuck(t) ==
  \/ Poisoned(t)
  \/ ~Supplied(t) /\ (t \in Targets \ Tree => disk[t] # "cur")

(* The outputs settled before the first that cannot be, and that one.       *)
Settled(a) == {Produces[a][i] : i \in {k \in DOMAIN Produces[a] :
                                        \A j \in 1..k : ~Stuck(Produces[a][j])}}
StuckAt(a) == {Produces[a][i] : i \in {k \in DOMAIN Produces[a] :
                                        /\ Stuck(Produces[a][k])
                                        /\ \A j \in 1..(k-1) : ~Stuck(Produces[a][j])}}
Settles(a) == StuckAt(a) = {}

SettleWrote(a) ==
  \/ \E t \in Settled(a) \cap Targets : disk[t] # "cur"
  \/ \E t \in StuckAt(a) \cap Targets : Poisoned(t) <=> t \in Tree

Settle(a) ==
  /\ disk' = [t \in Targets |-> IF t \in Settled(a) THEN "cur" ELSE disk[t]]
  /\ blob' = [t \in Artifacts |-> IF t \in StuckAt(a) /\ Poisoned(t) THEN "gone" ELSE blob[t]]
  /\ wrote' = [wrote EXCEPT ![a] = SettleWrote(a)]

-----------------------------------------------------------------------------
(* defer_observations and defer_producer.                                   *)

(* The outputs of q an observation depends on: its exact path, a tree       *)
(* around it and, for an enumeration, everything below it.                  *)
Touches(q, o) ==
  {t \in Outputs(q) \cap Targets :
     \/ Path[t] = o.path
     \/ t \in Tree /\ IsStrictPrefix(Path[t], o.path)
     \/ o.kind = "enum" /\ IsStrictPrefix(o.path, Path[t])}

(* One registration per observation and output of an unfinished producer.   *)
Waits(a, S) == {r \in Actions \X S \X Targets :
                  r[1] \notin done \cup {a} /\ r[3] \in Touches(r[1], r[2])}

(* Mutants: the producer's write is ignored; its epoch is.                  *)
BugRequeueNever(a, S, epoch) == FALSE
BugRequeueAlways(a, S, epoch) ==
  \E q \in done \ {a}, o \in S : Touches(q, o) # {} /\ wrote[q]

(* A producer that wrote after the flight read the epoch spoils its result. *)
Requeue(a, S, epoch) ==
  \E q \in done \ {a}, o \in S :
    Touches(q, o) # {} /\ done_epoch[q] > epoch /\ wrote[q]

Defer(a, S) ==
  /\ Waits(a, S) # {}
  /\ deferred' = [deferred EXCEPT ![a] = @ + Cardinality(Waits(a, S))]
  /\ waiters' = [q \in Actions |->
       [waiters[q] EXCEPT ![a] = @ + Cardinality({r \in Waits(a, S) : r[1] = q})]]

-----------------------------------------------------------------------------
Idle == [phase |-> "idle", epoch |-> 0, hit |-> FALSE, failed |-> FALSE, seen |-> {}]

InFlight(a) == flight[a].phase \in {"queued", "started", "missed", "landed"}
Landed == {a \in Actions : flight[a].phase = "landed"}

Init ==
  /\ pc = "seed" /\ cur = (CHOOSE a \in Actions : TRUE) /\ err = "ok" /\ turns = 0
  /\ pending = [a \in Actions |-> 0]
  /\ deferred = [a \in Actions |-> 0]
  /\ waiters = [q \in Actions |-> [a \in Actions |-> 0]]
  /\ parked = {} /\ done = {} /\ ready = {}
  /\ done_epoch = [a \in Actions |-> 0]
  /\ completed = 0 /\ in_flight = 0
  /\ flight = [a \in Actions |-> Idle]
  /\ scratch = {}
  /\ wrote = [a \in Actions |-> FALSE]
  /\ disk \in {d \in [Targets -> {"none", "old", "cur"}] : \A t \in Targets : d[t] \in InitDisk[t]}
  /\ blob \in {b \in [Artifacts -> {"gone", "shared", "good"}] :
                 \A t \in Artifacts : /\ b[t] \in InitBlob[t]
                                      /\ b[t] = "shared" => t \in Targets /\ disk[t] = "old"}
  /\ entry \in SUBSET Cached
  /\ known \in {k \in [Actions -> UNION {{{S} : S \in Pathsets[a]} \cup {{}} : a \in Actions}] :
                  \A a \in Actions : k[a] \in {{S} : S \in Pathsets[a]} \cup {{}}}
  /\ cancel = FALSE

-----------------------------------------------------------------------------
(* Seeding: seed_sources stops on a missing source file; seed_ready counts  *)
(* the inputs without a digest and makes ready the actions that have none.  *)
NeedsDigest(a) == {t \in Consumes[a] : t \in Produced}

Seed ==
  /\ pc = "seed"
  /\ IF \E t \in Sources : disk[t] = "none"
     THEN /\ err' = "missing_input" /\ pc' = "ended"
          /\ UNCHANGED <<pending, ready>>
     ELSE /\ pending' = [a \in Actions |-> Cardinality(NeedsDigest(a))]
          /\ ready' = {a \in Actions : NeedsDigest(a) = {}}
          /\ pc' = "loop" /\ UNCHANGED err
  /\ UNCHANGED <<cur, turns, deferred, waiters, parked, done, done_epoch, completed,
                 in_flight, flight, scratch, store, known, cancel>>

-----------------------------------------------------------------------------
(* Worker threads: flight_run.                                              *)

FlightStart(a) ==
  /\ flight[a].phase = "queued"
  /\ flight' = [flight EXCEPT ![a].phase = "started", ![a].epoch = completed]
  /\ UNCHANGED <<pc, cur, err, turns, sched, in_flight, scratch, store, known, cancel>>

Missed(a) ==
  /\ flight' = [flight EXCEPT ![a].phase = "missed"]

(* lookup finds no entry to try: an uncacheable action, no pathset or one   *)
(* that does not resolve, or no entry under the key.                        *)
LookupAbsent(a) ==
  /\ flight[a].phase = "started"
  /\ Kind[a] = "static" => a \notin entry
  /\ Missed(a)
  /\ UNCHANGED <<pc, cur, err, turns, sched, in_flight, scratch, store, known, cancel>>

(* The pathsets lookup has to try: the one spn_dag_obs_table_get returns,   *)
(* none at all for a static action.                                         *)
Candidates(a) == IF Kind[a] = "discovered" THEN known[a] ELSE {{}}

(* spn_dag_action_cache_remove.                                             *)
Forget(a) == entry' = entry \ {a}

(* try_restore on the pathset S: settle what the entry names; a failure     *)
(* removes the entry and goes on to execute.                                *)
LookupRestore(a) ==
  /\ flight[a].phase = "started"
  /\ a \in entry
  /\ Kind[a] # "uncacheable"
  /\ \E S \in Candidates(a) :
       /\ Resolved(S)
       /\ IF Settles(a)
          THEN /\ flight' = [flight EXCEPT ![a].phase = "landed", ![a].hit = TRUE,
                                           ![a].seen = See(S)]
               /\ UNCHANGED entry
          ELSE Missed(a) /\ Forget(a)
  /\ Settle(a)
  /\ UNCHANGED <<pc, cur, err, turns, sched, in_flight, scratch, known, cancel>>

(* spn_dag_store_put_file and _put_tree: a blob already present is kept.    *)
PutOutputs(a) == [t \in Artifacts |-> IF t \in Outputs(a) /\ ~Supplied(t) THEN "good" ELSE blob[t]]

(* execute: observe, then put every output in the store; a failure reports  *)
(* through flight->err.                                                     *)
Execute(a) ==
  /\ flight[a].phase = "missed"
  /\ scratch' = scratch \cup {a}
  /\ \E S \in Probes[a], failed \in IF a \in Faulty THEN BOOLEAN ELSE {FALSE} :
       /\ flight' = [flight EXCEPT ![a].phase = "landed", ![a].failed = failed,
                                   ![a].seen = See({Observe(pr) : pr \in S})]
       /\ blob' = IF failed THEN blob ELSE PutOutputs(a)
  /\ UNCHANGED <<pc, cur, err, turns, sched, in_flight, disk, wrote, entry, known, cancel>>

-----------------------------------------------------------------------------
(* The main thread.  Discard is attempt_discard; a flight put back to idle  *)
(* keeps what it saw.                                                       *)

BugDiscard(a) == UNCHANGED scratch   \* mutant: the directory is left behind
Discard(a) == scratch' = scratch \ {a}
Rest(a) == flight' = [flight EXCEPT ![a].phase = "idle"]

(* spn_dag_obs_set_put replaces the pathset; record and                     *)
(* spn_dag_action_cache_put add the entry if the pathset resolves.          *)
StorePathset(a) == known' = IF Kind[a] = "discovered" THEN [known EXCEPT ![a] = {Obs(a)}] ELSE known
Record(a) ==
  entry' = IF Kind[a] # "uncacheable" /\ Resolved(Obs(a)) THEN entry \cup {a} ELSE entry

(* run_commit_flight and commit: store the pathset, resolve it, settle, and *)
(* record the entry.                                                        *)
Commit(a) ==
  /\ StorePathset(a)
  /\ Settle(a)
  /\ Discard(a)
  /\ IF Settles(a)
     THEN Record(a) /\ pc' = "finish" /\ cur' = a /\ err' = "ok"
     ELSE /\ err' = "store_missing" /\ pc' = "loop"
          /\ UNCHANGED <<entry, cur>>

(* finish_action: count the action, release its consumers and its waiters.  *)
BugLess(n, k) == IF k > 0 /\ n > 0 THEN n - 1 ELSE n   \* mutant: one registration per waiter
Less(n, k) == IF n > k THEN n - k ELSE 0
Edges(a, c) == Cardinality(Consumes[c] \cap Outputs(a))

(* Mutants: release without looking at the count; forget the waiters.       *)
BugReleaseAll(p, d) == {c \in Actions : p[c] = 0 /\ d[c] = 0}
BugReleaseConsumers(p, d) == {c \in Actions : pending[c] > 0 /\ p[c] = 0}

Released(p, d) == {c \in Actions : \/ pending[c] > 0 /\ p[c] = 0
                                   \/ deferred[c] > 0 /\ d[c] = 0}

FinishAction ==
  /\ pc = "finish"
  /\ completed' = completed + 1
  /\ done' = done \cup {cur}
  /\ done_epoch' = [done_epoch EXCEPT ![cur] = completed + 1]
  /\ pending' = [c \in Actions |-> Less(pending[c], Edges(cur, c))]
  /\ deferred' = [c \in Actions |-> Less(deferred[c], waiters[cur][c])]
  /\ ready' = ready \cup Released(pending', deferred')
  /\ pc' = "loop"
  /\ UNCHANGED <<cur, err, turns, waiters, parked, in_flight, flight, scratch, store, known, cancel>>

(* run_complete of a landed flight, with run.err = e.                       *)
Complete(a, e) ==
  /\ a \in Landed
  /\ in_flight' = in_flight - 1
  /\ \/ /\ e # "ok" \/ flight[a].failed
        /\ err' = IF e # "ok" THEN e ELSE "failed"
        /\ IF flight[a].hit THEN UNCHANGED scratch ELSE Discard(a)
        /\ Rest(a)
        /\ pc' = "loop"
        /\ UNCHANGED <<cur, sched, store, known>>
     \/ /\ e = "ok" /\ ~flight[a].failed /\ flight[a].hit
        /\ Rest(a)
        /\ pc' = "finish" /\ cur' = a /\ err' = e
        /\ UNCHANGED <<sched, scratch, store, known>>
     \/ /\ e = "ok" /\ ~flight[a].failed /\ ~flight[a].hit
        /\ Defer(a, Obs(a))
        /\ parked' = parked \cup {a}
        /\ Rest(a)
        /\ pc' = "loop" /\ err' = e
        /\ UNCHANGED <<cur, pending, done, done_epoch, ready, completed, scratch, store, known>>
     \/ /\ e = "ok" /\ ~flight[a].failed /\ ~flight[a].hit
        /\ Waits(a, Obs(a)) = {} /\ Requeue(a, Obs(a), flight[a].epoch)
        /\ Discard(a)
        /\ ready' = ready \cup {a}
        /\ Rest(a)
        /\ pc' = "loop" /\ err' = e
        /\ UNCHANGED <<cur, pending, deferred, waiters, parked, done, done_epoch, completed, store, known>>
     \/ /\ e = "ok" /\ ~flight[a].failed /\ ~flight[a].hit
        /\ Waits(a, Obs(a)) = {} /\ ~Requeue(a, Obs(a), flight[a].epoch)
        /\ Commit(a)
        /\ Rest(a)
        /\ UNCHANGED sched

(* run_dispatch of a popped action.  A parked result waits again, commits,  *)
(* or is spoiled; a fresh or spoiled action first waits for the producers   *)
(* its stored pathset names, then is submitted.                             *)
Spoiled(a) == /\ a \in parked
              /\ Waits(a, Obs(a)) = {} /\ Requeue(a, Obs(a), flight[a].epoch)

DispatchParked(a) ==
  /\ a \in parked
  /\ \/ /\ Defer(a, Obs(a))
        /\ pc' = "loop"
        /\ UNCHANGED <<cur, err, parked, scratch, flight, store, known>>
     \/ /\ Waits(a, Obs(a)) = {} /\ ~Requeue(a, Obs(a), flight[a].epoch)
        /\ parked' = parked \ {a}
        /\ Commit(a)
        /\ UNCHANGED <<deferred, waiters, flight>>
  /\ UNCHANGED in_flight

(* Mutant: the flight is not counted.                                       *)
BugSubmit(a) ==
  /\ flight' = [flight EXCEPT ![a] = [Idle EXCEPT !.phase = "queued"]]
  /\ UNCHANGED in_flight

Submit(a) ==
  /\ flight' = [flight EXCEPT ![a] = [Idle EXCEPT !.phase = "queued"]]
  /\ in_flight' = in_flight + 1

DispatchFresh(a) ==
  /\ a \notin parked \/ Spoiled(a)
  /\ parked' = parked \ {a}
  /\ IF a \in parked THEN Discard(a) ELSE UNCHANGED scratch
  /\ \/ /\ Kind[a] = "discovered"
        /\ \E S \in known[a] : Defer(a, S)
        /\ UNCHANGED <<flight, in_flight>>
     \/ /\ Kind[a] = "discovered" => \A S \in known[a] : Waits(a, S) = {}
        /\ Submit(a)
        /\ UNCHANGED <<deferred, waiters>>
  /\ pc' = "loop"
  /\ UNCHANGED <<cur, err, store, known>>

-----------------------------------------------------------------------------
(* The loop of spn_dag_run_executor.  Every turn starts with the cancel     *)
(* check and then takes the first of: a landed flight, a ready action, a    *)
(* blocking poll, the exit.                                                 *)
BugChecked == IF cancel THEN "cancelled" ELSE err   \* mutant: the first error is overwritten
Checked == IF err = "ok" /\ cancel THEN "cancelled" ELSE err

TurnComplete(a) ==
  /\ pc = "loop"
  /\ turns' = turns + 1
  /\ Complete(a, Checked)
  /\ UNCHANGED cancel

TurnDispatch(a) ==
  /\ pc = "loop" /\ Landed = {}
  /\ Checked = "ok" /\ a \in ready
  /\ turns' = turns + 1
  /\ ready' = ready \ {a}
  /\ DispatchParked(a) \/ DispatchFresh(a)
  /\ UNCHANGED <<pending, done, done_epoch, completed, cancel>>

TurnBlock ==
  /\ pc = "loop" /\ Landed = {}
  /\ Checked # "ok" \/ ready = {}
  /\ in_flight > 0
  /\ turns' = turns + 1
  /\ err' = Checked
  /\ pc' = "poll"
  /\ UNCHANGED <<cur, sched, in_flight, flight, scratch, store, known, cancel>>

PollReturn(a) ==
  /\ pc = "poll"
  /\ Complete(a, err)
  /\ UNCHANGED <<turns, cancel>>

TurnExit ==
  /\ pc = "loop" /\ Landed = {}
  /\ Checked # "ok" \/ ready = {}
  /\ in_flight = 0
  /\ turns' = turns + 1
  /\ scratch' = scratch \ parked
  /\ err' = IF Checked = "ok" /\ completed # Cardinality(Actions) THEN "stalled" ELSE Checked
  /\ pc' = "ended"
  /\ UNCHANGED <<cur, sched, in_flight, flight, store, known, cancel>>

(* Another thread cancels the operation the run belongs to.                 *)
RequestCancel ==
  /\ Cancellable /\ ~cancel /\ pc # "ended"
  /\ cancel' = TRUE
  /\ UNCHANGED <<pc, cur, err, turns, sched, in_flight, flight, scratch, store, known>>

Ended == pc = "ended" /\ UNCHANGED vars

Main == \/ Seed \/ FinishAction \/ TurnBlock \/ TurnExit
        \/ \E a \in Actions : TurnComplete(a) \/ TurnDispatch(a) \/ PollReturn(a)

Worker(a) == FlightStart(a) \/ LookupAbsent(a) \/ LookupRestore(a) \/ Execute(a)

Next == Main \/ (\E a \in Actions : Worker(a)) \/ RequestCancel \/ Ended

(* The main thread keeps running while it can take a step, and so does the  *)
(* worker that holds a flight.  Nothing obliges anyone to cancel.           *)
Fairness == WF_vars(Main) /\ \A a \in Actions : WF_vars(Worker(a))

Spec == Init /\ [][Next]_vars /\ Fairness

-----------------------------------------------------------------------------
Errs == {"ok", "missing_input", "failed", "store_missing", "cancelled", "stalled"}
Phases == {"idle", "queued", "started", "missed", "landed"}

FlightOK(f) ==
  /\ DOMAIN f = {"phase", "epoch", "hit", "failed", "seen"}
  /\ f = [x \in DOMAIN f |-> f[x]]
  /\ f.phase \in Phases /\ f.epoch \in Nat /\ f.hit \in BOOLEAN /\ f.failed \in BOOLEAN

(* Every variable has the type of the field it models.                      *)
TypeOK ==
  /\ pc \in {"seed", "loop", "poll", "finish", "ended"}
  /\ pc = "finish" => cur \in Actions
  /\ err \in Errs /\ turns \in Nat
  /\ pending \in [Actions -> Nat]
  /\ deferred \in [Actions -> Nat]
  /\ waiters \in [Actions -> [Actions -> Nat]]
  /\ parked \subseteq Actions /\ done \subseteq Actions /\ ready \subseteq Actions
  /\ done_epoch \in [Actions -> Nat]
  /\ completed \in Nat /\ in_flight \in Nat
  /\ flight = [a \in Actions |-> flight[a]]
  /\ \A a \in Actions : FlightOK(flight[a])
  /\ scratch \subseteq Actions /\ entry \subseteq Actions
  /\ wrote \in [Actions -> BOOLEAN]
  /\ disk \in [Targets -> {"none", "old", "cur"}]
  /\ blob \in [Artifacts -> {"gone", "shared", "good"}]
  /\ DOMAIN known = Actions
  /\ cancel \in BOOLEAN

-----------------------------------------------------------------------------
(* Where the scheduler holds an action.  *)
Finishing(a) == pc = "finish" /\ cur = a

(* No action is scheduled twice: an action is never in two of the           *)
(* scheduler's places at once, whatever order completions, deferrals and    *)
(* requeues happen in.                                                      *)
NotTwice ==
  \A a \in Actions :
    /\ pending[a] > 0 => a \notin ready /\ deferred[a] = 0
    /\ a \in ready => deferred[a] = 0
    /\ pending[a] > 0 \/ a \in ready \/ deferred[a] > 0 => ~InFlight(a)
    /\ pending[a] > 0 \/ a \in ready \/ deferred[a] > 0 \/ InFlight(a) => ~Finishing(a)
    /\ pending[a] > 0 \/ a \in ready \/ deferred[a] > 0 \/ InFlight(a) \/ Finishing(a)
         => a \notin done
    /\ a \in parked => a \in ready \/ deferred[a] > 0

(* No action is lost: while the run has no error every action is finished   *)
(* or held somewhere it will be taken up from again.                        *)
NotLost ==
  err = "ok" /\ pc # "seed" =>
    \A a \in Actions : \/ pending[a] > 0 \/ a \in ready \/ deferred[a] > 0
                       \/ InFlight(a) \/ Finishing(a) \/ a \in done

(* The inputs of a that are still to be produced, and the registrations a   *)
(* has with producers that are still to finish.                             *)
Open(a) == {t \in Consumes[a] : \E q \in Actions \ done : t \in Outputs(q)}
Registrations(a) == UNION {{q} \X (1..waiters[q][a]) : q \in Actions \ done}

(* The counters agree with what they count: pending with the inputs whose   *)
(* producer is unfinished, deferred with the registrations at unfinished    *)
(* producers, in_flight with the flights.  The weak key of a dispatched     *)
(* action therefore only reads digests that are there.                      *)
CountersExact ==
  /\ TypeOK
  /\ pc # "seed" /\ err # "missing_input" =>
       /\ \A a \in Actions : /\ pending[a] = Cardinality(Open(a))
                             /\ deferred[a] = Cardinality(Registrations(a))
       /\ in_flight = Cardinality({a \in Actions : InFlight(a)})

(* A finished discovered action used what is on disk at the end: every path *)
(* it observed, or that its cache hit relied on, still resolves to what it   *)
(* saw, although other actions wrote their targets while it ran.             *)
FreshCommits ==
  \A a \in done : \A p \in flight[a].seen :
    Touches(a, p[1]) = {} => p[2] = View(p[1])

(* The entry a commit records is a true fact: the observations its key is   *)
(* computed from resolve, at that moment, to what the execution saw.  Else   *)
(* the cache would hold, for good, an output its inputs do not produce.      *)
TrueFacts ==
  [][\A a \in Actions :
       ~Finishing(a) /\ Finishing(a)' /\ ~flight[a].hit /\ a \in entry' =>
         \A p \in flight[a].seen : p[2] = View(p[1])]_vars

(* The run is declared stalled only when every unfinished action waits for  *)
(* an unfinished one: a stall is a cycle of inputs and observations.  No    *)
(* action observes its way into waiting for itself; one that consumes its   *)
(* own output, which spn_dag_validate accepts, is a cycle of its own.       *)
StallIsCycle ==
  err = "stalled" =>
    \A a \in Actions \ done : \E q \in Actions \ done :
      \/ q # a /\ waiters[q][a] > 0
      \/ Consumes[a] \cap Outputs(q) # {}

(* However the run ends, every scratch directory has been discarded.        *)
ScratchDiscarded == pc = "ended" => scratch = {}

(* What a finished action put on disk is not touched again by this run, by  *)
(* the main thread's commits or the workers' restores.                      *)
FinishedStays ==
  [][\A a \in done : /\ a \in done' /\ done_epoch'[a] = done_epoch[a] /\ wrote'[a] = wrote[a]
                     /\ \A t \in Outputs(a) \cap Targets : disk'[t] = disk[t]]_vars

(* After an error or a cancellation the run starts nothing new and changes  *)
(* no schedule: the loop only drains what is in flight.                     *)
ErrorDrains ==
  [][err # "ok" => in_flight' <= in_flight /\ done' = done /\ err' = err]_vars

(* The run uses the pool as an Executor: a flight is submitted only after    *)
(* the last one of its action was handed back, and the run does not end, so  *)
(* that its caller tears the pool down, while a flight is queued or running. *)
PoolStatus(a) == CASE flight[a].phase \in {"started", "missed"} -> "running"
                   [] flight[a].phase = "landed" -> "done"
                   [] OTHER -> flight[a].phase

Pool == INSTANCE Executor WITH Jobs <- Actions, open <- pc # "ended",
                               status <- [a \in Actions |-> PoolStatus(a)]

UsesExecutor == Pool!Safe

(* The run always ends, since no wait of the main thread is for ever, and   *)
(* within the turns that sp_assert(turns <= turns_max) grants it.           *)
Terminates ==
  /\ <>(pc = "ended")
  /\ [](turns <= 4 * (Cardinality(Actions) + 1) * (Cardinality(Actions) + 1))
=============================================================================
