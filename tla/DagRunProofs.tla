---------------------------- MODULE DagRunProofs ----------------------------
(***************************************************************************)
(* For every graph, every cache and every interleaving: the scheduler of     *)
(* run.c keeps its types, never holds an action in two places, never loses   *)
(* one, never rewrites what is finished, drains after an error, leaves no    *)
(* scratch directory behind, keeps its contract with the thread pool, counts *)
(* exactly what it waits for and reports a stall only when there is a cycle. *)
(* On graphs without the two shapes of the findings it also never finishes   *)
(* an action on stale observations and records nothing but true entries.     *)
(***************************************************************************)
EXTENDS DagRun, TLAPS, FiniteSetTheorems

Flights == {a \in Actions : InFlight(a)}

(* run.in_flight counts the flights; without it the counter could pass below *)
(* zero, and a submission of an action in flight would go unnoticed.         *)
FlightCount == in_flight = Cardinality(Flights)

(* Before seeding nothing has happened.                                     *)
AtSeed == pc = "seed" =>
            /\ done = {} /\ parked = {} /\ ready = {}
            /\ \A a \in Actions : /\ deferred[a] = 0 /\ pending[a] = 0
                                  /\ flight[a].phase = "idle"

(* Observations come in finite sets, so that registrations can be counted.  *)
FiniteSeen == \A a \in Actions : /\ IsFiniteSet(flight[a].seen)
                                 /\ \A S \in known[a] : IsFiniteSet(S)

IInv == TypeOK /\ NotTwice /\ NotLost /\ FlightCount /\ AtSeed /\ FiniteSeen

-----------------------------------------------------------------------------
(* The release of n waiting inputs never underflows.                        *)
LEMMA LessNat ==
  ASSUME NEW n \in Nat, NEW k \in Nat
  PROVE  Less(n, k) \in Nat /\ Less(n, k) <= n
BY DEF Less

(* The sets the scheduler counts are finite.                                *)
LEMMA FiniteGraph ==
  /\ IsFiniteSet(Actions) /\ IsFiniteSet(Artifacts) /\ IsFiniteSet(Targets)
  /\ \A a \in Actions : IsFiniteSet(NeedsDigest(a)) /\ Cardinality(NeedsDigest(a)) \in Nat
  /\ \A a, c \in Actions : Edges(a, c) \in Nat
<1>1. IsFiniteSet(Actions) /\ IsFiniteSet(Artifacts)
  BY GraphAssumption DEF ValidGraph
<1>2. IsFiniteSet(Targets)
  BY <1>1, FS_Subset DEF Targets
<1>3. ASSUME NEW a \in Actions
      PROVE  /\ IsFiniteSet(NeedsDigest(a)) /\ Cardinality(NeedsDigest(a)) \in Nat
             /\ \A c \in Actions : Edges(c, a) \in Nat
  <2>1. Consumes[a] \subseteq Artifacts
    BY GraphAssumption DEF ValidGraph
  <2>2. IsFiniteSet(Consumes[a])
    BY <1>1, <2>1, FS_Subset
  <2>3. IsFiniteSet(NeedsDigest(a))
    BY <2>2, FS_Subset DEF NeedsDigest
  <2>4. Cardinality(NeedsDigest(a)) \in Nat
    BY <2>3, FS_CardinalityType
  <2>5. ASSUME NEW c \in Actions PROVE Edges(c, a) \in Nat
    <3>1. IsFiniteSet(Consumes[a] \cap Outputs(c))
      BY <2>2, FS_Subset, Consumes[a] \cap Outputs(c) \subseteq Consumes[a]
    <3>. QED BY <3>1, FS_CardinalityType DEF Edges
  <2>. QED BY <2>3, <2>4, <2>5
<1>. QED BY <1>1, <1>2, <1>3

(* What a function takes a finite set onto is finite.                       *)
LEMMA ImageFinite ==
  ASSUME NEW S, IsFiniteSet(S), NEW T, NEW f \in [S -> T], \A t \in T : \E x \in S : f[x] = t
  PROVE  IsFiniteSet(T)
<1>1. f \in Surjection(S, T)
  BY DEF Surjection
<1>. QED BY <1>1, FS_Surjection

(* Finitely many observations depend on finitely many targets.              *)
LEMMA WaitsFinite ==
  ASSUME NEW a \in Actions, NEW S, IsFiniteSet(S)
  PROVE  IsFiniteSet(Waits(a, S))
<1> DEFINE P == Actions \X (S \X Targets)
           f == [p \in P |-> <<p[1], p[2][1], p[2][2]>>]
<1>1. IsFiniteSet(P)
  BY FiniteGraph, FS_Product
<1>2. \A t \in Actions \X S \X Targets : \E p \in P : f[p] = t
  <2>1. SUFFICES ASSUME NEW t \in Actions \X S \X Targets PROVE \E p \in P : f[p] = t
    OBVIOUS
  <2>2. <<t[1], <<t[2], t[3]>>>> \in P /\ t = <<t[1], t[2], t[3]>>
    OBVIOUS
  <2>. QED BY <2>2
<1>3. IsFiniteSet(Actions \X S \X Targets)
  <2>1. f \in [P -> Actions \X S \X Targets]
    OBVIOUS
  <2> HIDE DEF f, P
  <2>. QED BY <1>1, <1>2, <2>1, ImageFinite
<1>. QED BY <1>3, FS_Subset DEF Waits

(* defer_observations registers a natural number of times, and at least     *)
(* once when it defers.                                                     *)
LEMMA WaitsCount ==
  ASSUME NEW a \in Actions, NEW S, IsFiniteSet(S)
  PROVE  /\ Cardinality(Waits(a, S)) \in Nat
         /\ Waits(a, S) # {} => Cardinality(Waits(a, S)) > 0
         /\ \A q \in Actions : Cardinality({r \in Waits(a, S) : r[1] = q}) \in Nat
<1>1. IsFiniteSet(Waits(a, S))
  BY WaitsFinite
<1>2. ASSUME NEW q \in Actions PROVE Cardinality({r \in Waits(a, S) : r[1] = q}) \in Nat
  BY <1>1, FS_Subset, FS_CardinalityType
<1>. QED BY <1>1, <1>2, FS_CardinalityType, FS_EmptySet

(* What an execution saw, and the observations it made, are finite sets.    *)
LEMMA SeenFinite ==
  ASSUME NEW S, IsFiniteSet(S)
  PROVE  IsFiniteSet(See(S)) /\ IsFiniteSet({Observe(pr) : pr \in S})
<1>1. IsFiniteSet(See(S))
  <2> DEFINE f == [o \in S |-> <<o, View(o)>>]
  <2>1. f \in [S -> See(S)] /\ \A t \in See(S) : \E o \in S : f[o] = t
    BY DEF See
  <2> HIDE DEF f
  <2>. QED BY <2>1, ImageFinite
<1>2. IsFiniteSet({Observe(pr) : pr \in S})
  <2> DEFINE T == {Observe(pr) : pr \in S}
             f == [pr \in S |-> Observe(pr)]
  <2>1. f \in [S -> T] /\ \A t \in T : \E pr \in S : f[pr] = t
    OBVIOUS
  <2> HIDE DEF f, T
  <2>2. IsFiniteSet(T)
    BY <2>1, ImageFinite
  <2>. QED BY <2>2 DEF T
<1>. QED BY <1>1, <1>2

(* So are the observations of a flight.                                     *)
LEMMA ObsFinite ==
  ASSUME NEW a \in Actions, IsFiniteSet(flight[a].seen)
  PROVE  IsFiniteSet(Obs(a))
<1> DEFINE f == [p \in flight[a].seen |-> p[1]]
<1>1. f \in [flight[a].seen -> Obs(a)] /\ \A t \in Obs(a) : \E p \in flight[a].seen : f[p] = t
  BY DEF Obs
<1> HIDE DEF f
<1>. QED BY <1>1, ImageFinite

(* There are finitely many flights to count.                                *)
LEMMA FlightsFinite == IsFiniteSet(Flights)
BY FiniteGraph, FS_Subset DEF Flights

-----------------------------------------------------------------------------
(* The state spn_dag_run_executor sets up satisfies the invariant.          *)
LEMMA InitInv == Init => IInv
<1> SUFFICES ASSUME Init PROVE IInv
  OBVIOUS
<1>1. TypeOK
  BY InputAssumption DEF Init, TypeOK, FlightOK, Idle, Errs, Phases
<1>2. NotTwice
  BY DEF Init, NotTwice, InFlight, Finishing, Idle
<1>6. NotLost
  BY DEF Init, NotLost
<1>3. FlightCount
  <2>1. Flights = {}
    BY DEF Init, Flights, InFlight, Idle
  <2>. QED BY <2>1, FS_EmptySet DEF FlightCount, Init
<1>4. AtSeed
  BY DEF Init, AtSeed, Idle
<1>5. FiniteSeen
  <2>1. \A a \in Actions : flight[a].seen = {}
    BY DEF Init, Idle
  <2>2. ASSUME NEW a \in Actions, NEW S \in known[a] PROVE IsFiniteSet(S)
    <3>1. known[a] \in {{X} : X \in Pathsets[a]} \cup {{}}
      BY DEF Init
    <3>2. S \in Pathsets[a]
      BY <3>1, <2>2
    <3>. QED BY <3>2, InputAssumption
  <2>. QED BY <2>1, <2>2, FS_EmptySet DEF FiniteSeen
<1>. QED BY <1>1, <1>2, <1>3, <1>4, <1>5, <1>6 DEF IInv

-----------------------------------------------------------------------------
(* A step that leaves the schedule alone and neither starts nor ends a       *)
(* flight keeps the scheduler's part of the invariant.                       *)
LEMMA SameSchedule ==
  ASSUME IInv, UNCHANGED <<pc, cur, err, sched, in_flight>>,
         \A b \in Actions : InFlight(b)' <=> InFlight(b),
         \A b \in Actions : flight[b].phase = "idle" => flight'[b].phase = "idle"
  PROVE  NotTwice' /\ NotLost' /\ FlightCount' /\ AtSeed'
<1>1. NotTwice' /\ NotLost'
  BY DEF IInv, NotTwice, NotLost, Finishing, sched
<1>2. Flights' = Flights
  BY DEF Flights
<1>3. FlightCount'
  BY <1>2 DEF IInv, FlightCount
<1>4. AtSeed'
  BY DEF IInv, AtSeed, sched
<1>. QED BY <1>1, <1>3, <1>4

(* What flight_run does on a worker disturbs neither the schedule nor the   *)
(* count: a flight only moves on.                                           *)
LEMMA WorkerInv ==
  ASSUME IInv, NEW a \in Actions, Worker(a)
  PROVE  IInv'
<1>1. /\ UNCHANGED <<pc, cur, err, turns, sched, in_flight, known, cancel>>
      /\ scratch' \in {scratch, scratch \cup {a}}
  BY DEF Worker, FlightStart, LookupAbsent, LookupRestore, Execute
<1>2. /\ flight' = [flight EXCEPT ![a] = flight'[a]]
      /\ FlightOK(flight'[a])
      /\ flight[a].phase # "idle" /\ InFlight(a) /\ InFlight(a)'
      /\ IsFiniteSet(flight'[a].seen)
  <2>0. /\ FlightOK(flight[a]) /\ flight = [b \in Actions |-> flight[b]]
        /\ IsFiniteSet(flight[a].seen) /\ completed \in Nat
    BY DEF IInv, TypeOK, FiniteSeen
  <2>1. CASE FlightStart(a)
    BY <2>0, <2>1 DEF FlightStart, FlightOK, Phases, InFlight
  <2>2. CASE LookupAbsent(a)
    BY <2>0, <2>2 DEF LookupAbsent, Missed, FlightOK, Phases, InFlight
  <2>3. CASE LookupRestore(a)
    <3>1. PICK S \in Candidates(a) :
            \/ flight' = [flight EXCEPT ![a].phase = "landed", ![a].hit = TRUE, ![a].seen = See(S)]
            \/ Missed(a)
      BY <2>3 DEF LookupRestore
    <3>2. IsFiniteSet(See(S))
      BY <3>1, SeenFinite, FS_EmptySet DEF IInv, FiniteSeen, Candidates
    <3>3. flight[a].phase = "started"
      BY <2>3 DEF LookupRestore
    <3>. QED BY <2>0, <3>1, <3>2, <3>3 DEF Missed, FlightOK, Phases, InFlight
  <2>4. CASE Execute(a)
    <3>1. PICK S \in Probes[a], failed \in BOOLEAN :
            flight' = [flight EXCEPT ![a].phase = "landed", ![a].failed = failed,
                                     ![a].seen = See({Observe(pr) : pr \in S})]
      BY <2>4 DEF Execute
    <3>2. IsFiniteSet(S)
      BY InputAssumption
    <3>3. IsFiniteSet(See({Observe(pr) : pr \in S}))
      BY <3>2, SeenFinite
    <3>4. flight[a].phase = "missed"
      BY <2>4 DEF Execute
    <3>. QED BY <2>0, <3>1, <3>3, <3>4 DEF FlightOK, Phases, InFlight
  <2>. QED BY <2>1, <2>2, <2>3, <2>4 DEF Worker
<1>3. /\ disk' \in [Targets -> {"none", "old", "cur"}]
      /\ blob' \in [Artifacts -> {"gone", "shared", "good"}]
      /\ wrote' \in [Actions -> BOOLEAN] /\ entry' \subseteq Actions
  <2>1. CASE FlightStart(a) \/ LookupAbsent(a)
    BY <2>1 DEF FlightStart, LookupAbsent, store, IInv, TypeOK
  <2>2. CASE LookupRestore(a)
    BY <2>2 DEF LookupRestore, Forget, Settle, SettleWrote, IInv, TypeOK
  <2>3. CASE Execute(a)
    BY <2>3 DEF Execute, PutOutputs, IInv, TypeOK
  <2>. QED BY <2>1, <2>2, <2>3 DEF Worker
<1>4. TypeOK'
  BY <1>1, <1>2, <1>3 DEF IInv, TypeOK, sched
<1>5. NotTwice' /\ NotLost' /\ FlightCount' /\ AtSeed'
  <2>1. \A b \in Actions : InFlight(b)' <=> InFlight(b)
    BY <1>2 DEF InFlight, IInv, TypeOK
  <2>2. \A b \in Actions : flight[b].phase = "idle" => flight'[b].phase = "idle"
    BY <1>2 DEF IInv, TypeOK
  <2>. QED BY <1>1, <2>1, <2>2, SameSchedule
<1>6. FiniteSeen'
  BY <1>1, <1>2 DEF IInv, TypeOK, FiniteSeen
<1>. QED BY <1>4, <1>5, <1>6 DEF IInv

-----------------------------------------------------------------------------
(* The pieces the main thread's steps are made of.                          *)

(* A landed flight put back to idle is no longer counted.                   *)
LEMMA RestCounted ==
  ASSUME IInv, NEW a \in Actions, InFlight(a), Rest(a), in_flight' = in_flight - 1
  PROVE  /\ flight' = [b \in Actions |-> flight'[b]]
         /\ \A b \in Actions : FlightOK(flight'[b]) /\ flight'[b].seen = flight[b].seen
         /\ \A b \in Actions : InFlight(b)' <=> b # a /\ InFlight(b)
         /\ in_flight' \in Nat /\ FlightCount'
<1>0. flight = [b \in Actions |-> flight[b]] /\ \A b \in Actions : FlightOK(flight[b])
  BY DEF IInv, TypeOK
<1>1. /\ flight' = [b \in Actions |-> flight'[b]]
      /\ \A b \in Actions : b # a => flight'[b] = flight[b]
      /\ flight'[a] = [flight[a] EXCEPT !.phase = "idle"]
  BY <1>0 DEF Rest
<1>2. \A b \in Actions : FlightOK(flight'[b]) /\ flight'[b].seen = flight[b].seen
  BY <1>0, <1>1 DEF FlightOK, Phases
<1>3. \A b \in Actions : InFlight(b)' <=> b # a /\ InFlight(b)
  BY <1>0, <1>1 DEF InFlight, FlightOK
<1>4. a \in Flights /\ Flights' = Flights \ {a}
  BY <1>3 DEF Flights
<1>5. Cardinality(Flights') = Cardinality(Flights) - 1 /\ Cardinality(Flights') \in Nat
  BY <1>4, FlightsFinite, FS_RemoveElement, FS_CardinalityType
<1>6. in_flight' \in Nat /\ FlightCount'
  BY <1>5 DEF FlightCount, IInv
<1>. QED BY <1>1, <1>2, <1>3, <1>6

(* A submission is counted, and only its action is in flight besides.       *)
LEMMA SubmitCounted ==
  ASSUME IInv, NEW a \in Actions, ~InFlight(a), Submit(a)
  PROVE  /\ flight' = [b \in Actions |-> flight'[b]]
         /\ \A b \in Actions : FlightOK(flight'[b]) /\ IsFiniteSet(flight'[b].seen)
         /\ \A b \in Actions : InFlight(b)' <=> b = a \/ InFlight(b)
         /\ in_flight' \in Nat /\ FlightCount'
<1>0. /\ flight = [b \in Actions |-> flight[b]]
      /\ \A b \in Actions : FlightOK(flight[b]) /\ IsFiniteSet(flight[b].seen)
  BY DEF IInv, TypeOK, FiniteSeen
<1>1. /\ flight' = [b \in Actions |-> flight'[b]]
      /\ \A b \in Actions : b # a => flight'[b] = flight[b]
      /\ flight'[a] = [Idle EXCEPT !.phase = "queued"]
  BY <1>0 DEF Submit
<1>2. FlightOK(flight'[a]) /\ flight'[a].seen = {} /\ flight'[a].phase = "queued"
  BY <1>1 DEF FlightOK, Idle, Phases
<1>3. \A b \in Actions : FlightOK(flight'[b]) /\ IsFiniteSet(flight'[b].seen)
  BY <1>0, <1>1, <1>2, FS_EmptySet
<1>4. \A b \in Actions : InFlight(b)' <=> b = a \/ InFlight(b)
  BY <1>1, <1>2 DEF InFlight
<1>5. a \notin Flights /\ Flights' = Flights \cup {a}
  BY <1>4 DEF Flights
<1>6. Cardinality(Flights') = Cardinality(Flights) + 1 /\ Cardinality(Flights) \in Nat
  BY <1>5, FlightsFinite, FS_AddElement, FS_CardinalityType
<1>7. in_flight' \in Nat /\ FlightCount'
  BY <1>6 DEF FlightCount, IInv, Submit
<1>. QED BY <1>1, <1>3, <1>4, <1>7

(* A deferred action has registrations to wait for; nobody else gets any.   *)
LEMMA DeferCounted ==
  ASSUME IInv, NEW a \in Actions, NEW S, IsFiniteSet(S), Defer(a, S)
  PROVE  /\ deferred' \in [Actions -> Nat] /\ waiters' \in [Actions -> [Actions -> Nat]]
         /\ deferred'[a] > 0
         /\ \A b \in Actions : b # a => deferred'[b] = deferred[b]
<1>0. deferred \in [Actions -> Nat] /\ waiters \in [Actions -> [Actions -> Nat]]
  BY DEF IInv, TypeOK
<1>1. /\ Cardinality(Waits(a, S)) \in Nat /\ Cardinality(Waits(a, S)) > 0
      /\ \A q \in Actions : Cardinality({r \in Waits(a, S) : r[1] = q}) \in Nat
  BY WaitsCount DEF Defer
<1> DEFINE W(q) == Cardinality({r \in Waits(a, S) : r[1] = q})
<1>2. /\ deferred' = [deferred EXCEPT ![a] = @ + Cardinality(Waits(a, S))]
      /\ waiters' = [q \in Actions |-> [waiters[q] EXCEPT ![a] = @ + W(q)]]
  BY DEF Defer
<1>3. \A q \in Actions : W(q) \in Nat
  BY <1>1
<1> HIDE DEF W
<1>. QED BY <1>0, <1>1, <1>2, <1>3

(* A commit keeps the types of the store, and finishes a or ends the loop.  *)
LEMMA CommitTypes ==
  ASSUME IInv, NEW a \in Actions, Commit(a)
  PROVE  /\ disk' \in [Targets -> {"none", "old", "cur"}]
         /\ blob' \in [Artifacts -> {"gone", "shared", "good"}]
         /\ wrote' \in [Actions -> BOOLEAN] /\ entry' \subseteq Actions
         /\ scratch' \subseteq Actions /\ err' \in Errs
         /\ DOMAIN known' = Actions
         /\ \A b \in Actions : \A S \in known'[b] : IsFiniteSet(S)
         /\ \/ pc' = "finish" /\ cur' = a
            \/ pc' = "loop" /\ err' # "ok"
<1>0. TypeOK /\ FiniteSeen
  BY DEF IInv
<1>1. /\ disk' \in [Targets -> {"none", "old", "cur"}]
      /\ blob' \in [Artifacts -> {"gone", "shared", "good"}]
      /\ wrote' \in [Actions -> BOOLEAN]
  BY <1>0 DEF Commit, Settle, SettleWrote, TypeOK
<1>2. entry' \subseteq Actions /\ scratch' \subseteq Actions /\ err' \in Errs
  BY <1>0 DEF Commit, Record, Discard, TypeOK, Errs
<1>3. DOMAIN known' = Actions /\ \A b \in Actions : known'[b] \in {known[b], {Obs(a)}}
  BY <1>0 DEF Commit, StorePathset, TypeOK
<1>4. IsFiniteSet(Obs(a))
  BY <1>0, ObsFinite DEF FiniteSeen
<1>5. \A b \in Actions : \A S \in known'[b] : IsFiniteSet(S)
  BY <1>0, <1>3, <1>4 DEF FiniteSeen
<1>6. \/ pc' = "finish" /\ cur' = a
      \/ pc' = "loop" /\ err' # "ok"
  BY DEF Commit
<1>. QED BY <1>1, <1>2, <1>3, <1>5, <1>6

-----------------------------------------------------------------------------
(* The steps of the main thread.                                            *)

(* seed_ready leaves every action waiting for an input or ready, not both.  *)
LEMMA SeedInv ==
  ASSUME IInv, Seed
  PROVE  IInv'
<1>1. /\ pc = "seed" /\ pc' \in {"loop", "ended"}
      /\ UNCHANGED <<cur, turns, deferred, waiters, parked, done, done_epoch, completed,
                     in_flight, flight, scratch, store, known, cancel>>
  BY DEF Seed
<1>2. /\ done = {} /\ parked = {} /\ ready = {}
      /\ \A a \in Actions : deferred[a] = 0 /\ pending[a] = 0 /\ ~InFlight(a)
  BY <1>1 DEF IInv, AtSeed, InFlight
<1>3. CASE \E t \in Sources : disk[t] = "none"
  <2>1. err' = "missing_input" /\ UNCHANGED <<pending, ready>>
    BY <1>3 DEF Seed
  <2>2. TypeOK'
    BY <1>1, <2>1 DEF IInv, TypeOK, Errs, store
  <2>3. NotTwice' /\ NotLost' /\ FlightCount' /\ AtSeed' /\ FiniteSeen'
    BY <1>1, <1>2, <2>1 DEF IInv, NotTwice, NotLost, FlightCount, Flights, AtSeed, FiniteSeen,
                            InFlight, Finishing
  <2>. QED BY <2>2, <2>3 DEF IInv
<1>4. CASE ~\E t \in Sources : disk[t] = "none"
  <2>1. /\ pending' = [a \in Actions |-> Cardinality(NeedsDigest(a))]
        /\ ready' = {a \in Actions : NeedsDigest(a) = {}}
        /\ err' = err
    BY <1>4 DEF Seed
  <2>2. TypeOK'
    BY <1>1, <2>1, FiniteGraph DEF IInv, TypeOK, store
  <2>3. \A a \in Actions : pending'[a] > 0 <=> a \notin ready'
    <3>1. \A a \in Actions : Cardinality(NeedsDigest(a)) = 0 <=> NeedsDigest(a) = {}
      BY FiniteGraph, FS_EmptySet
    <3>. QED BY <2>1, <3>1, FiniteGraph
  <2>4. NotTwice' /\ NotLost'
    BY <1>1, <1>2, <2>3 DEF NotTwice, NotLost, InFlight, Finishing
  <2>5. FlightCount' /\ AtSeed' /\ FiniteSeen'
    BY <1>1, <1>2 DEF IInv, FlightCount, Flights, AtSeed, FiniteSeen, InFlight
  <2>. QED BY <2>2, <2>4, <2>5 DEF IInv
<1>. QED BY <1>3, <1>4

(* Released holds exactly the actions that stop waiting, so each waiting    *)
(* action is still waiting or has become ready.                             *)
LEMMA FinishInv ==
  ASSUME IInv, FinishAction
  PROVE  IInv'
<1>0. /\ TypeOK /\ NotTwice /\ NotLost /\ pc = "finish" /\ pc' = "loop" /\ cur \in Actions
      /\ done' = done \cup {cur} /\ completed' = completed + 1
      /\ done_epoch' = [done_epoch EXCEPT ![cur] = completed + 1]
      /\ pending' = [c \in Actions |-> Less(pending[c], Edges(cur, c))]
      /\ deferred' = [c \in Actions |-> Less(deferred[c], waiters[cur][c])]
      /\ ready' = ready \cup Released(pending', deferred')
      /\ UNCHANGED <<cur, err, turns, waiters, parked, in_flight, flight, scratch, store, known, cancel>>
  BY DEF FinishAction, IInv, TypeOK
<1>1. \A c \in Actions : /\ pending[c] \in Nat /\ pending'[c] \in Nat /\ pending'[c] <= pending[c]
                        /\ deferred[c] \in Nat /\ deferred'[c] \in Nat /\ deferred'[c] <= deferred[c]
  <2>1. \A c \in Actions : /\ pending[c] \in Nat /\ deferred[c] \in Nat
                          /\ Edges(cur, c) \in Nat /\ waiters[cur][c] \in Nat
    BY <1>0, FiniteGraph DEF TypeOK
  <2>. QED BY <1>0, <2>1, LessNat
<1>2. pending' \in [Actions -> Nat] /\ deferred' \in [Actions -> Nat]
  BY <1>0, <1>1
<1>3. \A c \in Actions :
        c \in ready' <=>
          \/ c \in ready
          \/ pending[c] > 0 /\ pending'[c] = 0
          \/ deferred[c] > 0 /\ deferred'[c] = 0
  BY <1>0 DEF Released, TypeOK
<1>4. TypeOK'
  <2>1. ready' \subseteq Actions
    BY <1>0 DEF Released, TypeOK
  <2>2. completed' \in Nat /\ done_epoch' \in [Actions -> Nat]
    BY <1>0 DEF TypeOK
  <2>. QED BY <1>0, <1>2, <2>1, <2>2 DEF TypeOK, store
<1>5. \A c \in Actions : InFlight(c)' <=> InFlight(c)
  BY <1>0 DEF InFlight
<1>6. NotTwice'
  BY <1>0, <1>1, <1>3, <1>5 DEF NotTwice, Finishing
<1>7. NotLost'
  BY <1>0, <1>1, <1>3, <1>5 DEF NotLost, Finishing
<1>8. FlightCount' /\ AtSeed' /\ FiniteSeen'
  BY <1>0, <1>5 DEF IInv, FlightCount, Flights, AtSeed, FiniteSeen
<1>. QED BY <1>4, <1>6, <1>7, <1>8 DEF IInv

(* Whatever becomes of a landed flight, its action is in one place again.   *)
LEMMA CompleteInv ==
  ASSUME IInv, NEW a \in Actions, NEW e \in Errs, e = "ok" => err = "ok", Complete(a, e),
         pc \in {"loop", "poll"}, turns' \in Nat, UNCHANGED cancel
  PROVE  IInv'
<1>0. TypeOK /\ NotTwice /\ NotLost /\ FiniteSeen
  BY DEF IInv
<1>1. InFlight(a) /\ Rest(a) /\ in_flight' = in_flight - 1
  BY DEF Complete, Landed, InFlight
<1>2. /\ flight' = [b \in Actions |-> flight'[b]]
      /\ \A b \in Actions : FlightOK(flight'[b]) /\ flight'[b].seen = flight[b].seen
      /\ \A b \in Actions : InFlight(b)' <=> b # a /\ InFlight(b)
      /\ in_flight' \in Nat /\ FlightCount'
  BY <1>1, RestCounted
<1>3. /\ pending[a] = 0 /\ deferred[a] = 0
      /\ a \notin ready /\ a \notin parked /\ a \notin done
      /\ \A b \in Actions : ~Finishing(b)
  <2>1. pending[a] \in Nat /\ deferred[a] \in Nat
    BY <1>0 DEF TypeOK
  <2>. QED BY <1>0, <1>1, <2>1 DEF NotTwice, Finishing
<1>4. /\ IsFiniteSet(Obs(a))
      /\ \A b \in Actions : IsFiniteSet(flight'[b].seen)
  BY <1>0, <1>2, ObsFinite DEF FiniteSeen
<1>5. AtSeed'
  <2>1. pc' # "seed"
    BY DEF Complete, Commit
  <2>. QED BY <2>1 DEF AtSeed
(* The rest by the five ways a completion can end.                          *)
<1>6. ASSUME /\ err' \in Errs \ {"ok"} /\ pc' = "loop"
             /\ scratch' \in {scratch, scratch \ {a}} /\ UNCHANGED <<cur, sched, store, known>>
      PROVE  IInv'
  <2>1. TypeOK'
    BY <1>0, <1>2, <1>6 DEF TypeOK, sched, store
  <2>2. NotTwice' /\ NotLost' /\ FiniteSeen'
    BY <1>0, <1>2, <1>4, <1>6 DEF NotTwice, NotLost, FiniteSeen, Finishing, sched
  <2>. QED BY <1>2, <1>5, <2>1, <2>2 DEF IInv
<1>7. ASSUME pc' = "finish", cur' = a, err' = e, UNCHANGED <<sched, scratch, store, known>>
      PROVE  IInv'
  <2>1. TypeOK'
    BY <1>0, <1>2, <1>7 DEF TypeOK, sched, store
  <2>2. NotTwice' /\ NotLost' /\ FiniteSeen'
    BY <1>0, <1>2, <1>3, <1>4, <1>7 DEF NotTwice, NotLost, FiniteSeen, Finishing, sched
  <2>. QED BY <1>2, <1>5, <2>1, <2>2 DEF IInv
<1>8. ASSUME Defer(a, Obs(a)), parked' = parked \cup {a}, pc' = "loop", err' = e,
             UNCHANGED <<cur, pending, done, done_epoch, ready, completed, scratch, store, known>>
      PROVE  IInv'
  <2>1. /\ deferred' \in [Actions -> Nat] /\ waiters' \in [Actions -> [Actions -> Nat]]
        /\ deferred'[a] > 0
        /\ \A b \in Actions : b # a => deferred'[b] = deferred[b]
    BY <1>4, <1>8, DeferCounted
  <2>2. TypeOK'
    BY <1>0, <1>2, <1>8, <2>1 DEF TypeOK, store
  <2>3. NotTwice' /\ NotLost' /\ FiniteSeen'
    BY <1>0, <1>2, <1>3, <1>4, <1>8, <2>1 DEF NotTwice, NotLost, FiniteSeen, Finishing
  <2>. QED BY <1>2, <1>5, <2>2, <2>3 DEF IInv
<1>9. ASSUME Discard(a), ready' = ready \cup {a}, pc' = "loop", err' = e,
             UNCHANGED <<cur, pending, deferred, waiters, parked, done, done_epoch, completed, store, known>>
      PROVE  IInv'
  <2>1. TypeOK'
    BY <1>0, <1>2, <1>9 DEF TypeOK, store, Discard
  <2>2. NotTwice' /\ NotLost' /\ FiniteSeen'
    BY <1>0, <1>2, <1>3, <1>4, <1>9 DEF NotTwice, NotLost, FiniteSeen, Finishing
  <2>. QED BY <1>2, <1>5, <2>1, <2>2 DEF IInv
<1>10. ASSUME Commit(a), UNCHANGED sched, e = "ok" PROVE IInv'
  <2>1. /\ disk' \in [Targets -> {"none", "old", "cur"}]
        /\ blob' \in [Artifacts -> {"gone", "shared", "good"}]
        /\ wrote' \in [Actions -> BOOLEAN] /\ entry' \subseteq Actions
        /\ scratch' \subseteq Actions /\ err' \in Errs
        /\ DOMAIN known' = Actions
        /\ \A b \in Actions : \A S \in known'[b] : IsFiniteSet(S)
        /\ \/ pc' = "finish" /\ cur' = a
           \/ pc' = "loop" /\ err' # "ok"
    BY <1>10, CommitTypes
  <2>2. TypeOK'
    BY <1>0, <1>2, <1>10, <2>1 DEF TypeOK, sched
  <2>3. NotTwice' /\ NotLost' /\ FiniteSeen'
    BY <1>0, <1>2, <1>3, <1>4, <1>10, <2>1 DEF NotTwice, NotLost, FiniteSeen, Finishing, sched
  <2>. QED BY <1>2, <1>5, <2>2, <2>3 DEF IInv
<1>. QED
  <2>1. CASE e # "ok" \/ flight[a].failed
    <3>1. /\ err' \in Errs \ {"ok"} /\ pc' = "loop"
          /\ scratch' \in {scratch, scratch \ {a}} /\ UNCHANGED <<cur, sched, store, known>>
      BY <2>1 DEF Complete, Errs, Discard
    <3>. QED BY <3>1, <1>6
  <2>2. CASE e = "ok" /\ ~flight[a].failed
    BY <2>2, <1>7, <1>8, <1>9, <1>10 DEF Complete
  <2>. QED BY <2>1, <2>2

(* A popped action is deferred again, submitted, or committed.              *)
LEMMA DispatchInv ==
  ASSUME IInv, NEW a \in Actions, TurnDispatch(a)
  PROVE  IInv'
<1>0. TypeOK /\ NotTwice /\ NotLost /\ FiniteSeen /\ FlightCount
  BY DEF IInv
<1>1. /\ pc = "loop" /\ err = "ok" /\ a \in ready /\ turns' \in Nat /\ ready' = ready \ {a}
      /\ UNCHANGED <<pending, done, done_epoch, completed, cancel>>
  BY <1>0 DEF TurnDispatch, Checked, TypeOK
<1>2. /\ pending[a] = 0 /\ deferred[a] = 0 /\ ~InFlight(a) /\ a \notin done
      /\ \A b \in Actions : ~Finishing(b)
  <2>1. pending[a] \in Nat /\ deferred[a] \in Nat
    BY <1>0 DEF TypeOK
  <2>. QED BY <1>0, <1>1, <2>1 DEF NotTwice, Finishing
<1>3. IsFiniteSet(Obs(a)) /\ \A S \in known[a] : IsFiniteSet(S)
  BY <1>0, ObsFinite DEF FiniteSeen
<1>4. AtSeed'
  <2>1. pc' # "seed"
    BY DEF TurnDispatch, DispatchParked, DispatchFresh, Commit
  <2>. QED BY <2>1 DEF AtSeed
(* Deferred, on what it saw or on a stored pathset.                         *)
<1>5. ASSUME NEW S, IsFiniteSet(S), Defer(a, S), parked' \subseteq parked \cup {a},
             scratch' \subseteq scratch, \A b \in Actions : b # a => (b \in parked' <=> b \in parked),
             pc' = "loop", UNCHANGED <<cur, err, flight, in_flight, store, known>>
      PROVE  IInv'
  <2>1. /\ deferred' \in [Actions -> Nat] /\ waiters' \in [Actions -> [Actions -> Nat]]
        /\ deferred'[a] > 0
        /\ \A b \in Actions : b # a => deferred'[b] = deferred[b]
    BY <1>5, DeferCounted
  <2>2. TypeOK'
    BY <1>0, <1>1, <1>5, <2>1 DEF TypeOK, store
  <2>3. \A b \in Actions : InFlight(b)' <=> InFlight(b)
    BY <1>5 DEF InFlight
  <2>4. NotTwice'
    BY <1>0, <1>1, <1>2, <1>5, <2>1, <2>3 DEF NotTwice, Finishing
  <2>5. NotLost'
    BY <1>0, <1>1, <1>2, <1>5, <2>1, <2>3 DEF NotLost, Finishing
  <2>6. FiniteSeen' /\ FlightCount'
    BY <1>0, <1>5, <2>3 DEF FiniteSeen, FlightCount, Flights
  <2>. QED BY <1>4, <2>2, <2>4, <2>5, <2>6 DEF IInv
<1>6. CASE DispatchParked(a)
  <2>1. CASE Defer(a, Obs(a)) /\ pc' = "loop" /\ UNCHANGED <<cur, err, parked, scratch, flight, store, known>>
    <3>1. in_flight' = in_flight
      BY <1>6 DEF DispatchParked
    <3>. QED BY <1>3, <1>5, <2>1, <3>1
  <2>2. CASE parked' = parked \ {a} /\ Commit(a) /\ UNCHANGED <<deferred, waiters, flight>>
    <3>1. /\ disk' \in [Targets -> {"none", "old", "cur"}]
          /\ blob' \in [Artifacts -> {"gone", "shared", "good"}]
          /\ wrote' \in [Actions -> BOOLEAN] /\ entry' \subseteq Actions
          /\ scratch' \subseteq Actions /\ err' \in Errs
          /\ DOMAIN known' = Actions
          /\ \A b \in Actions : \A S \in known'[b] : IsFiniteSet(S)
          /\ \/ pc' = "finish" /\ cur' = a
             \/ pc' = "loop" /\ err' # "ok"
      BY <2>2, CommitTypes
    <3>2. in_flight' = in_flight /\ \A b \in Actions : InFlight(b)' <=> InFlight(b)
      BY <1>6, <2>2 DEF DispatchParked, InFlight
    <3>3. TypeOK'
      BY <1>0, <1>1, <2>2, <3>1, <3>2 DEF TypeOK
    <3>4. NotTwice' /\ NotLost'
      BY <1>0, <1>1, <1>2, <2>2, <3>1, <3>2 DEF NotTwice, NotLost, Finishing
    <3>5. FiniteSeen' /\ FlightCount'
      BY <1>0, <2>2, <3>1, <3>2 DEF FiniteSeen, FlightCount, Flights
    <3>. QED BY <1>4, <3>3, <3>4, <3>5 DEF IInv
  <2>. QED BY <1>6, <2>1, <2>2 DEF DispatchParked
<1>7. CASE DispatchFresh(a)
  <2>1. /\ parked' = parked \ {a} /\ scratch' \in {scratch, scratch \ {a}}
        /\ pc' = "loop" /\ UNCHANGED <<cur, err, store, known>>
    BY <1>7 DEF DispatchFresh, Discard
  <2>2. CASE (\E S \in known[a] : Defer(a, S)) /\ UNCHANGED <<flight, in_flight>>
    BY <1>3, <1>5, <2>1, <2>2
  <2>3. CASE Submit(a) /\ UNCHANGED <<deferred, waiters>>
    <3>1. /\ flight' = [b \in Actions |-> flight'[b]]
          /\ \A b \in Actions : FlightOK(flight'[b]) /\ IsFiniteSet(flight'[b].seen)
          /\ \A b \in Actions : InFlight(b)' <=> b = a \/ InFlight(b)
          /\ in_flight' \in Nat /\ FlightCount'
      BY <1>2, <2>3, SubmitCounted
    <3>2. TypeOK'
      BY <1>0, <1>1, <2>1, <2>3, <3>1 DEF TypeOK, store
    <3>3. NotTwice' /\ NotLost'
      BY <1>0, <1>1, <1>2, <2>1, <2>3, <3>1 DEF NotTwice, NotLost, Finishing
    <3>4. FiniteSeen'
      BY <1>0, <2>1, <3>1 DEF FiniteSeen
    <3>. QED BY <1>4, <3>1, <3>2, <3>3, <3>4 DEF IInv
  <2>. QED BY <1>7, <2>2, <2>3 DEF DispatchFresh
<1>. QED BY <1>6, <1>7 DEF TurnDispatch

-----------------------------------------------------------------------------
(* Every step keeps the invariant: one case per action.                     *)
LEMMA StepInv == IInv /\ [Next]_vars => IInv'
<1> SUFFICES ASSUME IInv, [Next]_vars PROVE IInv'
  OBVIOUS
<1>0. TypeOK
  BY DEF IInv
<1>1. CASE Seed
  BY <1>1, SeedInv
<1>2. CASE FinishAction
  BY <1>2, FinishInv
<1>3. ASSUME NEW a \in Actions, TurnComplete(a) PROVE IInv'
  <2>1. Checked \in Errs /\ (Checked = "ok" => err = "ok") /\ turns' \in Nat
    BY <1>0, <1>3 DEF Checked, Errs, TypeOK, TurnComplete
  <2>. QED BY <1>3, <2>1, CompleteInv DEF TurnComplete
<1>4. ASSUME NEW a \in Actions, PollReturn(a) PROVE IInv'
  <2>1. err \in Errs /\ turns' \in Nat
    BY <1>0, <1>4 DEF TypeOK, PollReturn
  <2>. QED BY <1>4, <2>1, CompleteInv DEF PollReturn
<1>5. ASSUME NEW a \in Actions, TurnDispatch(a) PROVE IInv'
  BY <1>5, DispatchInv
<1>6. ASSUME NEW a \in Actions, Worker(a) PROVE IInv'
  BY <1>6, WorkerInv
<1>7. CASE TurnBlock \/ TurnExit
  <2>1. /\ pc = "loop" /\ pc' \in {"poll", "ended"} /\ turns' \in Nat
        /\ err' \in Errs /\ (err' = "ok" => err = "ok")
        /\ scratch' \subseteq scratch
        /\ UNCHANGED <<cur, sched, in_flight, flight, store, known, cancel>>
    BY <1>0, <1>7 DEF TurnBlock, TurnExit, Checked, Errs, TypeOK
  <2>2. TypeOK'
    BY <1>0, <2>1 DEF TypeOK, sched, store
  <2>3. \A b \in Actions : InFlight(b)' <=> InFlight(b)
    BY <2>1 DEF InFlight
  <2>4. NotTwice' /\ NotLost' /\ FiniteSeen' /\ AtSeed' /\ FlightCount'
    BY <2>1, <2>3 DEF IInv, NotTwice, NotLost, FiniteSeen, AtSeed, FlightCount, Flights, Finishing, sched
  <2>. QED BY <2>2, <2>4 DEF IInv
<1>8. CASE RequestCancel \/ Ended \/ UNCHANGED vars
  <2>1. /\ UNCHANGED <<pc, cur, err, turns, sched, in_flight, flight, scratch, store, known>>
        /\ cancel' \in BOOLEAN
    BY <1>0, <1>8 DEF RequestCancel, Ended, vars, TypeOK
  <2>2. TypeOK'
    BY <1>0, <2>1 DEF TypeOK, sched, store
  <2>3. NotTwice' /\ NotLost' /\ AtSeed' /\ FlightCount'
    BY <2>1, SameSchedule DEF InFlight
  <2>4. FiniteSeen'
    BY <2>1 DEF IInv, FiniteSeen
  <2>. QED BY <2>2, <2>3, <2>4 DEF IInv
<1>. QED BY <1>1, <1>2, <1>3, <1>4, <1>5, <1>6, <1>7, <1>8 DEF Next, Main

-----------------------------------------------------------------------------
(* The invariant holds in every run of every graph.                         *)
THEOREM Invariance == Spec => []IInv
<1>1. Init => IInv
  BY InitInv
<1>2. IInv /\ [Next]_vars => IInv'
  BY StepInv
<1>. QED BY <1>1, <1>2, PTL DEF Spec

(* Every field of spn_dag_run_executor's state keeps its type; in            *)
(* particular run.in_flight never passes below zero.                         *)
THEOREM Types == Spec => []TypeOK
<1>1. IInv => TypeOK
  BY DEF IInv
<1>. QED BY <1>1, Invariance, PTL

(* The scheduler never holds an action in two places: nothing is dispatched  *)
(* while it is in flight, deferred, or finished, however observations,       *)
(* requeues and completions interleave.                                      *)
THEOREM NeverTwice == Spec => []NotTwice
<1>1. IInv => NotTwice
  BY DEF IInv
<1>. QED BY <1>1, Invariance, PTL

(* While the run has no error no action is forgotten: a completion, a        *)
(* deferral and a release each leave it where it is taken up again.          *)
THEOREM NeverLost == Spec => []NotLost
<1>1. IInv => NotLost
  BY DEF IInv
<1>. QED BY <1>1, Invariance, PTL

-----------------------------------------------------------------------------
(* An action is only finished while the run has no error.                   *)
Calm == pc \in {"seed", "finish"} => err = "ok"

(* A scratch directory belongs to a result that has not been looked at, or  *)
(* to a parked one; and a run that ended has neither flights nor scratch.   *)
Tidy == /\ scratch \subseteq parked \cup {a \in Landed : ~flight[a].hit}
        /\ pc = "ended" => in_flight = 0 /\ scratch = {}

(* Only a restore sets flight->hit, and it lands the flight.                *)
HitsLand == \A a \in Actions : flight[a].hit => flight[a].phase \in {"idle", "landed"}

(* With the counter at zero there is no flight.                             *)
LEMMA NoFlights == ASSUME IInv, in_flight = 0 PROVE \A a \in Actions : ~InFlight(a)
<1>1. Flights = {}
  BY FlightsFinite, FS_EmptySet DEF IInv, FlightCount
<1>. QED BY <1>1 DEF Flights

(* A commit, the only way to finish, happens only without an error.         *)
LEMMA CalmStep == IInv /\ Calm /\ [Next]_vars => Calm'
<1> SUFFICES ASSUME IInv, Calm, [Next]_vars PROVE Calm'
  OBVIOUS
<1>1. CASE Seed
  BY <1>1 DEF Seed, Calm
<1>2. CASE FinishAction \/ TurnBlock \/ TurnExit
  BY <1>2 DEF FinishAction, TurnBlock, TurnExit, Calm
<1>3. ASSUME NEW a \in Actions, TurnComplete(a) \/ PollReturn(a) PROVE Calm'
  BY <1>3 DEF TurnComplete, PollReturn, Complete, Commit, Calm
<1>4. ASSUME NEW a \in Actions, TurnDispatch(a) PROVE Calm'
  BY <1>4 DEF TurnDispatch, DispatchParked, DispatchFresh, Commit, Calm
<1>5. ASSUME NEW a \in Actions, Worker(a) PROVE Calm'
  BY <1>5 DEF Worker, FlightStart, LookupAbsent, LookupRestore, Execute, Calm
<1>6. CASE RequestCancel \/ Ended \/ UNCHANGED vars
  BY <1>6 DEF RequestCancel, Ended, vars, Calm
<1>. QED BY <1>1, <1>2, <1>3, <1>4, <1>5, <1>6 DEF Next, Main

(* Steps that touch flights keep what a hit says of them.                   *)
LEMMA HitsStep == IInv /\ HitsLand /\ [Next]_vars => HitsLand'
<1> SUFFICES ASSUME IInv, HitsLand, [Next]_vars, NEW b \in Actions, flight'[b].hit
             PROVE  flight'[b].phase \in {"idle", "landed"}
  BY DEF HitsLand
<1>0. /\ flight = [c \in Actions |-> flight[c]] /\ FlightOK(flight[b])
      /\ flight[b].hit => flight[b].phase \in {"idle", "landed"}
  BY DEF IInv, TypeOK, HitsLand
<1>1. CASE flight' = flight
  BY <1>0, <1>1
<1>2. ASSUME NEW a \in Actions, TurnComplete(a) \/ PollReturn(a)
      PROVE  flight'[b].phase \in {"idle", "landed"}
  <2>1. flight' = [flight EXCEPT ![a].phase = "idle"]
    BY <1>2 DEF TurnComplete, PollReturn, Complete, Rest
  <2>. QED BY <1>0, <2>1 DEF FlightOK
<1>3. ASSUME NEW a \in Actions, Submit(a) PROVE flight'[b].phase \in {"idle", "landed"}
  BY <1>0, <1>3 DEF Submit, Idle
<1>4. ASSUME NEW a \in Actions, FlightStart(a) \/ LookupAbsent(a)
      PROVE  flight'[b].phase \in {"idle", "landed"}
  BY <1>0, <1>4 DEF FlightStart, LookupAbsent, Missed, FlightOK
<1>5. ASSUME NEW a \in Actions, LookupRestore(a) PROVE flight'[b].phase \in {"idle", "landed"}
  <2>1. PICK S : \/ flight' = [flight EXCEPT ![a].phase = "landed", ![a].hit = TRUE, ![a].seen = See(S)]
                 \/ flight' = [flight EXCEPT ![a].phase = "missed"]
    BY <1>5 DEF LookupRestore, Missed
  <2>2. flight[a].phase = "started"
    BY <1>5 DEF LookupRestore
  <2>. QED BY <1>0, <2>1, <2>2 DEF FlightOK
<1>6. ASSUME NEW a \in Actions, Execute(a) PROVE flight'[b].phase \in {"idle", "landed"}
  <2>1. PICK S, failed :
          flight' = [flight EXCEPT ![a].phase = "landed", ![a].failed = failed, ![a].seen = S]
    BY <1>6 DEF Execute
  <2>. QED BY <1>0, <2>1 DEF FlightOK
<1>. QED
  <2>1. CASE Seed \/ FinishAction \/ TurnBlock \/ TurnExit \/ RequestCancel \/ Ended \/ UNCHANGED vars
    BY <1>1, <2>1 DEF Seed, FinishAction, TurnBlock, TurnExit, RequestCancel, Ended, vars
  <2>2. ASSUME NEW a \in Actions, TurnDispatch(a) PROVE flight' = flight \/ Submit(a)
    BY <2>2 DEF TurnDispatch, DispatchParked, DispatchFresh
  <2>. QED BY <1>1, <1>2, <1>3, <1>4, <1>5, <1>6, <2>1, <2>2 DEF Next, Main, Worker

(* A scratch directory is discarded with its result, and a result is either *)
(* parked or looked at before the run may end.                              *)
LEMMA TidyStep == IInv /\ HitsLand /\ Tidy /\ [Next]_vars => Tidy'
<1> SUFFICES ASSUME IInv, HitsLand, Tidy, [Next]_vars PROVE Tidy'
  OBVIOUS
<1>0. /\ flight = [b \in Actions |-> flight[b]] /\ \A b \in Actions : FlightOK(flight[b])
      /\ \A b \in Actions : InFlight(b) => b \notin parked
      /\ \A b \in Actions : b \in scratch => b \in parked \/ (flight[b].phase = "landed" /\ ~flight[b].hit)
      /\ parked \subseteq Actions /\ scratch \subseteq Actions
  <2>1. \A b \in Actions : InFlight(b) => b \notin parked
    BY DEF IInv, NotTwice
  <2>. QED BY <2>1 DEF IInv, TypeOK, Tidy, Landed
<1>a. ASSUME /\ \A b \in Actions : b \in scratch' => b \in parked' \/ (flight'[b].phase = "landed" /\ ~flight'[b].hit)
             /\ scratch' \subseteq Actions
             /\ pc' # "ended"
      PROVE  Tidy'
  BY <1>a DEF Tidy, Landed
<1>1. CASE Seed
  <2>1. /\ UNCHANGED <<scratch, parked, flight, in_flight>>
        /\ \A b \in Actions : ~InFlight(b) /\ b \notin parked
        /\ scratch = {} /\ in_flight = 0
    <3>1. UNCHANGED <<scratch, parked, flight, in_flight>> /\ pc = "seed"
      BY <1>1 DEF Seed
    <3>2. /\ \A b \in Actions : ~InFlight(b) /\ b \notin parked /\ flight[b].phase # "landed"
          /\ Flights = {}
      BY <3>1 DEF IInv, AtSeed, InFlight, Flights
    <3>3. in_flight = 0
      BY <3>2, FS_EmptySet DEF IInv, FlightCount
    <3>. QED BY <1>0, <3>1, <3>2, <3>3
  <2>. QED BY <2>1 DEF Tidy
<1>2. CASE FinishAction \/ TurnBlock
  <2>1. UNCHANGED <<scratch, parked, flight>> /\ pc' # "ended"
    BY <1>2 DEF FinishAction, TurnBlock, sched
  <2>. QED BY <2>1 DEF Tidy, Landed
<1>3. CASE TurnExit
  <2>1. in_flight = 0 /\ UNCHANGED <<in_flight, parked, flight>> /\ scratch' = scratch \ parked
    BY <1>3 DEF TurnExit, sched
  <2>2. \A b \in Actions : flight[b].phase # "landed"
    BY <2>1, NoFlights DEF InFlight
  <2>3. scratch' = {}
    BY <1>0, <2>1, <2>2
  <2>. QED BY <2>1, <2>3 DEF Tidy
<1>4. ASSUME NEW a \in Actions, TurnComplete(a) \/ PollReturn(a) PROVE Tidy'
  <2>1. /\ flight[a].phase = "landed" /\ Rest(a) /\ pc' # "ended"
        /\ \/ scratch' = scratch \ {a} /\ parked' = parked
           \/ scratch' = scratch /\ parked' = parked \cup {a}
           \/ flight[a].hit /\ scratch' = scratch /\ parked' = parked
    BY <1>4 DEF TurnComplete, PollReturn, Complete, Commit, Discard, Landed, sched
  <2>2. \A b \in Actions : b # a => flight'[b] = flight[b]
    BY <1>0, <2>1 DEF Rest
  <2>3. InFlight(a)
    BY <2>1 DEF InFlight
  <2>. QED BY <1>0, <1>a, <2>1, <2>2, <2>3
<1>5. ASSUME NEW a \in Actions, TurnDispatch(a) PROVE Tidy'
  <2>1. ~InFlight(a) /\ pc' # "ended"
    BY <1>5 DEF IInv, NotTwice, TurnDispatch, DispatchParked, DispatchFresh, Commit
  <2>2. \A b \in Actions : b # a => flight'[b] = flight[b]
    BY <1>0, <1>5 DEF TurnDispatch, DispatchParked, DispatchFresh, Submit
  <2>3. \/ scratch' = scratch /\ parked' = parked
        \/ scratch' = scratch \ {a} /\ parked' = parked \ {a}
        \/ a \notin parked /\ scratch' = scratch /\ parked' = parked \ {a}
    BY <1>5 DEF TurnDispatch, DispatchParked, DispatchFresh, Commit, Discard
  <2>. QED BY <1>0, <1>a, <2>1, <2>2, <2>3 DEF InFlight
<1>6. ASSUME NEW a \in Actions, Worker(a) PROVE Tidy'
  <2>1. InFlight(a) /\ flight[a].phase # "landed" /\ UNCHANGED <<pc, parked>>
    BY <1>6 DEF Worker, FlightStart, LookupAbsent, LookupRestore, Execute, InFlight, sched
  <2>2. pc' # "ended"
    BY <2>1, NoFlights DEF Tidy
  <2>3. a \notin scratch
    BY <1>0, <2>1
  <2>4. \A b \in Actions : b # a => flight'[b] = flight[b]
    BY <1>0, <1>6 DEF Worker, FlightStart, LookupAbsent, LookupRestore, Missed, Execute
  <2>5. CASE FlightStart(a) \/ LookupAbsent(a) \/ LookupRestore(a)
    <3>1. scratch' = scratch
      BY <2>5 DEF FlightStart, LookupAbsent, LookupRestore
    <3>. QED BY <1>0, <1>a, <2>1, <2>2, <2>3, <2>4, <3>1
  <2>6. CASE Execute(a)
    <3>1. scratch' = scratch \cup {a} /\ flight'[a].phase = "landed" /\ flight'[a].hit = flight[a].hit
      BY <1>0, <2>6 DEF Execute, FlightOK
    <3>2. ~flight[a].hit
      BY <2>6 DEF Execute, HitsLand
    <3>. QED BY <1>0, <1>a, <2>1, <2>2, <2>4, <3>1, <3>2
  <2>. QED BY <1>6, <2>5, <2>6 DEF Worker
<1>7. CASE RequestCancel \/ Ended \/ UNCHANGED vars
  <2>1. UNCHANGED <<scratch, parked, flight, pc, in_flight>>
    BY <1>7 DEF RequestCancel, Ended, vars, sched
  <2>. QED BY <2>1 DEF Tidy, Landed
<1>. QED BY <1>1, <1>2, <1>3, <1>4, <1>5, <1>6, <1>7 DEF Next, Main

(* The second invariant, which needs the first.                             *)
THEOREM TidyRun == Spec => [](Calm /\ HitsLand /\ Tidy)
<1>1. Init => Calm /\ HitsLand /\ Tidy
  BY DEF Init, Calm, HitsLand, Tidy, Landed, Idle
<1>. QED BY <1>1, Invariance, CalmStep, HitsStep, TidyStep, PTL DEF Spec

(* However the run ends, on success, an error, a cancellation or a stall,    *)
(* attempt_discard has been called for every scratch directory.              *)
THEOREM NothingLeftBehind == Spec => []ScratchDiscarded
<1>1. Tidy => ScratchDiscarded
  BY DEF Tidy, ScratchDiscarded
<1>. QED BY <1>1, TidyRun, PTL

(* After an error the loop submits nothing, finishes nothing and keeps the   *)
(* first error: run_complete and the poll only drain the flights.            *)
THEOREM DrainsAfterError == Spec => ErrorDrains
<1> DEFINE Drain == err # "ok" => in_flight' <= in_flight /\ done' = done /\ err' = err
<1>1. IInv /\ Calm /\ [Next]_vars => [Drain]_vars
  <2> SUFFICES ASSUME IInv, Calm, Next, err # "ok"
               PROVE  in_flight' <= in_flight /\ done' = done /\ err' = err
    OBVIOUS
  <2>0. in_flight \in Nat /\ pc \notin {"seed", "finish"}
    BY DEF IInv, TypeOK, Calm
  <2>1. ASSUME NEW a \in Actions, TurnComplete(a) \/ PollReturn(a)
        PROVE  in_flight' = in_flight - 1 /\ done' = done /\ err' = err
    BY <2>1 DEF TurnComplete, PollReturn, Complete, Checked, sched
  <2>2. ASSUME NEW a \in Actions, Worker(a)
        PROVE  in_flight' = in_flight /\ done' = done /\ err' = err
    BY <2>2 DEF Worker, FlightStart, LookupAbsent, LookupRestore, Execute, sched
  <2>3. CASE TurnBlock \/ TurnExit \/ RequestCancel \/ Ended
    BY <2>0, <2>3 DEF TurnBlock, TurnExit, RequestCancel, Ended, Checked, sched, vars
  <2>4. \A a \in Actions : ~TurnDispatch(a)
    BY DEF TurnDispatch, Checked
  <2>. QED BY <2>0, <2>1, <2>2, <2>3, <2>4 DEF Next, Main, Seed, FinishAction
<1>. QED BY <1>1, Invariance, TidyRun, PTL DEF Spec, ErrorDrains

-----------------------------------------------------------------------------
(* Settling one action's outputs leaves the others' alone: an artifact has   *)
(* one producer.                                                             *)
LEMMA SettleOthers ==
  ASSUME IInv, NEW a \in Actions, NEW b \in Actions, a # b, Settle(a)
  PROVE  wrote'[b] = wrote[b] /\ \A t \in Outputs(b) \cap Targets : disk'[t] = disk[t]
<1>1. Settled(a) \subseteq Outputs(a)
  BY DEF Settled, Outputs
<1>2. Outputs(a) \cap Outputs(b) = {}
  BY GraphAssumption DEF ValidGraph
<1>3. wrote'[b] = wrote[b]
  BY DEF Settle, IInv, TypeOK
<1>. QED BY <1>1, <1>2, <1>3 DEF Settle

(* What a finished action wrote is not written again in this run, neither by *)
(* a commit on the main thread nor by a restore on a worker.                 *)
THEOREM FinishedIsFinal == Spec => FinishedStays
<1> DEFINE Stays == \A a \in done :
                      /\ a \in done' /\ done_epoch'[a] = done_epoch[a] /\ wrote'[a] = wrote[a]
                      /\ \A t \in Outputs(a) \cap Targets : disk'[t] = disk[t]
<1>1. IInv /\ [Next]_vars => [Stays]_vars
  <2> SUFFICES ASSUME IInv, Next, NEW b \in done
               PROVE  /\ b \in done' /\ done_epoch'[b] = done_epoch[b] /\ wrote'[b] = wrote[b]
                      /\ \A t \in Outputs(b) \cap Targets : disk'[t] = disk[t]
    OBVIOUS
  <2> DEFINE Goal == /\ b \in done' /\ done_epoch'[b] = done_epoch[b] /\ wrote'[b] = wrote[b]
                     /\ \A t \in Outputs(b) \cap Targets : disk'[t] = disk[t]
  <2>0. b \in Actions /\ b \notin ready /\ ~InFlight(b) /\ ~Finishing(b) /\ done_epoch \in [Actions -> Nat]
    BY DEF IInv, TypeOK, NotTwice
  <2>1. ASSUME NEW a \in Actions, a # b, Settle(a), UNCHANGED <<done, done_epoch>>
        PROVE  Goal
    BY <2>0, <2>1, SettleOthers
  <2>2. ASSUME UNCHANGED <<done, done_epoch, wrote, disk>> PROVE Goal
    BY <2>2
  <2>3. ASSUME NEW a \in Actions, TurnComplete(a) \/ PollReturn(a) PROVE Goal
    <3>1. a # b
      BY <2>0, <2>3 DEF TurnComplete, PollReturn, Complete, Landed, InFlight
    <3>2. /\ UNCHANGED <<done, done_epoch>>
          /\ Settle(a) \/ UNCHANGED <<wrote, disk>>
      BY <2>3 DEF TurnComplete, PollReturn, Complete, Commit, sched, store
    <3>. QED BY <2>1, <2>2, <3>1, <3>2
  <2>4. ASSUME NEW a \in Actions, TurnDispatch(a) PROVE Goal
    <3>1. a # b
      BY <2>0, <2>4 DEF TurnDispatch
    <3>2. /\ UNCHANGED <<done, done_epoch>>
          /\ Settle(a) \/ UNCHANGED <<wrote, disk>>
      BY <2>4 DEF TurnDispatch, DispatchParked, DispatchFresh, Commit, store
    <3>. QED BY <2>1, <2>2, <3>1, <3>2
  <2>5. ASSUME NEW a \in Actions, Worker(a) PROVE Goal
    <3>1. a # b
      BY <2>0, <2>5 DEF Worker, FlightStart, LookupAbsent, LookupRestore, Execute, InFlight
    <3>2. /\ UNCHANGED <<done, done_epoch>>
          /\ Settle(a) \/ UNCHANGED <<wrote, disk>>
      BY <2>5 DEF Worker, FlightStart, LookupAbsent, LookupRestore, Execute, sched, store
    <3>. QED BY <2>1, <2>2, <3>1, <3>2
  <2>6. CASE FinishAction
    <3>1. cur # b /\ cur \in Actions
      BY <2>0, <2>6 DEF FinishAction, Finishing, IInv, TypeOK
    <3>. QED BY <2>0, <2>6, <3>1 DEF FinishAction, store
  <2>7. CASE Seed \/ TurnBlock \/ TurnExit \/ RequestCancel \/ Ended
    BY <2>2, <2>7 DEF Seed, TurnBlock, TurnExit, RequestCancel, Ended, vars, sched, store
  <2>. QED BY <2>3, <2>4, <2>5, <2>6, <2>7 DEF Next, Main
<1>. QED BY <1>1, Invariance, PTL DEF Spec, FinishedStays

-----------------------------------------------------------------------------
(* The status the executor keeps of a job follows from the flight's phase.  *)
LEMMA PhaseStatus ==
  ASSUME NEW a \in Actions
  PROVE  /\ flight[a].phase = "idle" => PoolStatus(a) = "idle"
         /\ flight[a].phase = "queued" => PoolStatus(a) = "queued"
         /\ flight[a].phase \in {"started", "missed"} => PoolStatus(a) = "running"
         /\ flight[a].phase = "landed" => PoolStatus(a) = "done"
BY DEF PoolStatus

(* And after a step.                                                        *)
LEMMA PhaseStatusNext ==
  ASSUME NEW a \in Actions
  PROVE  /\ flight'[a].phase = "idle" => PoolStatus(a)' = "idle"
         /\ flight'[a].phase = "queued" => PoolStatus(a)' = "queued"
         /\ flight'[a].phase \in {"started", "missed"} => PoolStatus(a)' = "running"
         /\ flight'[a].phase = "landed" => PoolStatus(a)' = "done"
BY DEF PoolStatus

(* A step that moves one flight, while the run goes on, is a move of the    *)
(* executor or leaves it as it is.                                          *)
LEMMA OneMoves ==
  ASSUME NEW a \in Actions, pc # "ended", pc' # "ended",
         \A b \in Actions : b # a => flight'[b] = flight[b],
         \/ flight[a].phase = "idle" /\ flight'[a].phase = "queued"
         \/ flight[a].phase = "queued" /\ flight'[a].phase = "started"
         \/ flight[a].phase = "started" /\ flight'[a].phase \in {"missed", "landed"}
         \/ flight[a].phase = "missed" /\ flight'[a].phase = "landed"
         \/ flight[a].phase = "landed" /\ flight'[a].phase = "idle"
  PROVE  [Pool!Next]_(Pool!vars)
<1> DEFINE st == [b \in Actions |-> PoolStatus(b)]
<1>1. \A b \in Actions : b # a => PoolStatus(b)' = PoolStatus(b)
  BY DEF PoolStatus
<1>2. st' = [st EXCEPT ![a] = PoolStatus(a)'] /\ st[a] = PoolStatus(a)
  BY <1>1
<1>3. (pc # "ended") /\ (pc # "ended")' /\ (pc # "ended")' = (pc # "ended")
  OBVIOUS
<1>4. CASE PoolStatus(a)' = PoolStatus(a)
  <2>1. st' = st
    BY <1>1, <1>4
  <2>. QED BY <1>3, <2>1 DEF Pool!vars
<1>5. CASE \/ PoolStatus(a) = "idle" /\ PoolStatus(a)' = "queued"
           \/ PoolStatus(a) = "queued" /\ PoolStatus(a)' = "running"
           \/ PoolStatus(a) = "running" /\ PoolStatus(a)' = "done"
           \/ PoolStatus(a) = "done" /\ PoolStatus(a)' = "idle"
  BY <1>2, <1>3, <1>5 DEF Pool!Next, Pool!Submit, Pool!Start, Pool!Finish, Pool!Return, Pool!Move
<1>. QED BY <1>4, <1>5, PhaseStatus, PhaseStatusNext

(* Every step of the run is a step of the executor or none.                 *)
LEMMA PoolStep == IInv /\ Tidy /\ [Next]_vars => [Pool!Next]_(Pool!vars)
<1> SUFFICES ASSUME IInv, Tidy, [Next]_vars PROVE [Pool!Next]_(Pool!vars)
  OBVIOUS
<1>0. flight = [b \in Actions |-> flight[b]] /\ \A b \in Actions : FlightOK(flight[b])
  BY DEF IInv, TypeOK
<1>1. ASSUME flight' = flight, (pc' # "ended") = (pc # "ended") PROVE [Pool!Next]_(Pool!vars)
  BY <1>1 DEF Pool!vars, PoolStatus
<1>2. ASSUME flight' = flight, pc # "ended", pc' = "ended", \A a \in Actions : flight[a].phase = "idle"
      PROVE  [Pool!Next]_(Pool!vars)
  <2>1. \A a \in Actions : PoolStatus(a) = "idle" /\ PoolStatus(a)' = PoolStatus(a)
    BY <1>2 DEF PoolStatus
  <2>. QED BY <1>2, <2>1 DEF Pool!Next, Pool!Close
<1>3. CASE Seed \/ FinishAction \/ TurnBlock \/ TurnExit
  <2>1. flight' = flight /\ pc # "ended"
    BY <1>3 DEF Seed, FinishAction, TurnBlock, TurnExit
  <2>2. CASE pc' = "ended"
    <3>1. \A a \in Actions : ~InFlight(a)
      BY <1>3, <2>2, NoFlights DEF Seed, FinishAction, TurnBlock, TurnExit, IInv, AtSeed, InFlight
    <3>2. \A a \in Actions : flight[a].phase = "idle"
      BY <1>0, <3>1 DEF InFlight, FlightOK, Phases
    <3>. QED BY <1>2, <2>1, <2>2, <3>2
  <2>. QED BY <1>1, <2>1, <2>2
<1>4. ASSUME NEW a \in Actions, TurnComplete(a) \/ PollReturn(a) PROVE [Pool!Next]_(Pool!vars)
  <2>1. flight[a].phase = "landed" /\ Rest(a) /\ pc # "ended" /\ pc' # "ended"
    BY <1>4 DEF TurnComplete, PollReturn, Complete, Commit, Landed
  <2>2. flight'[a].phase = "idle" /\ \A b \in Actions : b # a => flight'[b] = flight[b]
    BY <1>0, <2>1 DEF Rest, FlightOK
  <2>. QED BY <2>1, <2>2, OneMoves
<1>5. ASSUME NEW a \in Actions, TurnDispatch(a) PROVE [Pool!Next]_(Pool!vars)
  <2>1. /\ a \in ready /\ pc # "ended" /\ pc' # "ended"
        /\ flight' = flight \/ Submit(a)
    BY <1>5 DEF TurnDispatch, DispatchParked, DispatchFresh, Commit
  <2>2. flight[a].phase = "idle"
    BY <1>0, <2>1 DEF IInv, NotTwice, InFlight, FlightOK, Phases
  <2>3. CASE Submit(a)
    <3>1. flight'[a].phase = "queued" /\ \A b \in Actions : b # a => flight'[b] = flight[b]
      BY <1>0, <2>3 DEF Submit, Idle
    <3>. QED BY <2>1, <2>2, <3>1, OneMoves
  <2>. QED BY <1>1, <2>1, <2>3
<1>6. ASSUME NEW a \in Actions, Worker(a) PROVE [Pool!Next]_(Pool!vars)
  <2>1. pc' = pc /\ InFlight(a)
    BY <1>6 DEF Worker, FlightStart, LookupAbsent, LookupRestore, Execute, InFlight
  <2>2. pc # "ended"
    BY <2>1, NoFlights DEF Tidy
  <2>3. \A b \in Actions : b # a => flight'[b] = flight[b]
    BY <1>0, <1>6 DEF Worker, FlightStart, LookupAbsent, LookupRestore, Missed, Execute
  <2>4. \/ flight[a].phase = "queued" /\ flight'[a].phase = "started"
        \/ flight[a].phase = "started" /\ flight'[a].phase \in {"missed", "landed"}
        \/ flight[a].phase = "missed" /\ flight'[a].phase = "landed"
    <3>1. CASE FlightStart(a) \/ LookupAbsent(a)
      BY <1>0, <3>1 DEF FlightStart, LookupAbsent, Missed, FlightOK
    <3>2. CASE LookupRestore(a)
      <4>1. PICK S : \/ flight' = [flight EXCEPT ![a].phase = "landed", ![a].hit = TRUE, ![a].seen = See(S)]
                     \/ flight' = [flight EXCEPT ![a].phase = "missed"]
        BY <3>2 DEF LookupRestore, Missed
      <4>2. flight[a].phase = "started"
        BY <3>2 DEF LookupRestore
      <4>. QED BY <1>0, <4>1, <4>2 DEF FlightOK
    <3>3. CASE Execute(a)
      <4>1. PICK S, failed :
              flight' = [flight EXCEPT ![a].phase = "landed", ![a].failed = failed, ![a].seen = S]
        BY <3>3 DEF Execute
      <4>2. flight[a].phase = "missed"
        BY <3>3 DEF Execute
      <4>. QED BY <1>0, <4>1, <4>2 DEF FlightOK
    <3>. QED BY <1>6, <3>1, <3>2, <3>3 DEF Worker
  <2>. QED BY <2>1, <2>2, <2>3, <2>4, OneMoves
<1>7. CASE RequestCancel \/ Ended \/ UNCHANGED vars
  BY <1>1, <1>7 DEF RequestCancel, Ended, vars
<1>. QED BY <1>3, <1>4, <1>5, <1>6, <1>7 DEF Next, Main

(* The run keeps its side of the executor's contract: it submits a flight    *)
(* only after its last one came back, and ends only when none is out, which  *)
(* is what spn_thread_pool_deinit, right after it, asserts.                  *)
THEOREM KeepsContract == Spec => UsesExecutor
<1>1. Init => Pool!Init
  <2> SUFFICES ASSUME Init PROVE Pool!Init
    OBVIOUS
  <2>1. pc # "ended" /\ \A a \in Actions : PoolStatus(a) = "idle"
    BY DEF Init, Idle, PoolStatus
  <2>. QED BY <2>1 DEF Pool!Init
<1>. QED BY <1>1, Invariance, TidyRun, PoolStep, PTL DEF Spec, UsesExecutor, Pool!Safe

-----------------------------------------------------------------------------
(* The counters against what they count.  waiters starts empty, nobody       *)
(* registers with itself, and once seeded pending and deferred are exact.    *)
Counting ==
  /\ \A a \in Actions : waiters[a][a] = 0
  /\ pc = "seed" => \A q \in Actions, a \in Actions : waiters[q][a] = 0
  /\ pc # "seed" /\ err # "missing_input" =>
       \A a \in Actions : /\ pending[a] = Cardinality(Open(a))
                          /\ deferred[a] = Cardinality(Registrations(a))

(* What is counted is finite: a union over finitely many producers, each    *)
(* with as many registrations as its list has entries for a.                *)
LEMMA CountedFinite ==
  ASSUME TypeOK, NEW a \in Actions
  PROVE  IsFiniteSet(Open(a)) /\ IsFiniteSet(Registrations(a))
<1>1. IsFiniteSet(Open(a))
  <2>1. Consumes[a] \subseteq Artifacts
    BY GraphAssumption DEF ValidGraph
  <2>2. IsFiniteSet(Consumes[a])
    BY <2>1, FiniteGraph, FS_Subset
  <2>. QED BY <2>2, FS_Subset DEF Open
<1>2. IsFiniteSet(Registrations(a))
  <2> DEFINE At1(q) == {q} \X (1..waiters[q][a])
             U == Actions \ done
             F == {At1(q) : q \in U}
  <2>1. IsFiniteSet(U)
    BY FiniteGraph, FS_Subset
  <2>2. \A q \in U : IsFiniteSet(At1(q))
    <3>1. SUFFICES ASSUME NEW q \in U PROVE IsFiniteSet(At1(q))
      OBVIOUS
    <3>2. waiters[q][a] \in Int
      BY DEF TypeOK
    <3>3. IsFiniteSet(1..waiters[q][a])
      BY <3>2, FS_Interval
    <3>. QED BY <3>3, FS_Product, FS_Singleton
  <2>3. IsFiniteSet(F)
    <3> DEFINE f == [q \in U |-> At1(q)]
    <3>1. f \in [U -> F] /\ \A t \in F : \E q \in U : f[q] = t
      OBVIOUS
    <3> HIDE DEF f, F, U
    <3>. QED BY <2>1, <3>1, ImageFinite
  <2>4. \A T \in F : IsFiniteSet(T)
    BY <2>2
  <2>5. Registrations(a) = UNION F
    BY DEF Registrations
  <2> HIDE DEF F
  <2>. QED BY <2>3, <2>4, <2>5, FS_UNION
<1>. QED BY <1>1, <1>2

(* A registration names an unfinished producer and its place in the list.   *)
LEMMA InRegistrations ==
  ASSUME NEW a \in Actions
  PROVE  \A r : r \in Registrations(a) <=>
           \E q \in Actions \ done : \E i \in 1..waiters[q][a] : r = <<q, i>>
BY DEF Registrations

(* Taking k counted things from n counted things.                           *)
LEMMA TakeAway ==
  ASSUME NEW S, IsFiniteSet(S), NEW T, T \subseteq S
  PROVE  Cardinality(S \ T) = Less(Cardinality(S), Cardinality(T))
<1>1. IsFiniteSet(T) /\ Cardinality(T) <= Cardinality(S)
  BY FS_Subset
<1>2. S \cap T = T
  OBVIOUS
<1>3. Cardinality(S \ T) = Cardinality(S) - Cardinality(T)
  BY <1>2, FS_Difference
<1>4. Cardinality(S) \in Nat /\ Cardinality(T) \in Nat
  BY <1>1, FS_CardinalityType
<1>. QED BY <1>1, <1>3, <1>4 DEF Less

(* finish_action takes from pending what the action produced, and from      *)
(* deferred the entries of its waiters list: an artifact has one producer,  *)
(* so nothing else of what is counted goes.                                 *)
LEMMA FinishCounts ==
  ASSUME IInv, Counting, Calm, FinishAction
  PROVE  Counting'
<1>0. /\ TypeOK /\ NotTwice /\ pc = "finish" /\ pc' = "loop" /\ cur \in Actions /\ err = "ok"
      /\ done' = done \cup {cur} /\ UNCHANGED <<err, waiters>>
      /\ pending' = [c \in Actions |-> Less(pending[c], Edges(cur, c))]
      /\ deferred' = [c \in Actions |-> Less(deferred[c], waiters[cur][c])]
  BY DEF FinishAction, IInv, TypeOK, Calm
<1>1. cur \notin done
  BY <1>0 DEF NotTwice, Finishing
<1>2. SUFFICES ASSUME NEW c \in Actions
               PROVE  /\ pending'[c] = Cardinality(Open(c)')
                      /\ deferred'[c] = Cardinality(Registrations(c)')
  BY <1>0 DEF Counting
<1>3. /\ pending[c] = Cardinality(Open(c)) /\ deferred[c] = Cardinality(Registrations(c))
      /\ IsFiniteSet(Open(c)) /\ IsFiniteSet(Registrations(c))
  BY <1>0, CountedFinite DEF Counting
<1>4. pending'[c] = Cardinality(Open(c)')
  <2> DEFINE T == Consumes[c] \cap Outputs(cur)
  <2>1. T \subseteq Open(c)
    BY <1>0, <1>1 DEF Open
  <2>2. \A q \in Actions : q # cur => Outputs(q) \cap Outputs(cur) = {}
    BY <1>0, GraphAssumption DEF ValidGraph
  <2>3. Open(c)' = {t \in Consumes[c] : \E q \in Actions \ (done \cup {cur}) : t \in Outputs(q)}
    BY <1>0 DEF Open
  <2>4. Open(c)' = Open(c) \ T
    BY <2>2, <2>3 DEF Open
  <2>. QED BY <1>0, <1>3, <2>1, <2>4, TakeAway DEF Edges
<1>5. deferred'[c] = Cardinality(Registrations(c)')
  <2> DEFINE n == waiters[cur][c]
             T == {cur} \X (1..n)
  <2>1. T \subseteq Registrations(c)
    BY <1>0, <1>1 DEF Registrations
  <2>2. Registrations(c)' = UNION {{q} \X (1..waiters[q][c]) : q \in Actions \ (done \cup {cur})}
    BY <1>0 DEF Registrations
  <2>3. Registrations(c)' = Registrations(c) \ T
    BY <2>2 DEF Registrations
  <2>4. Cardinality(T) = n
    <3>1. n \in Nat
      BY <1>0 DEF TypeOK
    <3>2. IsFiniteSet(1..n) /\ Cardinality(1..n) = n
      <4>1. 1 \in Int /\ n \in Int /\ n >= 0
        BY <3>1
      <4> HIDE DEF n
      <4>. QED BY <4>1, FS_Interval
    <3>3. IsFiniteSet({cur}) /\ Cardinality({cur}) = 1
      BY FS_Singleton
    <3>4. Cardinality(T) = 1 * n
      BY <3>2, <3>3, FS_Product
    <3>. QED BY <3>1, <3>4
  <2> HIDE DEF T, n
  <2>5. Cardinality(Registrations(c)') = Less(Cardinality(Registrations(c)), n)
    BY <1>3, <2>1, <2>3, <2>4, TakeAway
  <2>. QED BY <1>0, <1>3, <2>5 DEF n
<1>. QED BY <1>4, <1>5

(* defer_producer appends one entry per registration: numbering the new      *)
(* registrations of each producer from the end of its list gives as many     *)
(* new entries as there are waits.                                           *)
LEMMA DeferCounts ==
  ASSUME IInv, Counting, NEW a \in Actions, NEW S, IsFiniteSet(S), Defer(a, S),
         pc # "seed", pc' # "seed", err # "missing_input", UNCHANGED <<pending, done>>
  PROVE  Counting'
<1> DEFINE W == Waits(a, S)
           Of(q) == {r \in W : r[1] = q}
           N(q) == Cardinality(Of(q))
           w(q) == waiters[q][a]
<1>0. /\ TypeOK /\ deferred \in [Actions -> Nat] /\ waiters \in [Actions -> [Actions -> Nat]]
      /\ deferred' = [deferred EXCEPT ![a] = @ + Cardinality(W)]
      /\ waiters' = [q \in Actions |-> [waiters[q] EXCEPT ![a] = @ + N(q)]]
  BY DEF Defer, IInv, TypeOK
<1>1. IsFiniteSet(W) /\ Cardinality(W) \in Nat
  BY WaitsFinite, FS_CardinalityType
<1>2. \A q \in Actions : IsFiniteSet(Of(q)) /\ N(q) \in Nat /\ w(q) \in Nat
  BY <1>0, <1>1, FS_Subset, FS_CardinalityType
<1>3. N(a) = 0
  <2>1. Of(a) = {}
    BY DEF Waits
  <2>. QED BY <2>1, FS_EmptySet
<1>4. \A r \in W : r[1] \in Actions \ done
  BY DEF Waits
<1> HIDE DEF W
<1>5. \A q \in Actions, c \in Actions :
        waiters'[q][c] = IF c = a THEN w(q) + N(q) ELSE waiters[q][c]
  BY <1>0
<1>6. \A c \in Actions : Open(c)' = Open(c)
  BY DEF Open
<1>7. \A c \in Actions : c # a => Registrations(c)' = Registrations(c)
  BY <1>5 DEF Registrations
<1> DEFINE New == UNION {{q} \X ((w(q) + 1)..(w(q) + N(q))) : q \in Actions \ done}
<1>8. Registrations(a)' = Registrations(a) \cup New /\ Registrations(a) \cap New = {}
  <2>0. Registrations(a)' = UNION {{q} \X (1..waiters'[q][a]) : q \in Actions \ done}
    BY DEF Registrations
  <2>1. Registrations(a)' = UNION {{q} \X (1..(w(q) + N(q))) : q \in Actions \ done}
    <3>1. \A q \in Actions : waiters'[q][a] = w(q) + N(q)
      BY <1>5
    <3> HIDE DEF N, w
    <3>. QED BY <2>0, <3>1
  <2>2. \A q \in Actions : /\ 1..(w(q) + N(q)) = (1..w(q)) \cup ((w(q) + 1)..(w(q) + N(q)))
                          /\ (1..w(q)) \cap ((w(q) + 1)..(w(q) + N(q))) = {}
    <3>1. \A q \in Actions : N(q) \in Nat /\ w(q) \in Nat
      BY <1>2
    <3> HIDE DEF N, w
    <3>. QED BY <3>1
  <2> HIDE DEF N
  <2> DEFINE P(q) == 1..w(q)
             Q(q) == (w(q) + 1)..(w(q) + N(q))
             R(q) == 1..(w(q) + N(q))
  <2>3. \A q \in Actions : R(q) = P(q) \cup Q(q) /\ P(q) \cap Q(q) = {}
    BY <2>2
  <2>4. /\ Registrations(a)' = UNION {{q} \X R(q) : q \in Actions \ done}
        /\ Registrations(a) = UNION {{q} \X P(q) : q \in Actions \ done}
        /\ New = UNION {{q} \X Q(q) : q \in Actions \ done}
    BY <2>1 DEF Registrations
  <2> HIDE DEF P, Q, R, New
  <2>. QED BY <2>3, <2>4
<1>9. IsFiniteSet(New) /\ Cardinality(New) = Cardinality(W)
  <2> DEFINE b == [q \in Actions |-> CHOOSE g : g \in Bijection(Of(q), 1..N(q))]
             f == [r \in W |-> <<r[1], w(r[1]) + b[r[1]][r]>>]
  <2>1. \A q \in Actions : b[q] \in Bijection(Of(q), 1..N(q))
    <3>1. SUFFICES ASSUME NEW q \in Actions PROVE \E g : g \in Bijection(Of(q), 1..N(q))
      OBVIOUS
    <3>2. IsFiniteSet(1..N(q)) /\ Cardinality(1..N(q)) = N(q)
      <4>0. N(q) \in Nat
        BY <1>2
      <4> HIDE DEF N
      <4>1. 1 \in Int /\ N(q) \in Int /\ N(q) >= 0
        BY <4>0
      <4>. QED BY <4>1, FS_Interval
    <3>3. ExistsBijection(Of(q), 1..N(q))
      BY <1>2, <3>2, FS_SameCardinalityBij
    <3>. QED BY <3>3 DEF ExistsBijection
  <2>2. \A q \in Actions : \A r \in Of(q) : b[q][r] \in 1..N(q)
    <3>1. SUFFICES ASSUME NEW q \in Actions, NEW r \in Of(q) PROVE b[q][r] \in 1..N(q)
      OBVIOUS
    <3> HIDE DEF b, N, Of
    <3>2. b[q] \in [Of(q) -> 1..N(q)]
      BY <2>1 DEF Bijection, Injection
    <3>. QED BY <3>1, <3>2
  <2>3. \A q \in Actions : \A r, s \in Of(q) : b[q][r] = b[q][s] => r = s
    BY <2>1 DEF Bijection, Injection, IsInjective
  <2>4. \A q \in Actions : \A i \in 1..N(q) : \E r \in Of(q) : b[q][r] = i
    BY <2>1 DEF Bijection, Surjection
  <2>5. \A r \in W : /\ r[1] \in Actions \ done /\ r \in Of(r[1])
                     /\ b[r[1]][r] \in 1..N(r[1])
    BY <1>4, <2>2
  <2>6. \A q \in Actions : \A r \in Of(q) : r \in W /\ r[1] = q
    OBVIOUS
  <2> HIDE DEF b, N, Of
  <2>7. f \in [W -> New]
    <3>1. SUFFICES ASSUME NEW r \in W PROVE f[r] \in New
      OBVIOUS
    <3>2. PICK q \in Actions \ done : q = r[1]
      BY <2>5
    <3>3. w(q) + b[q][r] \in (w(q) + 1)..(w(q) + N(q))
      BY <1>2, <2>5, <3>2
    <3>4. f[r] = <<q, w(q) + b[q][r]>>
      BY <3>2
    <3> HIDE DEF f, w
    <3>. QED BY <3>3, <3>4
  <2>8. \A r, s \in W : f[r] = f[s] => r = s
    <3>1. SUFFICES ASSUME NEW r \in W, NEW s \in W, f[r] = f[s] PROVE r = s
      OBVIOUS
    <3>2. r[1] = s[1] /\ w(r[1]) + b[r[1]][r] = w(s[1]) + b[s[1]][s]
      BY <3>1
    <3>3. PICK q \in Actions : q = r[1] /\ r \in Of(q) /\ s \in Of(q)
      BY <2>5, <3>2
    <3>4. b[q][r] = b[q][s]
      BY <1>2, <2>2, <3>2, <3>3
    <3>. QED BY <2>3, <3>3, <3>4
  <2>9. \A y \in New : \E r \in W : f[r] = y
    <3>1. SUFFICES ASSUME NEW y \in New PROVE \E r \in W : f[r] = y
      OBVIOUS
    <3>2. PICK q \in Actions \ done : \E i \in (w(q) + 1)..(w(q) + N(q)) : y = <<q, i>>
      BY <3>1
    <3>3. PICK i \in (w(q) + 1)..(w(q) + N(q)) : y = <<q, i>>
      BY <3>2
    <3>4. i - w(q) \in 1..N(q) /\ w(q) + (i - w(q)) = i
      BY <1>2
    <3>5. PICK r \in Of(q) : b[q][r] = i - w(q)
      BY <2>4, <3>4
    <3>6. r \in W /\ r[1] = q
      BY <2>6
    <3>. QED BY <3>3, <3>4, <3>5, <3>6
  <2> HIDE DEF f, New
  <2>10. f \in Bijection(W, New)
    BY <2>7, <2>8, <2>9 DEF Bijection, Injection, Surjection, IsInjective
  <2>11. ExistsBijection(W, New)
    BY <2>10 DEF ExistsBijection
  <2>. QED BY <1>1, <2>11, FS_Bijection
<1>10. Cardinality(Registrations(a)') = Cardinality(Registrations(a)) + Cardinality(W)
  <2> HIDE DEF New
  <2>1. IsFiniteSet(Registrations(a)) /\ Cardinality(Registrations(a)) \in Nat
    BY <1>0, CountedFinite, FS_CardinalityType
  <2>2. Cardinality(Registrations(a) \cap New) = 0
    BY <1>8, FS_EmptySet
  <2>3. Cardinality(Registrations(a) \cup New)
          = Cardinality(Registrations(a)) + Cardinality(New) - Cardinality(Registrations(a) \cap New)
    BY <1>9, <2>1, FS_Union
  <2>. QED BY <1>1, <1>8, <1>9, <2>1, <2>2, <2>3
<1> HIDE DEF N, New
<1>11. \A c \in Actions : /\ pending'[c] = Cardinality(Open(c)')
                         /\ deferred'[c] = Cardinality(Registrations(c)')
  <2>1. \A c \in Actions : pending[c] = Cardinality(Open(c)) /\ deferred[c] = Cardinality(Registrations(c))
    BY DEF Counting
  <2>. QED BY <1>0, <1>6, <1>7, <1>10, <2>1
<1>12. \A c \in Actions : waiters'[c][c] = 0
  BY <1>0, <1>3, <1>5 DEF Counting
<1>. QED BY <1>11, <1>12 DEF Counting

(* A step that leaves the schedule alone leaves the counters exact.         *)
LEMMA SameCounts ==
  ASSUME Counting, UNCHANGED <<pending, deferred, waiters, done>>,
         pc' = "seed" <=> pc = "seed", err' # "missing_input" => err # "missing_input"
  PROVE  Counting'
<1>1. \A a \in Actions : Open(a)' = Open(a) /\ Registrations(a)' = Registrations(a)
  BY DEF Open, Registrations
<1>. QED BY <1>1 DEF Counting

(* seed_ready counts every input somebody produces, and nothing is           *)
(* registered or finished yet.                                               *)
LEMMA SeedCounts ==
  ASSUME IInv, Counting, Seed
  PROVE  Counting'
<1>1. pc = "seed" /\ pc' # "seed" /\ done = {} /\ UNCHANGED <<done, deferred, waiters>>
  BY DEF IInv, AtSeed, Seed
<1>2. \A q \in Actions, a \in Actions : waiters[q][a] = 0
  BY <1>1 DEF Counting
<1>3. SUFFICES ASSUME err' # "missing_input", NEW a \in Actions
               PROVE  /\ pending'[a] = Cardinality(Open(a)')
                      /\ deferred'[a] = Cardinality(Registrations(a)')
  BY <1>1, <1>2 DEF Counting
<1>4. pending'[a] = Cardinality(NeedsDigest(a))
  BY <1>3 DEF Seed
<1>5. Open(a)' = NeedsDigest(a)
  BY <1>1 DEF Open, NeedsDigest, Produced
<1>6. Registrations(a)' = {}
  <2>1. Registrations(a)' = UNION {{q} \X (1..waiters[q][a]) : q \in Actions}
    BY <1>1 DEF Registrations
  <2>2. \A q \in Actions : 1..waiters[q][a] = {}
    BY <1>2
  <2>. QED BY <2>1, <2>2
<1>7. deferred'[a] = 0
  BY <1>1 DEF IInv, AtSeed
<1>. QED BY <1>4, <1>5, <1>6, <1>7, FS_EmptySet

(* A worker moves its own flight and the store, never the schedule.         *)
LEMMA WorkerKeeps ==
  ASSUME NEW a \in Actions, Worker(a)
  PROVE  /\ pc' = pc /\ err' = err /\ pending' = pending
         /\ deferred' = deferred /\ waiters' = waiters /\ done' = done
<1>1. CASE FlightStart(a)
  BY <1>1, Zenon DEF FlightStart, sched
<1>2. CASE LookupAbsent(a)
  BY <1>2, Zenon DEF LookupAbsent, sched
<1>3. CASE LookupRestore(a)
  BY <1>3, Zenon DEF LookupRestore, sched
<1>4. CASE Execute(a)
  BY <1>4, Zenon DEF Execute, sched
<1>. QED BY <1>1, <1>2, <1>3, <1>4 DEF Worker

(* Every step keeps the counters exact: only finishing and deferring touch  *)
(* them once the run is seeded.                                             *)
LEMMA CountingStep == IInv /\ Calm /\ Counting /\ [Next]_vars => Counting'
<1> SUFFICES ASSUME IInv, Calm, Counting, [Next]_vars PROVE Counting'
  OBVIOUS
<1>0. TypeOK /\ FiniteSeen
  BY DEF IInv
<1>1. CASE Seed
  BY <1>1, SeedCounts
<1>2. CASE FinishAction
  BY <1>2, FinishCounts
<1>3. ASSUME NEW a \in Actions, NEW e \in Errs, e = "ok" => err = "ok",
             err # "ok" => e = err, Complete(a, e), pc \in {"loop", "poll"}
      PROVE  Counting'
  <2>1. pc # "seed" /\ pc' # "seed"
    BY <1>3 DEF Complete, Commit
  <2>2. CASE e = "ok" /\ Defer(a, Obs(a)) /\ UNCHANGED <<pending, done>>
    <3>1. IsFiniteSet(Obs(a))
      BY <1>0, ObsFinite DEF FiniteSeen
    <3>. QED BY <1>3, <2>1, <2>2, <3>1, DeferCounts
  <2>3. CASE UNCHANGED <<pending, deferred, waiters, done>>
    <3>1. err' # "missing_input" => err # "missing_input"
      BY <1>3 DEF Complete
    <3>. QED BY <2>1, <2>3, <3>1, SameCounts
  <2>. QED BY <1>3, <2>2, <2>3 DEF Complete, sched
<1>4. ASSUME NEW a \in Actions, TurnComplete(a) \/ PollReturn(a) PROVE Counting'
  <2>1. CASE TurnComplete(a)
    <3>1. Checked \in Errs /\ (Checked = "ok" => err = "ok") /\ (err # "ok" => Checked = err)
      BY <1>0 DEF Checked, Errs, TypeOK
    <3>. QED BY <1>3, <2>1, <3>1 DEF TurnComplete
  <2>2. CASE PollReturn(a)
    <3>1. err \in Errs
      BY <1>0 DEF TypeOK
    <3>. QED BY <1>3, <2>2, <3>1 DEF PollReturn
  <2>. QED BY <1>4, <2>1, <2>2
<1>5. ASSUME NEW a \in Actions, TurnDispatch(a) PROVE Counting'
  <2>1. pc = "loop" /\ pc' # "seed" /\ err = "ok" /\ UNCHANGED <<pending, done>>
    BY <1>5 DEF TurnDispatch, Checked, DispatchParked, DispatchFresh, Commit
  <2>2. ASSUME NEW S, IsFiniteSet(S), Defer(a, S) PROVE Counting'
    BY <2>1, <2>2, DeferCounts
  <2>3. CASE UNCHANGED <<deferred, waiters>>
    BY <2>1, <2>3, SameCounts
  <2>4. CASE Defer(a, Obs(a))
    BY <1>0, <2>2, <2>4, ObsFinite DEF FiniteSeen
  <2>5. CASE \E S \in known[a] : Defer(a, S)
    BY <1>0, <2>2, <2>5 DEF FiniteSeen
  <2>. QED BY <1>5, <2>3, <2>4, <2>5 DEF TurnDispatch, DispatchParked, DispatchFresh
<1>6. ASSUME NEW a \in Actions, Worker(a) PROVE Counting'
  BY <1>6, WorkerKeeps, SameCounts
<1>7. CASE TurnBlock \/ TurnExit
  <2>1. /\ pc = "loop" /\ pc' # "seed" /\ UNCHANGED <<pending, deferred, waiters, done>>
        /\ err' # "missing_input" => err # "missing_input"
    BY <1>7 DEF TurnBlock, TurnExit, Checked, sched
  <2>. QED BY <2>1, SameCounts
<1>8. CASE RequestCancel \/ Ended \/ UNCHANGED vars
  <2>1. UNCHANGED <<pc, err, pending, deferred, waiters, done>>
    BY <1>8 DEF RequestCancel, Ended, vars, sched
  <2>. QED BY <2>1, SameCounts
<1>. QED BY <1>1, <1>2, <1>4, <1>5, <1>6, <1>7, <1>8 DEF Next, Main

(* The counters of run.c are exact in every run: finish_action and           *)
(* defer_producer neither lose nor invent a wait, so that an action is made  *)
(* ready exactly when nothing it waits for is unfinished, and the weak key   *)
(* of a dispatched action only reads digests that are there.                 *)
THEOREM CountersAreExact == Spec => []CountersExact
<1>1. Init => Counting
  BY DEF Init, Counting
<1>2. IInv /\ Counting => CountersExact
  BY DEF IInv, Counting, CountersExact, FlightCount, Flights
<1>. QED BY <1>1, <1>2, Invariance, TidyRun, CountingStep, PTL DEF Spec

-----------------------------------------------------------------------------
(* A stalled run has ended, and its unfinished actions form a cycle.        *)
Stalls == (err = "stalled" => pc = "ended") /\ StallIsCycle

(* When the loop finds nothing landed, ready or in flight, an action that   *)
(* is not finished has a positive counter, and an exact counter names what  *)
(* the action waits for.                                                    *)
LEMMA ExitIsCycle ==
  ASSUME IInv, Counting, pc = "loop", err = "ok", ready = {}, in_flight = 0
  PROVE  \A a \in Actions \ done : \E q \in Actions \ done :
           \/ q # a /\ waiters[q][a] > 0
           \/ Consumes[a] \cap Outputs(q) # {}
<1>1. SUFFICES ASSUME NEW a \in Actions \ done
               PROVE  \E q \in Actions \ done : \/ q # a /\ waiters[q][a] > 0
                                                \/ Consumes[a] \cap Outputs(q) # {}
  OBVIOUS
<1>2. pending[a] > 0 \/ deferred[a] > 0
  BY NoFlights DEF IInv, NotLost, Finishing
<1>3. /\ TypeOK /\ pending[a] = Cardinality(Open(a))
      /\ deferred[a] = Cardinality(Registrations(a)) /\ waiters[a][a] = 0
  BY DEF Counting, IInv
<1>4. CASE pending[a] > 0
  <2>1. Open(a) # {}
    BY <1>3, <1>4, FS_EmptySet
  <2>. QED BY <2>1 DEF Open
<1>5. CASE deferred[a] > 0
  <2>1. Registrations(a) # {}
    BY <1>3, <1>5, FS_EmptySet
  <2>2. PICK q \in Actions \ done : \E i \in 1..waiters[q][a] : TRUE
    BY <2>1 DEF Registrations
  <2>3. waiters[q][a] \in Nat
    BY <1>3 DEF TypeOK
  <2>4. waiters[q][a] > 0
    BY <2>2, <2>3
  <2>. QED BY <1>3, <2>4
<1>. QED BY <1>2, <1>4, <1>5

(* Only the exit declares a stall, and nothing moves after it.              *)
LEMMA StallsStep == IInv /\ Counting /\ Stalls /\ [Next]_vars => Stalls'
<1> SUFFICES ASSUME IInv, Counting, Stalls, [Next]_vars, err' = "stalled"
             PROVE  /\ pc' = "ended"
                    /\ \A a \in Actions \ done' : \E q \in Actions \ done' :
                         \/ q # a /\ waiters'[q][a] > 0
                         \/ Consumes[a] \cap Outputs(q) # {}
  BY DEF Stalls, StallIsCycle
<1>1. CASE TurnExit
  <2>1. /\ pc = "loop" /\ err = "ok" /\ ready = {} /\ in_flight = 0
        /\ pc' = "ended" /\ UNCHANGED <<done, waiters>>
    BY <1>1 DEF TurnExit, Checked, Stalls, sched
  <2>. QED BY <2>1, ExitIsCycle
<1>2. ASSUME UNCHANGED <<pc, err, done, waiters>>
      PROVE  /\ pc' = "ended"
             /\ \A a \in Actions \ done' : \E q \in Actions \ done' :
                  \/ q # a /\ waiters'[q][a] > 0
                  \/ Consumes[a] \cap Outputs(q) # {}
  BY <1>2 DEF Stalls, StallIsCycle
<1>3. ~Seed /\ ~FinishAction /\ ~TurnBlock
  BY DEF Seed, FinishAction, TurnBlock, Checked, Stalls
<1>4. ASSUME NEW a \in Actions PROVE ~TurnComplete(a) /\ ~PollReturn(a)
  BY DEF TurnComplete, PollReturn, Complete, Commit, Checked, Stalls
<1>5. ASSUME NEW a \in Actions PROVE ~TurnDispatch(a)
  BY DEF TurnDispatch, DispatchParked, DispatchFresh, Commit, Checked, Stalls
<1>6. ASSUME NEW a \in Actions, Worker(a)
      PROVE  pc' = pc /\ err' = err /\ done' = done /\ waiters' = waiters
  BY <1>6, WorkerKeeps
<1>7. CASE RequestCancel \/ Ended \/ UNCHANGED vars
  BY <1>2, <1>7 DEF RequestCancel, Ended, vars, sched
<1>. QED BY <1>1, <1>2, <1>3, <1>4, <1>5, <1>6, <1>7 DEF Next, Main

(* SPN_ERR_DAG_STALLED is never a false alarm: the loop reports it only when *)
(* each unfinished action consumes the output of, or is registered with,     *)
(* another that can finish no sooner.                                        *)
THEOREM StallsAreCycles == Spec => []StallIsCycle
<1>1. Init => Counting /\ Stalls
  BY DEF Init, Counting, Stalls, StallIsCycle
<1>2. Stalls => StallIsCycle
  BY DEF Stalls
<1>. QED BY <1>1, <1>2, Invariance, TidyRun, CountingStep, StallsStep, PTL DEF Spec

-----------------------------------------------------------------------------
(* What a build has to keep to for the two findings not to bite.  A restore *)
(* that fails has rewritten no target: else settle clears action->wrote at  *)
(* the next commit, and the rewrite is forgotten.                           *)
HalfRestored(a) ==
  /\ flight[a].phase = "started" /\ flight'[a].phase = "missed"
  /\ \E t \in Outputs(a) \cap Targets : disk'[t] # disk[t]
RestoresWhole == [][\A a \in Actions : ~HalfRestored(a)]_vars

(* And only a listing asks about a directory that holds targets.            *)
FileLike(o) == o.kind # "enum" => Below(o.path) \cap Produced = {}
FilesProbed ==
  \A a \in Actions :
    /\ \A S \in Probes[a] : \A pr \in S : pr.list \/ Below(pr.path) \cap Produced = {}
    /\ \A S \in Pathsets[a] : \A o \in S : FileLike(o)

(* A result that is waiting to be judged, and one that is in.               *)
Holding(a) == a \in parked \/ (flight[a].phase = "landed" /\ ~flight[a].hit)
Committed(a) == a \in done \/ Finishing(a) \/ (flight[a].phase = "landed" /\ flight[a].hit)

(* A flight has seen nothing before it lands, and its epoch is in the past. *)
Blank(a) == /\ flight[a].phase \in {"queued", "started", "missed"} => flight[a].seen = {}
            /\ flight[a].epoch <= completed

FilesOnly(a) == /\ \A p \in flight[a].seen : FileLike(p[1])
                /\ \A S \in known[a] : \A o \in S : FileLike(o)

(* A flight is submitted when everything its stored pathset depends on is   *)
(* finished.                                                                *)
Tried(a) == flight[a].phase \in {"queued", "started"} /\ Kind[a] = "discovered" =>
              \A S \in known[a] : Waits(a, S) = {}

(* What is seen is still there, or a producer that wrote since is to blame, *)
(* which defer_observations will find: it is not finished, or finished with *)
(* a later epoch.                                                           *)
Blame(q, a) ==
  /\ wrote[q]
  /\ \/ q \in done /\ done_epoch[q] > flight[a].epoch
     \/ Finishing(q)
     \/ flight[q].phase = "landed" /\ flight[q].hit
Explained(a, p) ==
  p[2] = View(p[1]) \/ \E q \in Actions \ {a} : Touches(q, p[1]) # {} /\ Blame(q, a)

(* What is in depends on finished producers only, and is what is there.     *)
Lasting(a, p) ==
  /\ \A q \in Actions \ {a} : Touches(q, p[1]) # {} => q \in done
  /\ Touches(a, p[1]) = {} => p[2] = View(p[1])

Fresh(a) ==
  /\ Blank(a) /\ FilesOnly(a) /\ Tried(a)
  /\ err = "ok" /\ Holding(a) => \A p \in flight[a].seen : Explained(a, p)
  /\ Committed(a) => \A p \in flight[a].seen : Lasting(a, p)
FreshInv == \A a \in Actions : Fresh(a)

(* What an observation resolves to depends on the targets it touches.       *)
LEMMA ViewKept ==
  ASSUME NEW b \in Actions, NEW o, FileLike(o), Touches(b, o) = {},
         \A t \in Targets \ Outputs(b) : disk'[t] = disk[t]
  PROVE  View(o)' = View(o)
<1> DEFINE p == o.path
<1>1. \A t \in Targets : Path[t] = p => disk'[t] = disk[t]
  BY DEF Touches
<1>2. \A t \in Targets : t \in Tree /\ IsPrefix(Path[t], p) => disk'[t] = disk[t]
  BY DEF Touches, IsStrictPrefix
<1>3. \A t \in Below(p) : disk'[t] = disk[t]
  <2>1. CASE o.kind = "enum"
    BY <2>1 DEF Touches, Below
  <2>2. CASE o.kind # "enum"
    BY <2>2 DEF FileLike, Below, Produced
  <2>. QED BY <2>1, <2>2
<1>4. Tree \subseteq Targets
  BY GraphAssumption DEF ValidGraph
<1>5. At(p)' = At(p)
  BY <1>1 DEF At
<1>6. Within(p)' = Within(p)
  BY <1>2, <1>4 DEF Within
<1>7. Members(p)' = Members(p)
  <2>1. {u \in Below(p) : disk'[u] # "none"} = {u \in Below(p) : disk[u] # "none"}
    BY <1>3
  <2>2. Below(p)' = Below(p)
    BY DEF Below
  <2>. QED BY <2>1, <2>2 DEF Members
<1>. QED BY <1>5, <1>6, <1>7 DEF View

(* The same disk gives the same answer.                                     *)
LEMMA SameView ==
  ASSUME NEW o, \A t \in Targets : disk'[t] = disk[t]
  PROVE  View(o)' = View(o)
<1> DEFINE p == o.path
<1>1. Tree \subseteq Targets
  BY GraphAssumption DEF ValidGraph
<1>2. At(p)' = At(p)
  BY DEF At
<1>3. Within(p)' = Within(p)
  BY <1>1 DEF Within
<1>4. Members(p)' = Members(p)
  <2>1. {u \in Below(p) : disk'[u] # "none"} = {u \in Below(p) : disk[u] # "none"}
    BY DEF Below
  <2>2. Below(p)' = Below(p)
    BY DEF Below
  <2>. QED BY <2>1, <2>2 DEF Members
<1>. QED BY <1>2, <1>3, <1>4 DEF View

(* Who waits for nobody depends on nobody unfinished.                       *)
LEMMA WaitsNobody ==
  ASSUME NEW a \in Actions, NEW S, Waits(a, S) = {}, NEW o \in S,
         NEW q \in Actions \ {a}, Touches(q, o) # {}
  PROVE  q \in done
<1>1. PICK t \in Targets : t \in Touches(q, o)
  BY DEF Touches
<1>2. <<q, o, t>> \in Actions \X S \X Targets
  BY <1>1
<1>3. SUFFICES ASSUME q \notin done PROVE FALSE
  OBVIOUS
<1>4. <<q, o, t>> \in Waits(a, S)
  BY <1>1, <1>2, <1>3 DEF Waits
<1>. QED BY <1>4

(* A settle changes its own targets only, and says so in wrote if it ends   *)
(* well.                                                                    *)
LEMMA SettleDisk ==
  ASSUME IInv, NEW a \in Actions, Settle(a)
  PROVE  /\ \A t \in Targets \ Outputs(a) : disk'[t] = disk[t]
         /\ ~wrote'[a] => \A t \in Targets : disk'[t] = disk[t]
         /\ \A q \in Actions \ {a} : wrote'[q] = wrote[q]
<1>1. Settled(a) \subseteq Outputs(a)
  BY DEF Settled, Outputs
<1>2. disk' = [t \in Targets |-> IF t \in Settled(a) THEN "cur" ELSE disk[t]]
  BY DEF Settle
<1>3. \A t \in Targets \ Outputs(a) : disk'[t] = disk[t]
  BY <1>1, <1>2
<1>4. wrote' = [wrote EXCEPT ![a] = SettleWrote(a)] /\ wrote \in [Actions -> BOOLEAN]
  BY DEF Settle, IInv, TypeOK
<1>5. \A q \in Actions \ {a} : wrote'[q] = wrote[q]
  BY <1>4
<1>6. ASSUME ~wrote'[a] PROVE \A t \in Targets : disk'[t] = disk[t]
  <2>1. ~SettleWrote(a)
    BY <1>4, <1>6
  <2>2. \A t \in Settled(a) \cap Targets : disk[t] = "cur"
    BY <2>1 DEF SettleWrote
  <2>. QED BY <1>2, <2>2
<1>. QED BY <1>3, <1>5, <1>6

(* An action that is not touched by a step keeps what it has seen if its    *)
(* observations are still explained.                                        *)
LEMMA OtherFresh ==
  ASSUME NEW b \in Actions, Fresh(b), flight'[b] = flight[b], known'[b] = known[b],
         UNCHANGED <<done, completed>>, b \in parked' => b \in parked,
         Finishing(b)' => Finishing(b), err' = "ok" => err = "ok",
         \A p \in flight[b].seen : /\ err' = "ok" /\ Explained(b, p) => Explained(b, p)'
                                   /\ Lasting(b, p) => Lasting(b, p)'
  PROVE  Fresh(b)'
<1>1. Blank(b)' /\ FilesOnly(b)'
  BY DEF Fresh, Blank, FilesOnly, FileLike, Below
<1>2. Tried(b)'
  BY DEF Fresh, Tried, Waits
<1>3. (Holding(b)' => Holding(b)) /\ (Committed(b)' => Committed(b))
  BY DEF Holding, Committed
<1>. QED BY <1>1, <1>2, <1>3 DEF Fresh

(* Finished producers do not settle, so what is in stays.                   *)
LEMMA SettleLasting ==
  ASSUME IInv, NEW a \in Actions, Settle(a), a \notin done, NEW b \in Actions \ {a},
         NEW p, FileLike(p[1]), Lasting(b, p), UNCHANGED done
  PROVE  Lasting(b, p)'
<1>1. Touches(a, p[1]) = {}
  BY DEF Lasting
<1>2. View(p[1])' = View(p[1])
  BY <1>1, SettleDisk, ViewKept
<1>3. \A q \in Actions : Touches(q, p[1])' = Touches(q, p[1])
  BY DEF Touches
<1>. QED BY <1>2, <1>3 DEF Lasting

(* A settle that ends well either changes nothing or is to blame.           *)
LEMMA SettleExplained ==
  ASSUME IInv, NEW a \in Actions, Settle(a), a \notin done, ~Finishing(a),
         flight[a].phase # "landed" \/ ~flight[a].hit,
         NEW b \in Actions \ {a}, NEW p, FileLike(p[1]), Explained(b, p),
         UNCHANGED <<done, done_epoch>>,
         \A q \in Actions \ {a} : flight'[q] = flight[q] /\ (Finishing(q) => Finishing(q)'),
         Finishing(a)' \/ (flight'[a].phase = "landed" /\ flight'[a].hit)
  PROVE  Explained(b, p)'
<1>1. \A q \in Actions : Touches(q, p[1])' = Touches(q, p[1])
  BY DEF Touches
<1>2. ASSUME NEW q \in Actions \ {b}, Touches(q, p[1]) # {}, Blame(q, b) PROVE Explained(b, p)'
  <2>1. q # a
    BY <1>2 DEF Blame
  <2>2. Blame(q, b)'
    BY <1>2, <2>1, SettleDisk DEF Blame
  <2>. QED BY <1>1, <1>2, <2>2 DEF Explained
<1>3. CASE p[2] = View(p[1])
  <2>1. CASE Touches(a, p[1]) = {}
    <3>1. View(p[1])' = View(p[1])
      BY <2>1, SettleDisk, ViewKept
    <3>. QED BY <1>3, <3>1 DEF Explained
  <2>2. CASE Touches(a, p[1]) # {} /\ wrote'[a]
    <3>1. Blame(a, b)'
      BY <2>2 DEF Blame
    <3>. QED BY <1>1, <2>2, <3>1 DEF Explained
  <2>3. CASE ~wrote'[a]
    <3>1. View(p[1])' = View(p[1])
      BY <2>3, SettleDisk, SameView
    <3>. QED BY <1>3, <3>1 DEF Explained
  <2>. QED BY <2>1, <2>2, <2>3
<1>. QED BY <1>2, <1>3 DEF Explained

(* The judgement of run_complete and run_dispatch is right: a result that   *)
(* waits for nobody and is not requeued is what is there, and everything it *)
(* depends on is finished.                                                  *)
LEMMA Judged ==
  ASSUME IInv, NEW a \in Actions, Fresh(a), Holding(a), err = "ok", pc \in {"loop", "poll"},
         Waits(a, Obs(a)) = {}, ~Requeue(a, Obs(a), flight[a].epoch)
  PROVE  \A p \in flight[a].seen :
           /\ p[2] = View(p[1])
           /\ \A q \in Actions \ {a} : Touches(q, p[1]) # {} => q \in done
<1> SUFFICES ASSUME NEW p \in flight[a].seen
             PROVE  /\ p[2] = View(p[1])
                    /\ \A q \in Actions \ {a} : Touches(q, p[1]) # {} => q \in done
  OBVIOUS
<1>1. p[1] \in Obs(a)
  BY DEF Obs
<1>2. ASSUME NEW q \in Actions \ {a}, Touches(q, p[1]) # {} PROVE q \in done
  BY <1>1, <1>2, WaitsNobody
<1>3. ASSUME NEW q \in Actions \ {a}, Touches(q, p[1]) # {}, Blame(q, a) PROVE FALSE
  <2>1. q \in done
    BY <1>2, <1>3
  <2>2. ~Finishing(q) /\ flight[q].phase # "landed"
    BY <2>1 DEF IInv, NotTwice, Finishing, InFlight
  <2>3. wrote[q] /\ done_epoch[q] > flight[a].epoch
    BY <1>3, <2>2 DEF Blame
  <2>. QED BY <1>1, <1>3, <2>1, <2>3 DEF Requeue
<1>4. Explained(a, p)
  BY DEF Fresh
<1>. QED BY <1>2, <1>3, <1>4 DEF Explained

(* Where nothing is written and nobody finishes, what the others have seen   *)
(* is explained as before, if the action that moves stays as much to blame.  *)
LEMMA QuietStep ==
  ASSUME IInv, FreshInv, NEW a \in Actions, disk' = disk, wrote' = wrote, done' = done,
         done_epoch' = done_epoch, completed' = completed, known' = known,
         \A b \in Actions \ {a} : /\ flight'[b] = flight[b] /\ (b \in parked' => b \in parked)
                                  /\ Finishing(b)' <=> Finishing(b),
         err' = "ok" => err = "ok",
         err' = "ok" => \A b \in Actions \ {a} : Blame(a, b) => Blame(a, b)'
  PROVE  \A b \in Actions \ {a} : Fresh(b)'
<1> SUFFICES ASSUME NEW b \in Actions \ {a} PROVE Fresh(b)'
  OBVIOUS
<1>1. \A o : View(o)' = View(o)
  BY SameView
<1>2. \A q \in Actions : \A o : Touches(q, o)' = Touches(q, o)
  BY DEF Touches
<1>3. ASSUME NEW q \in Actions \ {b}, Blame(q, b), err' = "ok" PROVE Blame(q, b)'
  <2>1. CASE q = a
    BY <1>3, <2>1
  <2>2. CASE q # a
    BY <1>3, <2>2 DEF Blame
  <2>. QED BY <2>1, <2>2
<1>4. \A p \in flight[b].seen : /\ err' = "ok" /\ Explained(b, p) => Explained(b, p)'
                                /\ Lasting(b, p) => Lasting(b, p)'
  BY <1>1, <1>2, <1>3 DEF Explained, Lasting
<1>5. Fresh(b)
  BY DEF FreshInv
<1>. QED BY <1>4, <1>5, OtherFresh

(* A step that moves no flight and writes nothing.                          *)
LEMMA StillStep ==
  ASSUME IInv, FreshInv, disk' = disk, wrote' = wrote, done' = done, done_epoch' = done_epoch,
         completed' = completed, known' = known, flight' = flight, parked' \subseteq parked,
         \A b \in Actions : Finishing(b)' <=> Finishing(b), err' = "ok" => err = "ok"
  PROVE  FreshInv'
<1> SUFFICES ASSUME NEW b \in Actions PROVE Fresh(b)'
  BY DEF FreshInv
<1>1. \A o : View(o)' = View(o)
  BY SameView
<1>2. \A q \in Actions : \A o : Touches(q, o)' = Touches(q, o)
  BY DEF Touches
<1>3. \A q \in Actions : Blame(q, b) => Blame(q, b)'
  BY DEF Blame
<1>4. \A p \in flight[b].seen : /\ err' = "ok" /\ Explained(b, p) => Explained(b, p)'
                                /\ Lasting(b, p) => Lasting(b, p)'
  BY <1>1, <1>2, <1>3 DEF Explained, Lasting
<1>5. Fresh(b)
  BY DEF FreshInv
<1>. QED BY <1>4, <1>5, OtherFresh

(* Finishing gives the action an epoch later than that of every flight, so  *)
(* who was to blame while finishing still is.                               *)
LEMMA FinishFresh ==
  ASSUME IInv, FreshInv, FinishAction
  PROVE  FreshInv'
<1>0. /\ TypeOK /\ NotTwice /\ pc = "finish" /\ pc' = "loop" /\ cur \in Actions
      /\ done' = done \cup {cur} /\ completed' = completed + 1
      /\ done_epoch' = [done_epoch EXCEPT ![cur] = completed + 1]
      /\ err' = err /\ parked' = parked /\ flight' = flight /\ known' = known
      /\ disk' = disk /\ wrote' = wrote
  BY DEF FinishAction, IInv, TypeOK, store
<1>1. cur \notin done
  BY <1>0 DEF NotTwice, Finishing
<1> SUFFICES ASSUME NEW b \in Actions PROVE Fresh(b)'
  BY DEF FreshInv
<1>2. Fresh(b) /\ flight[b].epoch \in Nat /\ completed \in Nat /\ done_epoch \in [Actions -> Nat]
  BY <1>0 DEF FreshInv, TypeOK, FlightOK
<1>3. \A o : View(o)' = View(o)
  BY <1>0, SameView
<1>4. \A q \in Actions : \A o : Touches(q, o)' = Touches(q, o)
  BY DEF Touches
<1>5. ASSUME NEW q \in Actions, Blame(q, b) PROVE Blame(q, b)'
  <2>1. CASE q = cur
    <3>1. q \in done' /\ done_epoch'[q] = completed + 1 /\ flight[b].epoch <= completed
      BY <1>0, <1>2, <2>1 DEF Fresh, Blank
    <3>2. done_epoch'[q] > flight'[b].epoch
      BY <1>0, <1>2, <3>1
    <3>. QED BY <1>0, <1>5, <3>1, <3>2 DEF Blame
  <2>2. CASE q # cur
    <3>1. ~Finishing(q) /\ done_epoch'[q] = done_epoch[q]
      BY <1>0, <1>2, <2>2 DEF Finishing
    <3>. QED BY <1>0, <1>5, <3>1 DEF Blame
  <2>. QED BY <2>1, <2>2
<1>6. \A p \in flight[b].seen : /\ Explained(b, p) => Explained(b, p)'
                                /\ Lasting(b, p) => Lasting(b, p)'
  BY <1>0, <1>3, <1>4, <1>5 DEF Explained, Lasting
<1>7. Blank(b)' /\ FilesOnly(b)'
  BY <1>0, <1>2 DEF Fresh, Blank, FilesOnly, FileLike, Below
<1>8. Tried(b)'
  <2>1. \A S : Waits(b, S)' \subseteq Waits(b, S)
    BY <1>0, <1>4 DEF Waits
  <2>. QED BY <1>0, <1>2, <2>1 DEF Fresh, Tried
<1>9. (Holding(b)' => Holding(b)) /\ (Committed(b)' => Committed(b))
  BY <1>0 DEF Holding, Committed, Finishing
<1>. QED BY <1>0, <1>2, <1>6, <1>7, <1>8, <1>9 DEF Fresh

(* A commit keeps what it has judged, and is to blame if it wrote.          *)
LEMMA CommitFresh ==
  ASSUME IInv, FreshInv, NEW a \in Actions, Holding(a), err = "ok", pc \in {"loop", "poll"},
         Waits(a, Obs(a)) = {}, ~Requeue(a, Obs(a), flight[a].epoch), Commit(a),
         done' = done, done_epoch' = done_epoch, completed' = completed,
         a \notin done, a \notin parked', parked' \subseteq parked,
         \A b \in Actions \ {a} : flight'[b] = flight[b],
         flight'[a].phase = "idle", flight'[a].seen = flight[a].seen,
         flight'[a].epoch = flight[a].epoch
  PROVE  FreshInv'
<1>0. /\ Settle(a) /\ StorePathset(a) /\ NotTwice /\ DOMAIN known = Actions
      /\ \/ pc' = "finish" /\ cur' = a /\ err' = "ok"
         \/ pc' = "loop" /\ err' # "ok"
  BY DEF Commit, IInv, TypeOK
<1>1. \A b \in Actions : ~Finishing(b)
  BY DEF Finishing
<1>2. \A b \in Actions \ {a} : ~Finishing(b)'
  BY <1>0 DEF Finishing
<1>3. flight[a].phase # "landed" \/ ~flight[a].hit
  BY <1>0 DEF Holding, NotTwice, InFlight
<1>4. \A b \in Actions \ {a} : known'[b] = known[b]
  BY <1>0 DEF StorePathset
<1>5. ASSUME NEW b \in Actions \ {a} PROVE Fresh(b)'
  <2>1. Fresh(b) /\ \A p \in flight[b].seen : FileLike(p[1])
    BY DEF FreshInv, Fresh, FilesOnly
  <2>2. ASSUME NEW p \in flight[b].seen, Lasting(b, p) PROVE Lasting(b, p)'
    BY <1>0, <2>1, <2>2, SettleLasting
  <2>3. ASSUME NEW p \in flight[b].seen, Explained(b, p), err' = "ok" PROVE Explained(b, p)'
    <3>1. Finishing(a)'
      BY <1>0, <2>3 DEF Finishing
    <3>. QED BY <1>0, <1>1, <1>3, <2>1, <2>3, <3>1, SettleExplained
  <2>. QED BY <1>2, <1>4, <2>1, <2>2, <2>3, OtherFresh
<1>6. Fresh(a)'
  <2>1. Fresh(a) /\ \A p \in flight[a].seen : FileLike(p[1])
    BY DEF FreshInv, Fresh, FilesOnly
  <2>2. \A p \in flight[a].seen :
           /\ p[2] = View(p[1])
           /\ \A q \in Actions \ {a} : Touches(q, p[1]) # {} => q \in done
    BY <2>1, Judged
  <2>3. \A q \in Actions : \A o : Touches(q, o)' = Touches(q, o)
    BY DEF Touches
  <2>4. ASSUME NEW p \in flight[a].seen PROVE Lasting(a, p)'
    <3>1. Touches(a, p[1]) = {} => View(p[1])' = View(p[1])
      BY <1>0, <2>1, SettleDisk, ViewKept
    <3>. QED BY <2>2, <2>3, <3>1 DEF Lasting
  <2>5. Blank(a)' /\ Tried(a)'
    BY <2>1 DEF Fresh, Blank, Tried
  <2>6. FilesOnly(a)'
    <3>1. \A o \in Obs(a) : FileLike(o)
      BY <2>1 DEF Obs
    <3>2. \A S \in known'[a] : S = Obs(a) \/ S \in known[a]
      BY <1>0 DEF StorePathset
    <3>3. \A o : FileLike(o)' = FileLike(o)
      BY DEF FileLike, Below
    <3>. QED BY <2>1, <3>1, <3>2, <3>3 DEF Fresh, FilesOnly
  <2>7. ~Holding(a)'
    BY DEF Holding
  <2>. QED BY <2>4, <2>5, <2>6, <2>7 DEF Fresh
<1>. QED BY <1>5, <1>6 DEF FreshInv

(* Whatever becomes of a landed flight: an error makes no claim, a hit is    *)
(* to blame until it is finished, a result that waits is still explained.    *)
LEMMA CompleteFresh ==
  ASSUME IInv, FreshInv, NEW a \in Actions, NEW e \in Errs, e = "ok" => err = "ok",
         Complete(a, e), pc \in {"loop", "poll"}
  PROVE  FreshInv'
<1>0. TypeOK /\ NotTwice /\ Fresh(a)
  BY DEF IInv, FreshInv
<1>1. flight[a].phase = "landed" /\ InFlight(a) /\ flight' = [flight EXCEPT ![a].phase = "idle"]
  BY DEF Complete, Landed, InFlight, Rest
<1>2. /\ \A b \in Actions \ {a} : flight'[b] = flight[b]
      /\ flight'[a].phase = "idle" /\ flight'[a].seen = flight[a].seen
      /\ flight'[a].epoch = flight[a].epoch
  <2>1. flight = [b \in Actions |-> flight[b]] /\ FlightOK(flight[a])
    BY <1>0 DEF TypeOK
  <2>. QED BY <1>1, <2>1 DEF FlightOK
<1>3. a \notin parked /\ a \notin done /\ \A b \in Actions : ~Finishing(b)
  <2>1. pending[a] \in Nat /\ deferred[a] \in Nat
    BY <1>0 DEF TypeOK
  <2>. QED BY <1>0, <1>1, <2>1 DEF NotTwice, Finishing
(* The flight at rest, whatever is written and whoever is told.             *)
<1>4. ASSUME known' = known, completed' = completed
      PROVE  Blank(a)' /\ FilesOnly(a)' /\ Tried(a)'
  BY <1>0, <1>2, <1>4 DEF Fresh, Blank, FilesOnly, Tried, FileLike, Below
<1>5. ASSUME err' # "ok", pc' = "loop", parked' = parked, done' = done, done_epoch' = done_epoch,
             completed' = completed, disk' = disk, wrote' = wrote, known' = known
      PROVE  FreshInv'
  <2>1. \A b \in Actions : ~Finishing(b)'
    BY <1>5 DEF Finishing
  <2>2. \A b \in Actions \ {a} : Fresh(b)'
    BY <1>2, <1>3, <1>5, <2>1, QuietStep
  <2>3. ~Committed(a)'
    BY <1>2, <1>3, <1>5, <2>1 DEF Committed
  <2>4. Fresh(a)'
    BY <1>4, <1>5, <2>3 DEF Fresh
  <2>. QED BY <2>2, <2>4 DEF FreshInv
<1>6. ASSUME e = "ok", flight[a].hit, pc' = "finish", cur' = a, err' = e, parked' = parked,
             done' = done, done_epoch' = done_epoch, completed' = completed, disk' = disk,
             wrote' = wrote, known' = known
      PROVE  FreshInv'
  <2>1. Finishing(a)' /\ \A b \in Actions \ {a} : ~Finishing(b)'
    BY <1>6 DEF Finishing
  <2>2. \A b \in Actions \ {a} : Blame(a, b) => Blame(a, b)'
    BY <1>6, <2>1 DEF Blame
  <2>3. \A b \in Actions \ {a} : Fresh(b)'
    BY <1>2, <1>3, <1>6, <2>1, <2>2, QuietStep
  <2>4. \A p \in flight[a].seen : Lasting(a, p)
    BY <1>0, <1>1, <1>6 DEF Fresh, Committed
  <2>5. \A q \in Actions : \A o : Touches(q, o)' = Touches(q, o) /\ View(o)' = View(o)
    BY <1>6, SameView DEF Touches
  <2>6. \A p \in flight[a].seen : Lasting(a, p)'
    BY <1>6, <2>4, <2>5 DEF Lasting
  <2>7. ~Holding(a)'
    BY <1>2, <1>3, <1>6 DEF Holding
  <2>8. Fresh(a)'
    BY <1>2, <1>4, <1>6, <2>6, <2>7 DEF Fresh
  <2>. QED BY <2>3, <2>8 DEF FreshInv
<1>7. ASSUME e = "ok", ~flight[a].hit, pc' = "loop", err' = e, parked' \subseteq parked \cup {a},
             done' = done, done_epoch' = done_epoch, completed' = completed, disk' = disk,
             wrote' = wrote, known' = known
      PROVE  FreshInv'
  <2>1. \A b \in Actions : ~Finishing(b)'
    BY <1>7 DEF Finishing
  <2>2. \A b \in Actions \ {a} : ~Blame(a, b)
    BY <1>3, <1>7 DEF Blame
  <2>3. \A b \in Actions \ {a} : b \in parked' => b \in parked
    BY <1>7
  <2>4. \A b \in Actions \ {a} : Fresh(b)'
    BY <1>2, <1>3, <1>7, <2>1, <2>2, <2>3, QuietStep
  <2>5. \A p \in flight[a].seen : Explained(a, p)
    BY <1>0, <1>1, <1>7 DEF Fresh, Holding
  <2>6. \A q \in Actions : \A o : Touches(q, o)' = Touches(q, o) /\ View(o)' = View(o)
    BY <1>7, SameView DEF Touches
  <2>7. ASSUME NEW q \in Actions \ {a}, Blame(q, a) PROVE Blame(q, a)'
    <3>1. flight'[q] = flight[q] /\ ~Finishing(q)
      BY <1>2, <1>3
    <3>. QED BY <1>2, <1>7, <2>7, <3>1 DEF Blame
  <2>8. \A p \in flight[a].seen : Explained(a, p)'
    BY <2>5, <2>6, <2>7 DEF Explained
  <2>9. ~Committed(a)'
    BY <1>2, <1>3, <1>7, <2>1 DEF Committed
  <2>10. Fresh(a)'
    BY <1>2, <1>4, <1>7, <2>8, <2>9 DEF Fresh
  <2>. QED BY <2>4, <2>10 DEF FreshInv
<1>8. ASSUME e = "ok", ~flight[a].hit, Waits(a, Obs(a)) = {},
             ~Requeue(a, Obs(a), flight[a].epoch), Commit(a),
             parked' = parked, done' = done, done_epoch' = done_epoch, completed' = completed
      PROVE  FreshInv'
  <2>1. Holding(a)
    BY <1>1, <1>8 DEF Holding
  <2>. QED BY <1>2, <1>3, <1>8, <2>1, CommitFresh
<1>9. CASE e # "ok" \/ flight[a].failed
  <2>1. /\ err' # "ok" /\ pc' = "loop" /\ UNCHANGED <<sched, store, known>>
    BY <1>9 DEF Complete
  <2>. QED BY <1>5, <2>1 DEF sched, store
<1>10. CASE e = "ok" /\ ~flight[a].failed
  <2>1. CASE flight[a].hit
    <3>1. pc' = "finish" /\ cur' = a /\ err' = e /\ UNCHANGED <<sched, store, known>>
      BY <1>10, <2>1 DEF Complete
    <3>. QED BY <1>6, <1>10, <2>1, <3>1 DEF sched, store
  <2>2. CASE ~flight[a].hit /\ Defer(a, Obs(a))
    <3>1. /\ pc' = "loop" /\ err' = e /\ parked' = parked \cup {a}
          /\ UNCHANGED <<done, done_epoch, completed, store, known>>
      BY <1>10, <2>2 DEF Complete, Defer
    <3>. QED BY <1>7, <1>10, <2>2, <3>1 DEF store
  <2>3. CASE ~flight[a].hit /\ Waits(a, Obs(a)) = {} /\ Requeue(a, Obs(a), flight[a].epoch)
    <3>1. /\ pc' = "loop" /\ err' = e /\ parked' = parked
          /\ UNCHANGED <<done, done_epoch, completed, store, known>>
      BY <1>10, <2>3 DEF Complete, Defer
    <3>. QED BY <1>7, <1>10, <2>3, <3>1 DEF store
  <2>4. CASE ~flight[a].hit /\ Waits(a, Obs(a)) = {} /\ ~Requeue(a, Obs(a), flight[a].epoch)
    <3>1. Commit(a) /\ UNCHANGED sched
      BY <1>10, <2>4 DEF Complete, Defer
    <3>. QED BY <1>8, <1>10, <2>4, <3>1 DEF sched
  <2>5. Defer(a, Obs(a)) \/ Waits(a, Obs(a)) = {} \/ flight[a].hit
    BY <1>10 DEF Complete
  <2>. QED BY <2>1, <2>2, <2>3, <2>4, <2>5
<1>. QED BY <1>9, <1>10

(* A popped action waits again, commits what is judged, or flies with a      *)
(* clean slate, after everything its stored pathset depends on.              *)
LEMMA DispatchedFresh ==
  ASSUME IInv, FreshInv, NEW a \in Actions, TurnDispatch(a)
  PROVE  FreshInv'
<1>0. TypeOK /\ NotTwice /\ Fresh(a)
  BY DEF IInv, FreshInv
<1>1. /\ pc = "loop" /\ err = "ok" /\ a \in ready
      /\ done' = done /\ done_epoch' = done_epoch /\ completed' = completed
  BY DEF TurnDispatch, Checked
<1>2. ~InFlight(a) /\ a \notin done /\ \A b \in Actions : ~Finishing(b)
  BY <1>0, <1>1 DEF NotTwice, Finishing
<1>3. flight[a].phase = "idle"
  BY <1>0, <1>2 DEF InFlight, TypeOK, FlightOK, Phases
<1>4. ASSUME parked' \subseteq parked, pc' = "loop", err' = err, flight' = flight,
             disk' = disk, wrote' = wrote, known' = known
      PROVE  FreshInv'
  <2>1. \A b \in Actions : ~Finishing(b)'
    BY <1>4 DEF Finishing
  <2>. QED BY <1>1, <1>2, <1>4, <2>1, StillStep
<1>5. CASE DispatchParked(a)
  <2>1. CASE Defer(a, Obs(a))
    <3>1. pc' = "loop" /\ UNCHANGED <<err, parked, flight, store, known>>
      BY <1>5, <2>1 DEF DispatchParked, Defer
    <3>. QED BY <1>4, <3>1 DEF store
  <2>2. CASE ~Defer(a, Obs(a))
    <3>1. /\ Waits(a, Obs(a)) = {} /\ ~Requeue(a, Obs(a), flight[a].epoch)
          /\ parked' = parked \ {a} /\ Commit(a) /\ flight' = flight
      BY <1>5, <2>2 DEF DispatchParked
    <3>2. Holding(a)
      BY <1>5 DEF DispatchParked, Holding
    <3>. QED BY <1>1, <1>2, <1>3, <3>1, <3>2, CommitFresh
  <2>. QED BY <2>1, <2>2
<1>6. CASE DispatchFresh(a)
  <2>1. /\ parked' = parked \ {a} /\ pc' = "loop" /\ err' = err /\ known' = known
        /\ disk' = disk /\ wrote' = wrote
    BY <1>6 DEF DispatchFresh, store
  <2>2. CASE flight' = flight
    BY <1>4, <2>1, <2>2
  <2>3. CASE /\ Submit(a)
             /\ Kind[a] = "discovered" => \A S \in known[a] : Waits(a, S) = {}
    <3>1. flight = [b \in Actions |-> flight[b]] /\ completed \in Nat
      BY <1>0 DEF TypeOK
    <3>2. /\ \A b \in Actions \ {a} : flight'[b] = flight[b]
          /\ flight'[a] = [Idle EXCEPT !.phase = "queued"]
      BY <2>3, <3>1 DEF Submit
    <3>3. flight'[a].phase = "queued" /\ flight'[a].seen = {} /\ flight'[a].epoch = 0
      BY <3>2 DEF Idle
    <3>4. \A b \in Actions : ~Finishing(b)'
      BY <2>1 DEF Finishing
    <3>5. \A b \in Actions \ {a} : ~Blame(a, b)
      BY <1>2, <1>3 DEF Blame
    <3>6. \A b \in Actions \ {a} : Fresh(b)'
      BY <1>1, <1>2, <2>1, <3>2, <3>4, <3>5, QuietStep
    <3>7. Blank(a)'
      BY <1>1, <3>1, <3>3 DEF Blank
    <3>8. FilesOnly(a)'
      BY <1>0, <2>1, <3>3 DEF Fresh, FilesOnly, FileLike, Below
    <3>9. Tried(a)'
      <4>1. \A S : Waits(a, S)' = Waits(a, S)
        BY <1>1 DEF Waits, Touches
      <4>. QED BY <2>1, <2>3, <4>1 DEF Tried
    <3>10. Fresh(a)'
      BY <3>3, <3>7, <3>8, <3>9 DEF Fresh
    <3>. QED BY <3>6, <3>10 DEF FreshInv
  <2>. QED BY <1>6, <2>2, <2>3 DEF DispatchFresh
<1>. QED BY <1>5, <1>6 DEF TurnDispatch

(* What a worker leaves alone beside the schedule.                          *)
LEMMA WorkerSpares ==
  ASSUME NEW a \in Actions, Worker(a)
  PROVE  /\ cur' = cur /\ parked' = parked /\ done_epoch' = done_epoch
         /\ completed' = completed /\ known' = known
<1>1. CASE FlightStart(a)
  BY <1>1, Zenon DEF FlightStart, sched
<1>2. CASE LookupAbsent(a)
  BY <1>2, Zenon DEF LookupAbsent, sched
<1>3. CASE LookupRestore(a)
  BY <1>3, Zenon DEF LookupRestore, sched
<1>4. CASE Execute(a)
  BY <1>4, Zenon DEF Execute, sched
<1>. QED BY <1>1, <1>2, <1>3, <1>4 DEF Worker

(* A flight under way: before it lands it has seen nothing; an execution    *)
(* sees what is there; a restore is to blame if it wrote, and one that      *)
(* fails has written nothing.                                               *)
LEMMA WorkerFresh ==
  ASSUME FilesProbed, IInv, HitsLand, FreshInv, NEW a \in Actions, Worker(a), ~HalfRestored(a)
  PROVE  FreshInv'
<1>0. /\ TypeOK /\ NotTwice /\ Fresh(a) /\ FlightOK(flight[a])
      /\ flight = [b \in Actions |-> flight[b]]
  BY DEF IInv, FreshInv, TypeOK
<1>1. /\ pc' = pc /\ err' = err /\ done' = done /\ cur' = cur /\ parked' = parked
      /\ done_epoch' = done_epoch /\ completed' = completed /\ known' = known
  BY WorkerKeeps, WorkerSpares
<1>2. flight[a].phase \in {"queued", "started", "missed"} /\ InFlight(a)
  <2>1. FlightStart(a) => flight[a].phase = "queued"
    BY Zenon DEF FlightStart
  <2>2. LookupAbsent(a) \/ LookupRestore(a) => flight[a].phase = "started"
    BY Zenon DEF LookupAbsent, LookupRestore
  <2>3. Execute(a) => flight[a].phase = "missed"
    BY Zenon DEF Execute
  <2>. QED BY <2>1, <2>2, <2>3 DEF Worker, InFlight
<1>3. a \notin parked /\ a \notin done /\ ~Finishing(a)
  <2>1. pending[a] \in Nat /\ deferred[a] \in Nat
    BY <1>0 DEF TypeOK
  <2>. QED BY <1>0, <1>2, <2>1 DEF NotTwice
<1>4. \A b \in Actions : Finishing(b)' <=> Finishing(b)
  BY <1>1 DEF Finishing
<1>5. ~flight[a].hit /\ flight[a].seen = {}
  BY <1>0, <1>2 DEF HitsLand, Fresh, Blank
<1>6. \A b \in Actions \ {a} : ~Blame(a, b)
  BY <1>2, <1>3 DEF Blame
<1>7. \A q \in Actions : \A o : Touches(q, o)' = Touches(q, o)
  BY DEF Touches
<1>8. \A S : Waits(a, S)' = Waits(a, S)
  BY <1>1, <1>7 DEF Waits
<1>9. \A o : FileLike(o)' = FileLike(o)
  BY DEF FileLike, Below
(* Nothing is seen and nothing is written.                                  *)
<1>10. ASSUME disk' = disk, wrote' = wrote, \A b \in Actions \ {a} : flight'[b] = flight[b],
              flight'[a].seen = {}, flight'[a].phase \in {"started", "missed"},
              flight'[a].phase = "started" => flight[a].phase = "queued",
              flight'[a].epoch \in {flight[a].epoch, completed}
       PROVE  FreshInv'
  <2>1. \A b \in Actions \ {a} : Fresh(b)'
    BY <1>1, <1>4, <1>6, <1>10, QuietStep
  <2>2. Blank(a)'
    <3>1. completed \in Nat /\ flight[a].epoch <= completed
      BY <1>0 DEF TypeOK, Fresh, Blank
    <3>. QED BY <1>1, <1>10, <3>1 DEF Blank
  <2>3. FilesOnly(a)' /\ Tried(a)'
    BY <1>0, <1>1, <1>8, <1>9, <1>10 DEF Fresh, FilesOnly, Tried
  <2>. QED BY <1>10, <2>1, <2>2, <2>3 DEF Fresh, FreshInv
<1>11. CASE FlightStart(a)
  <2>1. flight' = [flight EXCEPT ![a].phase = "started", ![a].epoch = completed]
        /\ flight[a].phase = "queued" /\ disk' = disk /\ wrote' = wrote
    BY <1>11, Zenon DEF FlightStart, store
  <2>2. /\ \A b \in Actions \ {a} : flight'[b] = flight[b]
        /\ flight'[a].seen = flight[a].seen /\ flight'[a].phase = "started"
        /\ flight'[a].epoch = completed
    BY <1>0, <2>1 DEF FlightOK
  <2>. QED BY <1>5, <1>10, <2>1, <2>2
<1>12. CASE LookupAbsent(a)
  <2>1. flight' = [flight EXCEPT ![a].phase = "missed"] /\ disk' = disk /\ wrote' = wrote
    BY <1>12, Zenon DEF LookupAbsent, Missed, store
  <2>2. /\ \A b \in Actions \ {a} : flight'[b] = flight[b]
        /\ flight'[a].seen = flight[a].seen /\ flight'[a].phase = "missed"
        /\ flight'[a].epoch = flight[a].epoch
    BY <1>0, <2>1 DEF FlightOK
  <2>. QED BY <1>5, <1>10, <2>1, <2>2
<1>13. CASE Execute(a)
  <2>1. PICK S \in Probes[a] : \E failed :
          flight' = [flight EXCEPT ![a].phase = "landed", ![a].failed = failed,
                                   ![a].seen = See({Observe(pr) : pr \in S})]
    BY <1>13, Zenon DEF Execute
  <2>2. disk' = disk /\ wrote' = wrote
    BY <1>13, Zenon DEF Execute
  <2>3. /\ \A b \in Actions \ {a} : flight'[b] = flight[b]
        /\ flight'[a].seen = See({Observe(pr) : pr \in S}) /\ flight'[a].phase = "landed"
        /\ flight'[a].epoch = flight[a].epoch /\ flight'[a].hit = flight[a].hit
    BY <1>0, <2>1 DEF FlightOK
  <2>4. \A b \in Actions \ {a} : Fresh(b)'
    BY <1>1, <1>4, <1>6, <2>2, <2>3, QuietStep
  <2>5. ASSUME NEW p \in flight'[a].seen PROVE FileLike(p[1]) /\ Explained(a, p)'
    <3>1. PICK pr \in S : p = <<Observe(pr), View(Observe(pr))>>
      BY <2>3 DEF See
    <3>2. pr.list \/ Below(pr.path) \cap Produced = {}
      BY DEF FilesProbed
    <3>3. FileLike(Observe(pr))
      BY <3>2 DEF FileLike, Observe
    <3>4. View(p[1])' = View(p[1])
      BY <2>2, SameView
    <3>. QED BY <3>1, <3>3, <3>4 DEF Explained
  <2>6. FilesOnly(a)'
    BY <1>0, <1>1, <1>9, <2>5 DEF Fresh, FilesOnly
  <2>7. Blank(a)' /\ Tried(a)'
    BY <1>0, <1>1, <2>3 DEF Fresh, Blank, Tried
  <2>8. ~Committed(a)'
    BY <1>1, <1>3, <1>4, <1>5, <2>3 DEF Committed
  <2>. QED BY <2>4, <2>5, <2>6, <2>7, <2>8 DEF Fresh, FreshInv
<1>14. CASE LookupRestore(a)
  <2>1. flight[a].phase = "started" /\ Settle(a)
    BY <1>14, Zenon DEF LookupRestore
  <2>2. PICK S \in Candidates(a) :
          \/ flight' = [flight EXCEPT ![a].phase = "landed", ![a].hit = TRUE, ![a].seen = See(S)]
          \/ flight' = [flight EXCEPT ![a].phase = "missed"]
    BY <1>14 DEF LookupRestore, Missed
  <2>3. \A b \in Actions \ {a} : flight'[b] = flight[b]
    BY <1>0, <2>2
  <2>4. CASE flight' = [flight EXCEPT ![a].phase = "landed", ![a].hit = TRUE, ![a].seen = See(S)]
    <3>1. /\ flight'[a].phase = "landed" /\ flight'[a].hit /\ flight'[a].seen = See(S)
          /\ flight'[a].epoch = flight[a].epoch
      BY <1>0, <2>4 DEF FlightOK
    <3>2. ASSUME NEW b \in Actions \ {a} PROVE Fresh(b)'
      <4>1. Fresh(b) /\ \A p \in flight[b].seen : FileLike(p[1])
        BY DEF FreshInv, Fresh, FilesOnly
      <4>2. ASSUME NEW p \in flight[b].seen, Lasting(b, p) PROVE Lasting(b, p)'
        BY <1>1, <1>3, <2>1, <4>1, <4>2, SettleLasting
      <4>3. ASSUME NEW p \in flight[b].seen, Explained(b, p) PROVE Explained(b, p)'
        BY <1>1, <1>2, <1>3, <1>4, <2>1, <2>3, <3>1, <4>1, <4>3, SettleExplained
      <4>. QED BY <1>1, <1>4, <2>3, <4>1, <4>2, <4>3, OtherFresh
    <3>3. ASSUME NEW p \in flight'[a].seen PROVE FileLike(p[1]) /\ Lasting(a, p)'
      <4>1. PICK o \in S : p = <<o, View(o)>>
        BY <3>1 DEF See
      <4>2. Kind[a] = "discovered" /\ S \in known[a]
        BY <2>2, <4>1 DEF Candidates
      <4>3. Waits(a, S) = {} /\ FileLike(o)
        BY <1>0, <2>1, <4>1, <4>2 DEF Fresh, Tried, FilesOnly
      <4>4. \A q \in Actions \ {a} : Touches(q, o) # {} => q \in done
        BY <4>1, <4>3, WaitsNobody
      <4>5. Touches(a, o) = {} => View(o)' = View(o)
        BY <2>1, <4>3, SettleDisk, ViewKept
      <4>. QED BY <1>1, <1>7, <4>1, <4>3, <4>4, <4>5 DEF Lasting
    <3>4. FilesOnly(a)'
      BY <1>0, <1>1, <1>9, <3>3 DEF Fresh, FilesOnly
    <3>5. Blank(a)' /\ Tried(a)'
      BY <1>0, <1>1, <3>1 DEF Fresh, Blank, Tried
    <3>6. ~Holding(a)'
      BY <1>1, <1>3, <3>1 DEF Holding
    <3>. QED BY <3>2, <3>3, <3>4, <3>5, <3>6 DEF Fresh, FreshInv
  <2>5. CASE flight' = [flight EXCEPT ![a].phase = "missed"]
    <3>1. /\ flight'[a].phase = "missed" /\ flight'[a].seen = flight[a].seen
          /\ flight'[a].epoch = flight[a].epoch
      BY <1>0, <2>5 DEF FlightOK
    <3>2. \A t \in Targets : disk'[t] = disk[t]
      BY <2>1, <3>1, SettleDisk DEF HalfRestored
    <3>3. \A o : View(o)' = View(o)
      BY <3>2, SameView
    <3>4. ASSUME NEW b \in Actions \ {a} PROVE Fresh(b)'
      <4>1. ASSUME NEW q \in Actions \ {b}, Blame(q, b) PROVE Blame(q, b)'
        <5>1. q # a
          BY <1>6, <4>1
        <5>2. wrote'[q] = wrote[q] /\ flight'[q] = flight[q]
          BY <2>1, <2>3, <5>1, SettleDisk
        <5>. QED BY <1>1, <1>4, <2>3, <4>1, <5>2 DEF Blame
      <4>2. \A p \in flight[b].seen : /\ Explained(b, p) => Explained(b, p)'
                                      /\ Lasting(b, p) => Lasting(b, p)'
        BY <1>1, <1>7, <3>3, <4>1 DEF Explained, Lasting
      <4>3. Fresh(b)
        BY DEF FreshInv
      <4>. QED BY <1>1, <1>4, <2>3, <4>2, <4>3, OtherFresh
    <3>5. Blank(a)' /\ FilesOnly(a)' /\ Tried(a)'
      BY <1>0, <1>1, <1>5, <1>9, <3>1 DEF Fresh, Blank, FilesOnly, Tried
    <3>6. Fresh(a)'
      BY <1>5, <3>1, <3>5 DEF Fresh
    <3>. QED BY <3>4, <3>6 DEF FreshInv
  <2>. QED BY <2>2, <2>4, <2>5
<1>. QED BY <1>11, <1>12, <1>13, <1>14 DEF Worker

(* Nothing has been seen yet, and what earlier builds stored is as assumed. *)
LEMMA FreshInit == ASSUME FilesProbed, Init PROVE FreshInv
<1> SUFFICES ASSUME NEW a \in Actions PROVE Fresh(a)
  BY DEF FreshInv
<1>1. flight[a] = Idle /\ done = {} /\ parked = {} /\ completed = 0 /\ pc = "seed"
  BY DEF Init
<1>2. flight[a].phase = "idle" /\ flight[a].seen = {} /\ flight[a].epoch = 0
  BY <1>1 DEF Idle
<1>3. known[a] \in {{S} : S \in Pathsets[a]} \cup {{}}
  BY Zenon DEF Init
<1>4. \A S \in known[a] : \A o \in S : FileLike(o)
  BY <1>3 DEF FilesProbed
<1>. QED BY <1>1, <1>2, <1>4 DEF Fresh, Blank, FilesOnly, Tried, Holding, Committed, Finishing

(* Every step keeps what has been seen explained: one case per action.      *)
LEMMA FreshStep ==
  ASSUME FilesProbed, IInv, HitsLand, FreshInv, [Next]_vars,
         [\A a \in Actions : ~HalfRestored(a)]_vars
  PROVE  FreshInv'
<1>0. TypeOK
  BY DEF IInv
<1>1. CASE Seed
  <2>1. /\ disk' = disk /\ wrote' = wrote /\ done' = done /\ done_epoch' = done_epoch
        /\ completed' = completed /\ known' = known /\ flight' = flight /\ parked' = parked
    BY <1>1, Zenon DEF Seed, store
  <2>2. pc = "seed" /\ pc' # "finish" /\ (err' = "ok" => err = "ok")
    BY <1>1 DEF Seed
  <2>. QED BY <2>1, <2>2, StillStep DEF Finishing
<1>2. CASE FinishAction
  BY <1>2, FinishFresh
<1>3. ASSUME NEW a \in Actions, TurnComplete(a) PROVE FreshInv'
  <2>1. Checked \in Errs /\ (Checked = "ok" => err = "ok")
    BY <1>0 DEF Checked, Errs, TypeOK
  <2>. QED BY <1>3, <2>1, CompleteFresh DEF TurnComplete
<1>4. ASSUME NEW a \in Actions, PollReturn(a) PROVE FreshInv'
  <2>1. err \in Errs
    BY <1>0 DEF TypeOK
  <2>. QED BY <1>4, <2>1, CompleteFresh DEF PollReturn
<1>5. ASSUME NEW a \in Actions, TurnDispatch(a) PROVE FreshInv'
  BY <1>5, DispatchedFresh
<1>6. CASE TurnBlock
  <2>1. /\ disk' = disk /\ wrote' = wrote /\ done' = done /\ done_epoch' = done_epoch
        /\ completed' = completed /\ known' = known /\ flight' = flight /\ parked' = parked
    BY <1>6, Zenon DEF TurnBlock, store, sched
  <2>2. pc = "loop" /\ pc' = "poll" /\ (err' = "ok" => err = "ok")
    BY <1>6 DEF TurnBlock, Checked
  <2>. QED BY <2>1, <2>2, StillStep DEF Finishing
<1>7. CASE TurnExit
  <2>1. /\ disk' = disk /\ wrote' = wrote /\ done' = done /\ done_epoch' = done_epoch
        /\ completed' = completed /\ known' = known /\ flight' = flight /\ parked' = parked
    BY <1>7, Zenon DEF TurnExit, store, sched
  <2>2. pc = "loop" /\ pc' = "ended" /\ (err' = "ok" => err = "ok")
    BY <1>7 DEF TurnExit, Checked
  <2>. QED BY <2>1, <2>2, StillStep DEF Finishing
<1>8. CASE UNCHANGED <<pc, cur, err, sched, flight, store, known>>
  <2>1. /\ disk' = disk /\ wrote' = wrote /\ done' = done /\ done_epoch' = done_epoch
        /\ completed' = completed /\ known' = known /\ flight' = flight /\ parked' = parked
        /\ pc' = pc /\ cur' = cur /\ err' = err
    BY <1>8, Zenon DEF store, sched
  <2>. QED BY <2>1, StillStep DEF Finishing
<1>9. CASE RequestCancel
  BY <1>8, <1>9, Zenon DEF RequestCancel
<1>10. CASE UNCHANGED vars
  BY <1>8, <1>10, Zenon DEF vars
<1>11. ASSUME NEW a \in Actions, Worker(a) PROVE FreshInv'
  <2>1. CASE UNCHANGED vars
    BY <1>10, <2>1
  <2>2. CASE ~HalfRestored(a)
    BY <1>11, <2>2, WorkerFresh
  <2>. QED BY <2>1, <2>2
<1>12. CASE Ended
  BY <1>10, <1>12 DEF Ended
<1>. QED BY <1>1, <1>2, <1>3, <1>4, <1>5, <1>6, <1>7, <1>9, <1>10, <1>11, <1>12 DEF Next, Main

(* The results of a finished action are what a build from scratch would use: *)
(* if no failing restore leaves a rewritten target behind and only listings  *)
(* ask about directories that hold targets, then, for every graph, cache and *)
(* interleaving, the deferral and requeue of run.c leave no finished action   *)
(* with an observation that a later write has made stale.                    *)
THEOREM ResultsStayFresh ==
  ASSUME FilesProbed
  PROVE  Spec /\ RestoresWhole => []FreshCommits
<1>1. Init => FreshInv
  BY FreshInit
<1>2. IInv /\ HitsLand /\ FreshInv /\ [Next]_vars /\ [\A a \in Actions : ~HalfRestored(a)]_vars
        => FreshInv'
  BY FreshStep
<1>3. IInv /\ FreshInv => FreshCommits
  BY DEF IInv, TypeOK, FreshInv, Fresh, Committed, Lasting, FreshCommits
<1>. QED BY <1>1, <1>2, <1>3, Invariance, TidyRun, PTL DEF Spec, RestoresWhole

(* A commit is judged at the moment it records its entry.                   *)
LEMMA CommitIsFact ==
  ASSUME IInv, FreshInv, [Next]_vars, NEW a \in Actions, ~Finishing(a), Finishing(a)',
         ~flight[a].hit
  PROVE  \A p \in flight[a].seen : p[2] = View(p[1])
<1>0. TypeOK /\ Fresh(a) /\ pc' = "finish" /\ cur' = a
  BY DEF IInv, FreshInv, Finishing
<1>1. ASSUME NEW b \in Actions, NEW e, e = "ok" => err = "ok", Complete(b, e), pc \in {"loop", "poll"}
      PROVE  \A p \in flight[a].seen : p[2] = View(p[1])
  <2>1. /\ b = a /\ e = "ok" /\ flight[a].phase = "landed"
        /\ Waits(a, Obs(a)) = {} /\ ~Requeue(a, Obs(a), flight[a].epoch)
    BY <1>0, <1>1 DEF Complete, Commit, Landed
  <2>2. Holding(a)
    BY <2>1 DEF Holding
  <2>. QED BY <1>0, <1>1, <2>1, <2>2, Judged
<1>2. ASSUME NEW b \in Actions, TurnDispatch(b)
      PROVE  \A p \in flight[a].seen : p[2] = View(p[1])
  <2>1. /\ b = a /\ err = "ok" /\ pc = "loop" /\ a \in parked
        /\ Waits(a, Obs(a)) = {} /\ ~Requeue(a, Obs(a), flight[a].epoch)
    BY <1>0, <1>2 DEF TurnDispatch, DispatchParked, DispatchFresh, Commit, Checked
  <2>2. Holding(a)
    BY <2>1 DEF Holding
  <2>. QED BY <1>0, <2>1, <2>2, Judged
<1>3. ASSUME NEW b \in Actions, TurnComplete(b) \/ PollReturn(b)
      PROVE  \A p \in flight[a].seen : p[2] = View(p[1])
  <2>1. Checked = "ok" => err = "ok"
    BY DEF Checked
  <2>. QED BY <1>1, <1>3, <2>1 DEF TurnComplete, PollReturn
<1>4. ~(FinishAction \/ TurnBlock \/ TurnExit)
  BY <1>0 DEF FinishAction, TurnBlock, TurnExit
<1>5. ~Seed
  BY <1>0 DEF Seed
<1>6. ASSUME NEW b \in Actions, Worker(b) PROVE FALSE
  BY <1>0, <1>6, WorkerKeeps, WorkerSpares DEF Finishing
<1>7. ~(RequestCancel \/ Ended \/ UNCHANGED vars)
  BY <1>0, Zenon DEF RequestCancel, Ended, vars, Finishing
<1>. QED BY <1>2, <1>3, <1>4, <1>5, <1>6, <1>7 DEF Next, Main

(* The action cache only learns facts: under the same two conditions every   *)
(* entry a commit records says what the execution saw, so that it cannot     *)
(* hand a later build an output that its inputs do not produce.              *)
THEOREM EntriesAreFacts ==
  ASSUME FilesProbed
  PROVE  Spec /\ RestoresWhole => TrueFacts
<1>1. Init => FreshInv
  BY FreshInit
<1>2. IInv /\ HitsLand /\ FreshInv /\ [Next]_vars /\ [\A a \in Actions : ~HalfRestored(a)]_vars
        => FreshInv'
  BY FreshStep
<1>3. IInv /\ FreshInv /\ [Next]_vars =>
        [\A a \in Actions :
           ~Finishing(a) /\ Finishing(a)' /\ ~flight[a].hit /\ a \in entry' =>
             \A p \in flight[a].seen : p[2] = View(p[1])]_vars
  BY CommitIsFact
<1>. QED BY <1>1, <1>2, <1>3, Invariance, TidyRun, PTL DEF Spec, RestoresWhole, TrueFacts

-----------------------------------------------------------------------------
(* The order of settling that makes every restore whole: an action's values, *)
(* outputs without a path, come before the one output that is on disk.       *)
PathsLast == \A a \in Actions : \A i, j \in DOMAIN Produces[a] :
               i < j => Produces[a][i] \notin Targets

(* A failing settle has then not reached the target.                        *)
LEMMA StuckBefore ==
  ASSUME PathsLast, IInv, NEW a \in Actions, ~Settles(a), Settle(a)
  PROVE  \A t \in Targets : disk'[t] = disk[t]
<1>0. Produces[a] \in Seq(Artifacts)
  BY GraphAssumption DEF ValidGraph
<1>1. PICK k \in DOMAIN Produces[a] : Stuck(Produces[a][k])
  BY DEF Settles, StuckAt
<1>2. ASSUME NEW t \in Settled(a) PROVE t \notin Targets
  <2>1. PICK i \in DOMAIN Produces[a] :
          t = Produces[a][i] /\ \A j \in 1..i : ~Stuck(Produces[a][j])
    BY <1>2 DEF Settled
  <2>2. i \in Nat /\ k \in Nat /\ 1 <= k /\ 1 <= i
    BY <1>0
  <2>3. i < k
    BY <1>1, <2>1, <2>2
  <2>. QED BY <2>1, <2>3 DEF PathsLast
<1>3. disk' = [t \in Targets |-> IF t \in Settled(a) THEN "cur" ELSE disk[t]]
  BY DEF Settle
<1>. QED BY <1>2, <1>3

(* The condition on restores is one on the graph: where only an action's     *)
(* last output is on disk, no restore of spn_dag_run fails after it has      *)
(* rewritten a target.  The include trees of dag_add_tree, whose stamp comes *)
(* after the tree, are not of this shape.                                    *)
THEOREM RestoresAreWhole ==
  ASSUME PathsLast
  PROVE  Spec => RestoresWhole
<1>1. IInv /\ [Next]_vars => [\A a \in Actions : ~HalfRestored(a)]_vars
  <2> SUFFICES ASSUME IInv, [Next]_vars, NEW a \in Actions, HalfRestored(a) PROVE FALSE
    OBVIOUS
  <2>0. /\ flight = [b \in Actions |-> flight[b]] /\ FlightOK(flight[a])
        /\ flight[a].phase = "started" /\ flight'[a].phase = "missed"
        /\ \E t \in Targets : disk'[t] # disk[t]
    BY DEF IInv, TypeOK, HalfRestored
  <2>1. CASE flight' = flight
    BY <2>0, <2>1
  <2>2. ASSUME NEW b \in Actions, TurnComplete(b) \/ PollReturn(b) PROVE FALSE
    <3>1. flight' = [flight EXCEPT ![b].phase = "idle"]
      BY <2>2 DEF TurnComplete, PollReturn, Complete, Rest
    <3>. QED BY <2>0, <3>1 DEF FlightOK
  <2>3. ASSUME NEW b \in Actions, Submit(b) PROVE FALSE
    BY <2>0, <2>3 DEF Submit, Idle
  <2>4. ASSUME NEW b \in Actions, FlightStart(b) \/ LookupAbsent(b) \/ Execute(b) PROVE FALSE
    <3>1. disk' = disk
      <4>1. FlightStart(b) => disk' = disk
        BY Zenon DEF FlightStart, store
      <4>2. LookupAbsent(b) => disk' = disk
        BY Zenon DEF LookupAbsent, store
      <4>3. Execute(b) => disk' = disk
        BY Zenon DEF Execute
      <4>. QED BY <2>4, <4>1, <4>2, <4>3
    <3>. QED BY <2>0, <3>1
  <2>5. ASSUME NEW b \in Actions, LookupRestore(b) PROVE FALSE
    <3>1. /\ Settle(b)
          /\ \E S : \/ flight' = [flight EXCEPT ![b].phase = "landed", ![b].hit = TRUE,
                                                ![b].seen = See(S)]
                    \/ ~Settles(b)
      BY <2>5 DEF LookupRestore
    <3>2. CASE ~Settles(b)
      BY <2>0, <3>1, <3>2, StuckBefore
    <3>3. ASSUME NEW S, flight' = [flight EXCEPT ![b].phase = "landed", ![b].hit = TRUE,
                                                 ![b].seen = See(S)]
          PROVE  FALSE
      BY <2>0, <3>3 DEF FlightOK
    <3>. QED BY <3>1, <3>2, <3>3
  <2>6. ASSUME NEW b \in Actions, TurnDispatch(b) PROVE FALSE
    <3>1. flight' = flight \/ Submit(b)
      BY <2>6 DEF TurnDispatch, DispatchParked, DispatchFresh
    <3>. QED BY <2>1, <2>3, <2>6, <3>1
  <2>7. Seed \/ FinishAction \/ TurnBlock \/ TurnExit \/ RequestCancel \/ Ended \/ UNCHANGED vars
          => flight' = flight
    <3>1. Seed \/ FinishAction => flight' = flight
      BY Zenon DEF Seed, FinishAction
    <3>2. TurnBlock \/ TurnExit => flight' = flight
      BY Zenon DEF TurnBlock, TurnExit
    <3>3. RequestCancel \/ Ended \/ UNCHANGED vars => flight' = flight
      BY Zenon DEF RequestCancel, Ended, vars
    <3>. QED BY <3>1, <3>2, <3>3
  <2>. QED BY <2>1, <2>2, <2>4, <2>5, <2>6, <2>7 DEF Next, Main, Worker
<1>. QED BY <1>1, Invariance, PTL DEF Spec, RestoresWhole
=============================================================================
