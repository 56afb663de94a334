---------------------------- MODULE ModelProofs ----------------------------
(***************************************************************************)
(* Theorems about Reachability, Model and Units: what following edges      *)
(* reaches, that the loop over options and gates settles, and that the     *)
(* units it leads to are complete.                                         *)
(***************************************************************************)
EXTENDS Units, TLAPS, FiniteSetTheorems, WellFoundedInduction

-----------------------------------------------------------------------------
(* Reachability.                                                           *)

(* Induction over the naturals, for a set: the least number outside it has *)
(* its predecessor in it.                                                  *)
LEMMA Induction ==
  ASSUME NEW T \in SUBSET Nat, 0 \in T, \A n \in T : n + 1 \in T
  PROVE  T = Nat
<1>1. SUFFICES ASSUME Nat \ T # {} PROVE FALSE
  OBVIOUS
<1>2. PICK x \in Nat \ T : \A y \in Nat \ T : ~(<<y, x>> \in OpToRel(<, Nat))
  <2> DEFINE U == Nat \ T
  <2>1. U \subseteq Nat /\ U # {}
    BY <1>1
  <2> HIDE DEF U
  <2>2. \E x \in U : \A y \in U : ~(<<y, x>> \in OpToRel(<, Nat))
    BY <2>1, WFMin, NatLessThanWellFounded
  <2> QED
    BY <2>2 DEF U
<1>3. x \in Nat /\ x # 0 /\ x \notin T
  BY <1>2
<1>4. x - 1 \in Nat /\ x - 1 < x /\ (x - 1) + 1 = x
  BY <1>3
<1>5. <<x - 1, x>> \in OpToRel(<, Nat)
  BY <1>3, <1>4 DEF OpToRel
<1>6. x - 1 \in T
  BY <1>2, <1>4, <1>5
<1>7. (x - 1) + 1 \in T
  BY <1>6
<1> QED
  BY <1>3, <1>4, <1>7

Rounds(E, S, N) == CHOOSE R : R = [n \in 0 .. N |-> IF n = 0 THEN S ELSE Follow(E, R[n - 1])]

(* The rounds of Reach exist, whatever their number.                       *)
LEMMA RoundsExist ==
  ASSUME NEW E, NEW S, NEW N \in Nat
  PROVE  Rounds(E, S, N) = [n \in 0 .. N |-> IF n = 0 THEN S ELSE Follow(E, Rounds(E, S, N)[n - 1])]
<1> DEFINE Is(R, m) == R = [n \in 0 .. m |-> IF n = 0 THEN S ELSE Follow(E, R[n - 1])]
           T == {m \in Nat : \E R : Is(R, m)}
<1>1. 0 \in T
  <2> DEFINE R == [n \in 0 .. 0 |-> S]
  <2>1. \A n \in 0 .. 0 : n = 0
    OBVIOUS
  <2>2. Is(R, 0)
    BY <2>1
  <2> QED
    BY <2>2
<1>2. ASSUME NEW m \in T PROVE m + 1 \in T
  <2>1. PICK R : Is(R, m)
    OBVIOUS
  <2> DEFINE Q == [n \in 0 .. m + 1 |-> IF n = m + 1 THEN Follow(E, R[m]) ELSE R[n]]
  <2>2. m \in Nat /\ m + 1 \in Nat
    OBVIOUS
  <2>3. \A n \in 0 .. m + 1 : Q[n] = IF n = 0 THEN S ELSE Follow(E, Q[n - 1])
    <3> TAKE n \in 0 .. m + 1
    <3>1. CASE n = 0
      <4>1. 0 \in 0 .. m /\ 0 # m + 1 /\ 0 \in 0 .. m + 1
        BY <2>2
      <4>2. R[0] = S
        BY <2>1, <4>1
      <4> QED
        BY <3>1, <4>1, <4>2
    <3>2. CASE n = m + 1
      <4>1. n - 1 = m /\ m \in 0 .. m + 1 /\ m # m + 1 /\ n # 0
        BY <2>2, <3>2
      <4> QED
        BY <3>2, <4>1
    <3>3. CASE n # 0 /\ n # m + 1
      <4>1. n \in 0 .. m /\ n - 1 \in 0 .. m + 1 /\ n - 1 # m + 1
        BY <2>2, <3>3
      <4>2. R[n] = Follow(E, R[n - 1])
        BY <2>1, <3>3, <4>1
      <4> QED
        BY <3>3, <4>1, <4>2
    <3> QED
      BY <3>1, <3>2, <3>3
  <2>4. Is(Q, m + 1)
    BY <2>3, Zenon
  <2> QED
    BY <2>2, <2>4
<1> HIDE DEF T
<1>3. T \subseteq Nat
  BY DEF T
<1>4. N \in T
  BY <1>1, <1>2, <1>3, Induction
<1>5. \E R : Is(R, N)
  BY <1>4 DEF T
<1> QED
  BY <1>5, Zenon DEF Rounds

(* What is reached from S along finitely many edges: S, whatever an edge   *)
(* leads to from there, and nothing else.                                  *)
LEMMA RoundFacts ==
  ASSUME NEW E, NEW S, NEW N \in Nat,
         NEW n \in 0 .. N
  PROVE  LET R == Rounds(E, S, N) IN
         /\ R[0] = S
         /\ n < N => n + 1 \in 0 .. N /\ R[n + 1] = Follow(E, R[n])
<1> DEFINE R == Rounds(E, S, N)
<1>1. \A k \in 0 .. N : R[k] = IF k = 0 THEN S ELSE Follow(E, R[k - 1])
  BY RoundsExist
<1> HIDE DEF R
<1>2. R[0] = S
  <2>1. 0 \in 0 .. N
    OBVIOUS
  <2> QED
    BY <1>1, <2>1
<1>3. ASSUME n < N PROVE n + 1 \in 0 .. N /\ R[n + 1] = Follow(E, R[n])
  <2>1. n + 1 \in 0 .. N /\ n + 1 # 0 /\ (n + 1) - 1 = n
    BY <1>3
  <2> QED
    BY <1>1, <2>1
<1> QED
  BY <1>2, <1>3 DEF R

LEMMA ReachIs ==
  ASSUME NEW E, NEW S
  PROVE  Reach(E, S) = Rounds(E, S, Cardinality(E))[Cardinality(E)]
BY DEF Reach, Rounds

Closed(E, X) == \A p \in E : p[1] \in X => p[2] \in X

(* Reach is contained in every closed set that contains its start.         *)
LEMMA ReachLeast ==
  ASSUME NEW E, IsFiniteSet(E), NEW S, NEW C, S \subseteq C, Closed(E, C)
  PROVE  Reach(E, S) \subseteq C
<1> DEFINE N == Cardinality(E)
           R == Rounds(E, S, N)
           T == {n \in Nat : n \in 0 .. N => R[n] \subseteq C}
<1>1. N \in Nat
  BY FS_CardinalityType
<1> HIDE DEF N
<1>2. 0 \in 0 .. N
  BY <1>1
<1>3. R[0] = S
  BY <1>1, <1>2, RoundFacts
<1>4. ASSUME NEW n \in 0 .. N, n < N PROVE R[n + 1] = Follow(E, R[n])
  BY <1>1, <1>4, RoundFacts
<1> HIDE DEF R
<1>5. 0 \in T
  BY <1>3
<1>6. ASSUME NEW n \in T PROVE n + 1 \in T
  <2>1. SUFFICES ASSUME n + 1 \in 0 .. N PROVE R[n + 1] \subseteq C
    OBVIOUS
  <2>2. n \in 0 .. N /\ n < N
    BY <1>1, <2>1
  <2>3. R[n] \subseteq C
    BY <2>2
  <2>4. Follow(E, R[n]) \subseteq C
    BY <2>3 DEF Follow, Closed
  <2> QED
    BY <1>4, <2>2, <2>4
<1>7. T \subseteq Nat
  OBVIOUS
<1> HIDE DEF T
<1>8. N \in T
  BY <1>1, <1>5, <1>6, <1>7, Induction
<1>9. R[N] \subseteq C
  BY <1>1, <1>8 DEF T
<1> QED
  BY <1>9, ReachIs DEF R, N

(* Reach contains its start and is closed: as long as a round is not,      *)
(* the next has another edge that starts in it.                            *)
LEMMA ReachClosed ==
  ASSUME NEW E, IsFiniteSet(E), NEW S
  PROVE  S \subseteq Reach(E, S) /\ Closed(E, Reach(E, S))
<1> DEFINE N == Cardinality(E)
           R == Rounds(E, S, N)
           A(n) == {p \in E : p[1] \in R[n]}
           T == {n \in Nat : n \in 0 .. N =>
                   S \subseteq R[n] /\ (Closed(E, R[n]) \/ Cardinality(A(n)) >= n + 1)}
<1>1. N \in Nat
  BY FS_CardinalityType
<1>2. \A n : IsFiniteSet(A(n)) /\ Cardinality(A(n)) \in Nat /\ Cardinality(A(n)) <= N
  BY FS_Subset, FS_CardinalityType
<1> HIDE DEF N
<1>3. 0 \in 0 .. N
  BY <1>1
<1>4. R[0] = S
  BY <1>1, <1>3, RoundFacts
<1>5. ASSUME NEW n \in 0 .. N, n < N PROVE R[n + 1] = Follow(E, R[n])
  BY <1>1, <1>5, RoundFacts
<1> HIDE DEF R
<1>6. 0 \in T
  <2>1. ASSUME ~Closed(E, R[0]) PROVE Cardinality(A(0)) >= 0 + 1
    <3>1. A(0) # {}
      BY <2>1 DEF Closed
    <3>2. Cardinality(A(0)) # 0
      BY <3>1, <1>2, FS_EmptySet
    <3>3. Cardinality(A(0)) \in Nat
      BY <1>2
    <3> HIDE DEF A
    <3> QED
      BY <3>2, <3>3
  <2>2. S \subseteq R[0]
    BY <1>4
  <2> HIDE DEF A
  <2> QED
    BY <2>1, <2>2
<1>7. ASSUME NEW n \in T PROVE n + 1 \in T
  <2>1. SUFFICES ASSUME n + 1 \in 0 .. N
                 PROVE  S \subseteq R[n + 1] /\ (Closed(E, R[n + 1]) \/ Cardinality(A(n + 1)) >= (n + 1) + 1)
    OBVIOUS
  <2>2. n \in Nat /\ n \in 0 .. N /\ n < N
    BY <1>1, <2>1
  <2>3. R[n + 1] = Follow(E, R[n])
    BY <1>5, <2>2
  <2>4. S \subseteq R[n + 1]
    BY <2>2, <2>3 DEF Follow
  <2>5. CASE Closed(E, R[n])
    <3>1. R[n + 1] = R[n]
      BY <2>3, <2>5 DEF Follow, Closed
    <3> QED
      BY <2>4, <2>5, <3>1
  <2>6. CASE ~Closed(E, R[n])
    <3>1. SUFFICES ASSUME ~Closed(E, R[n + 1]) PROVE Cardinality(A(n + 1)) >= (n + 1) + 1
      BY <2>4
    <3>2. PICK p \in E : p[1] \in R[n + 1] /\ p[2] \notin R[n + 1]
      BY <3>1 DEF Closed
    <3>3. p[1] \notin R[n]
      BY <2>3, <3>2 DEF Follow
    <3>4. A(n) \subseteq A(n + 1) /\ p \in A(n + 1) /\ p \notin A(n)
      BY <2>3, <3>2, <3>3 DEF Follow
    <3>5. Cardinality(A(n)) # Cardinality(A(n + 1)) /\ Cardinality(A(n)) <= Cardinality(A(n + 1))
      <4> DEFINE X == A(n)  Y == A(n + 1)
      <4>1. IsFiniteSet(Y) /\ X \in SUBSET Y /\ X # Y
        BY <1>2, <3>4
      <4> HIDE DEF X, Y
      <4>2. Cardinality(X) <= Cardinality(Y) /\ (Cardinality(Y) = Cardinality(X) => Y = X)
        BY <4>1, FS_Subset
      <4> QED
        BY <4>1, <4>2 DEF X, Y
    <3>6. Cardinality(A(n)) >= n + 1
      BY <2>2, <2>6
    <3>7. Cardinality(A(n)) \in Nat /\ Cardinality(A(n + 1)) \in Nat
      BY <1>2
    <3> HIDE DEF A
    <3> QED
      BY <2>2, <3>5, <3>6, <3>7
  <2> QED
    BY <2>5, <2>6
<1>8. T \subseteq Nat
  OBVIOUS
<1> HIDE DEF T
<1>9. N \in T
  BY <1>1, <1>6, <1>7, <1>8, Induction
<1>10. S \subseteq R[N] /\ (Closed(E, R[N]) \/ Cardinality(A(N)) >= N + 1)
  BY <1>1, <1>9 DEF T
<1>11. Cardinality(A(N)) \in Nat /\ Cardinality(A(N)) <= N
  BY <1>2
<1>12. S \subseteq R[N] /\ Closed(E, R[N])
  <2> HIDE DEF A
  <2> QED
    BY <1>1, <1>10, <1>11
<1> QED
  BY <1>12, ReachIs DEF R, N

-----------------------------------------------------------------------------
(* The loop over options and gates.                                        *)

(* Rooted, but for what is out of reach.                                   *)
Tied(insts) ==
  /\ \A i \in insts : DOMAIN i = {"id", "name", "source", "pkg", "edges"}
  /\ IsFiniteSet(Links(insts))
  /\ \A i, j \in insts : i.id = j.id => i = j
  /\ \A i \in insts : \A e \in i.edges : \E to \in insts : to.id = e.id
  /\ \E i \in insts : \A j \in insts : j.source = "root" <=> j = i

RootIds(insts) == {i.id : i \in {j \in insts : j.source = "root"}}

(* A sweep leaves instances all of which the root reaches.                 *)
LEMMA SweepRooted ==
  ASSUME NEW insts, Tied(insts)
  PROVE  Rooted(sweep_unreachable(insts))
<1> DEFINE K == Reach(Links(insts), RootIds(insts))
           W == {i \in insts : i.id \in K}
           L == Reach(Links(W), RootIds(W))
<1>1. sweep_unreachable(insts) = W /\ sweep_unreachable(W) = {i \in W : i.id \in L}
  BY Zenon DEF sweep_unreachable, RootIds
<1>2. RootIds(insts) \subseteq K /\ Closed(Links(insts), K)
  BY ReachClosed DEF Tied
<1> HIDE DEF K
<1>3. W \subseteq insts /\ \A i \in insts : i \in W <=> i.id \in K
  OBVIOUS
<1> HIDE DEF W
<1>4. \A i \in insts : \A e \in i.edges : <<i.id, e.id>> \in Links(insts)
  BY DEF Links
<1>5. \A i \in W : \A e \in i.edges : \E to \in W : to.id = e.id
  <2>1. SUFFICES ASSUME NEW i \in W, NEW e \in i.edges PROVE \E to \in W : to.id = e.id
    OBVIOUS
  <2>2. i \in insts /\ i.id \in K
    BY <1>3
  <2>3. e.id \in K
    BY <1>2, <1>4, <2>2 DEF Closed
  <2>4. PICK to \in insts : to.id = e.id
    BY <2>2 DEF Tied
  <2> QED
    BY <1>3, <2>3, <2>4
<1>6. RootIds(W) = RootIds(insts)
  BY <1>2, <1>3 DEF RootIds
<1>7. \E i \in W : \A j \in W : j.source = "root" <=> j = i
  BY <1>2, <1>3 DEF RootIds, Tied
<1>8. Links(W) \subseteq Links(insts)
  BY <1>3 DEF Links
<1>9. IsFiniteSet(Links(W))
  BY <1>8, FS_Subset DEF Tied
<1>10. RootIds(W) \subseteq L /\ Closed(Links(W), L)
  BY <1>9, ReachClosed
<1>11. L \subseteq K
  BY <1>2, <1>6, <1>8, <1>9, ReachLeast DEF Closed
<1> HIDE DEF L
<1>12. Closed(Links(insts), L)
  <2>1. SUFFICES ASSUME NEW p \in Links(insts), p[1] \in L PROVE p[2] \in L
    BY DEF Closed
  <2>2. PICK i \in insts : p \in {<<i.id, e.id>> : e \in i.edges}
    BY DEF Links
  <2>3. PICK e \in i.edges : p = <<i.id, e.id>>
    BY <2>2
  <2>4. i \in W
    BY <1>3, <1>11, <2>1, <2>3
  <2>5. p \in Links(W)
    BY <2>3, <2>4 DEF Links
  <2> QED
    BY <1>10, <2>1, <2>5 DEF Closed
<1>13. K \subseteq L
  BY <1>6, <1>10, <1>12, ReachLeast DEF K, Tied
<1>14. sweep_unreachable(W) = W
  BY <1>1, <1>3, <1>13
<1>15. /\ \A i \in W : DOMAIN i = {"id", "name", "source", "pkg", "edges"}
       /\ \A i, j \in W : i.id = j.id => i = j
  BY <1>3 DEF Tied
<1> QED
  BY <1>1, <1>5, <1>7, <1>9, <1>14, <1>15 DEF Rooted

LEMMA RootedTied ==
  ASSUME NEW insts, Rooted(insts)
  PROVE  Tied(insts)
BY DEF Rooted, Tied

LEMMA PruneFacts ==
  ASSUME NEW inst, DOMAIN inst = {"id", "name", "source", "pkg", "edges"}
  PROVE  /\ DOMAIN Prune(inst) = DOMAIN inst
         /\ Prune(inst).id = inst.id /\ Prune(inst).source = inst.source
         /\ Prune(inst).edges =
              inst.edges \ UNION {node_find_edge(inst, d) : d \in {x \in Gated(inst) : ~Expected(inst, x)}}
<1> DEFINE gone == UNION {node_find_edge(inst, d) : d \in {x \in Gated(inst) : ~Expected(inst, x)}}
<1>1. Prune(inst) = [inst EXCEPT !.edges = @ \ gone]
  BY DEF Prune
<1> HIDE DEF gone
<1> QED
  BY <1>1 DEF gone

(* Taking edges away keeps what is left tied together.                     *)
LEMMA PruneTied ==
  ASSUME Tied(resolve)
  PROVE  Tied({Prune(inst) : inst \in resolve})
<1> DEFINE P == {Prune(inst) : inst \in resolve}
<1>1. \A i \in resolve : /\ DOMAIN Prune(i) = {"id", "name", "source", "pkg", "edges"}
                         /\ Prune(i).id = i.id /\ Prune(i).source = i.source
                         /\ Prune(i).edges \subseteq i.edges
  BY PruneFacts DEF Tied
<1>2. \A p \in P : \E i \in resolve : p = Prune(i)
  OBVIOUS
<1>3. \A i \in resolve : Prune(i) \in P
  OBVIOUS
<1> HIDE DEF P
<1>4. Links(P) \subseteq Links(resolve)
  <2>1. SUFFICES ASSUME NEW l \in Links(P) PROVE l \in Links(resolve)
    OBVIOUS
  <2>2. PICK p \in P : l \in {<<p.id, e.id>> : e \in p.edges}
    BY DEF Links
  <2>3. PICK e \in p.edges : l = <<p.id, e.id>>
    BY <2>2
  <2>4. PICK i \in resolve : p = Prune(i)
    BY <1>2
  <2>5. l = <<i.id, e.id>> /\ e \in i.edges
    BY <1>1, <2>3, <2>4
  <2> QED
    BY <2>5 DEF Links
<1>5. IsFiniteSet(Links(P))
  BY <1>4, FS_Subset DEF Tied
<1>6. \A p \in P : \A e \in p.edges : \E to \in P : to.id = e.id
  <2>1. SUFFICES ASSUME NEW p \in P, NEW e \in p.edges PROVE \E to \in P : to.id = e.id
    OBVIOUS
  <2>2. PICK i \in resolve : p = Prune(i)
    BY <1>2
  <2>3. PICK to \in resolve : to.id = e.id
    BY <1>1, <2>2 DEF Tied
  <2> QED
    BY <1>1, <1>3, <2>3
<1>7. \A p, q \in P : p.id = q.id => p = q
  <2>1. SUFFICES ASSUME NEW p \in P, NEW q \in P, p.id = q.id PROVE p = q
    OBVIOUS
  <2>2. PICK i \in resolve : p = Prune(i)
    BY <1>2
  <2>3. PICK j \in resolve : q = Prune(j)
    BY <1>2
  <2>4. i.id = j.id
    BY <1>1, <2>1, <2>2, <2>3
  <2>5. i = j
    BY <2>4 DEF Tied
  <2> QED
    BY <2>2, <2>3, <2>5
<1>8. \E p \in P : \A q \in P : q.source = "root" <=> q = p
  <2>1. PICK i \in resolve : \A j \in resolve : j.source = "root" <=> j = i
    BY DEF Tied
  <2>2. \A q \in P : q.source = "root" <=> q = Prune(i)
    <3>1. SUFFICES ASSUME NEW q \in P PROVE q.source = "root" <=> q = Prune(i)
      OBVIOUS
    <3>2. PICK j \in resolve : q = Prune(j)
      BY <1>2
    <3> QED
      BY <1>1, <2>1, <3>2
  <2> QED
    BY <1>3, <2>2
<1>9. \A p \in P : DOMAIN p = {"id", "name", "source", "pkg", "edges"}
  BY <1>1, <1>2
<1> QED
  BY <1>5, <1>6, <1>7, <1>8, <1>9 DEF Tied, P

ModelInv ==
  /\ stage \in {"sync", "apply", "units"} => Rooted(resolve)
  /\ GatesSettled

(* What is read of a package depends on the world, the instances and the   *)
(* hash order alone.                                                       *)
LEMMA SameInputs ==
  ASSUME world' = world, resolve' = resolve, tie' = tie
  PROVE  \A inst : Gated(inst)' = Gated(inst) /\ Merged(inst)' = Merged(inst)
<1>1. \A inst : Loaded(inst)' = Loaded(inst)
  BY DEF Loaded
<1>2. \A inst : DepsOf(inst)' = DepsOf(inst) /\ Gated(inst)' = Gated(inst)
  BY <1>1 DEF DepsOf, Gated
<1>3. Requests' = Requests
  <2> DEFINE Of(inst, deps) == UNION {{[to |-> e.id, name |-> e.name, options |-> d.options] :
                                         e \in node_find_edge(inst, d)} :
                                       d \in {x \in deps : x.options # {}}}
  <2>1. Requests = UNION {Of(inst, DepsOf(inst)) : inst \in resolve}
    BY Zenon DEF Requests
  <2>2. Requests' = UNION {Of(inst, DepsOf(inst)') : inst \in resolve'}
    BY Zenon DEF Requests
  <2> HIDE DEF Of
  <2> QED
    BY <1>2, <2>1, <2>2
<1>4. \A id : RequestsOf(id)' = RequestsOf(id)
  BY <1>3 DEF RequestsOf
<1>5. \A inst : Merged(inst)' = Merged(inst)
  BY <1>1, <1>4, Zenon DEF Merged
<1> QED
  BY <1>2, <1>5

(* The last pass of the loop prunes nothing and misses nothing, so what it *)
(* records is settled.                                                     *)
LEMMA SettledAfterLastPass ==
  ASSUME Rooted(resolve), spn_session_apply_options, stage' = "units"
  PROVE  GatesSettled'
<1>1. /\ ~(\E inst \in resolve : Merged(inst).violations # {})
      /\ {Prune(inst) : inst \in resolve} = resolve
      /\ ~Missing /\ resolve' = resolve
      /\ options' = [id \in {i.id : i \in resolve} |-> Merged(Instance(id)).options]
      /\ world' = world /\ tie' = tie
  BY DEF spn_session_apply_options
<1>2. Tied(resolve)
  BY RootedTied
<1>3. \A inst : Gated(inst)' = Gated(inst) /\ Merged(inst)' = Merged(inst)
  BY <1>1, SameInputs
<1>7. ASSUME NEW inst \in resolve
      PROVE  options'[inst.id] = Merged(inst).options
  <2>1. Instance(inst.id) = inst
    BY <1>2 DEF Instance, Tied
  <2>2. inst.id \in {i.id : i \in resolve}
    OBVIOUS
  <2>3. options'[inst.id] = Merged(Instance(inst.id)).options
    BY <1>1, <2>2, Zenon
  <2> QED
    BY <2>1, <2>3, Zenon
<1>8. ASSUME NEW inst \in resolve, NEW d \in Gated(inst)
      PROVE  Expected(inst, d) <=> node_find_edge(inst, d) # {}
  <2>1. CASE Expected(inst, d)
    BY <1>1, <2>1 DEF Missing
  <2>2. CASE ~Expected(inst, d)
    <3>1. Prune(inst) \in resolve /\ Prune(inst).id = inst.id
      BY <1>1, <1>2, PruneFacts DEF Tied
    <3>2. Prune(inst) = inst
      BY <1>2, <3>1 DEF Tied
    <3>3. inst.edges = inst.edges \ UNION {node_find_edge(inst, x) : x \in {y \in Gated(inst) : ~Expected(inst, y)}}
      BY <1>2, <3>2, PruneFacts DEF Tied
    <3>4. node_find_edge(inst, d) \subseteq UNION {node_find_edge(inst, x) : x \in {y \in Gated(inst) : ~Expected(inst, y)}}
      BY <2>2
    <3>5. node_find_edge(inst, d) \subseteq inst.edges
      BY DEF node_find_edge
    <3> QED
      BY <2>2, <3>3, <3>4, <3>5
  <2> QED
    BY <2>1, <2>2
<1>9. sweep_unreachable(resolve)' = resolve'
  BY <1>1 DEF Rooted
<1>10. ASSUME NEW inst \in resolve
       PROVE  LET env == [o \in {x \in DOMAIN options'[inst.id] : options'[inst.id][x] # None}
                            |-> options'[inst.id][o]] @@ spn_when_env_from_profile(world'.profile)
              IN  /\ \A d \in Gated(inst)' : spn_when_eval(d.when, env) <=> node_find_edge(inst, d) # {}
                  /\ Merged(inst)'.violations = {} /\ options'[inst.id] = Merged(inst)'.options
                  /\ \A e \in inst.edges : \E to \in resolve' : to.id = e.id
  <2> DEFINE set == options'[inst.id]
             env == [o \in {x \in DOMAIN set : set[x] # None} |-> set[o]] @@ spn_when_env_from_profile(world'.profile)
  <2>1. set = Merged(inst).options
    BY <1>7
  <2>2. \A d : Expected(inst, d) <=> spn_when_eval(d.when, env)
    BY <1>1, <2>1, Zenon DEF Expected
  <2>3. \A d \in Gated(inst)' : spn_when_eval(d.when, env) <=> node_find_edge(inst, d) # {}
    BY <1>3, <1>8, <2>2, Zenon
  <2>4. Merged(inst)'.violations = {} /\ set = Merged(inst)'.options
    BY <1>1, <1>3, <2>1
  <2>5. \A e \in inst.edges : \E to \in resolve' : to.id = e.id
    BY <1>1, <1>2 DEF Tied
  <2> QED
    BY <2>3, <2>4, <2>5
<1> QED
  BY <1>1, <1>9, <1>10, Zenon DEF GatesSettled

LEMMA ModelStep ==
  ASSUME ModelInv, [ModelNext]_modelVars
  PROVE  ModelInv'
<1>1. CASE UNCHANGED modelVars
  <2>1. /\ world' = world /\ tie' = tie /\ resolve' = resolve
        /\ options' = options /\ stage' = stage
    BY <1>1 DEF modelVars, settledVars
  <2>2. \A inst : Gated(inst)' = Gated(inst) /\ Merged(inst)' = Merged(inst)
    BY <2>1, SameInputs
  <2>3. GatesSettled => GatesSettled'
    <3> DEFINE At(inst, set, profile, gated, merged, insts) ==
                 LET env == [o \in {x \in DOMAIN set : set[x] # None} |-> set[o]] @@ spn_when_env_from_profile(profile)
                 IN  /\ \A d \in gated : spn_when_eval(d.when, env) <=> node_find_edge(inst, d) # {}
                     /\ merged.violations = {} /\ set = merged.options
                     /\ \A e \in inst.edges : \E to \in insts : to.id = e.id
    <3>1. GatesSettled <=>
            (stage = "units" =>
               /\ \A inst \in resolve : At(inst, options[inst.id], world.profile, Gated(inst), Merged(inst), resolve)
               /\ sweep_unreachable(resolve) = resolve)
      BY Zenon DEF GatesSettled
    <3>2. (stage' = "units" =>
             /\ \A inst \in resolve' :
                  At(inst, options'[inst.id], world'.profile, Gated(inst)', Merged(inst)', resolve')
             /\ sweep_unreachable(resolve') = resolve')
          => GatesSettled'
      BY Zenon DEF GatesSettled
    <3> HIDE DEF At
    <3> QED
      BY <2>1, <2>2, <3>1, <3>2
  <2>4. stage' \in {"sync", "apply", "units"} => Rooted(resolve')
    BY <2>1 DEF ModelInv
  <2> QED
    BY <2>3, <2>4 DEF ModelInv
<1>2. CASE resolve_dependencies
  <2>1. stage' # "units" /\ (stage' \in {"sync", "apply"} => Rooted(resolve'))
    BY <1>2 DEF resolve_dependencies, Shuffled, Resolved, Unresolved
  <2> QED
    BY <2>1 DEF ModelInv, GatesSettled
<1>3. CASE Sync
  <2>1. stage = "sync" /\ stage' # "units" /\ resolve' = resolve
    BY <1>3 DEF Sync
  <2>2. Rooted(resolve)
    BY <2>1 DEF ModelInv
  <2>3. Rooted(resolve')
    BY <2>1, <2>2
  <2> QED
    BY <2>1, <2>3 DEF ModelInv, GatesSettled
<1>4. CASE spn_session_apply_options
  <2>1. stage = "apply" /\ Rooted(resolve)
    BY <1>4 DEF ModelInv, spn_session_apply_options
  <2>2. Rooted(sweep_unreachable({Prune(inst) : inst \in resolve}))
    BY <2>1, RootedTied, PruneTied, SweepRooted
  <2>3. resolve' = resolve \/ resolve' = sweep_unreachable({Prune(inst) : inst \in resolve})
    BY <1>4 DEF spn_session_apply_options
  <2>4. Rooted(resolve')
    BY <2>1, <2>2, <2>3
  <2>5. stage' = "units" => GatesSettled'
    BY <1>4, <2>1, SettledAfterLastPass
  <2> QED
    BY <2>4, <2>5 DEF ModelInv, GatesSettled
<1> QED
  BY <1>1, <1>2, <1>3, <1>4 DEF ModelNext

(* Whatever rooted instances the resolver answers with, round after round, *)
(* when the loop of spn_model_establish ends the edges and the options it  *)
(* records agree: an edge for exactly the gates that are open.             *)
THEOREM GatesSettledHolds == ModelSpec => []GatesSettled
<1>1. ModelInit => ModelInv
  BY DEF ModelInit, ModelInv, GatesSettled
<1>2. ModelInv /\ [ModelNext]_modelVars => ModelInv'
  BY ModelStep
<1>3. ModelInv => GatesSettled
  BY DEF ModelInv
<1> QED
  BY <1>1, <1>2, <1>3, PTL DEF ModelSpec

-----------------------------------------------------------------------------
(* Units.                                                                  *)

(* The requests of units are edges of the instances, once per build.       *)
LEMMA AsksFinite ==
  ASSUME Tied(resolve), NEW st
  PROVE  IsFiniteSet(Asks(st))
<1> DEFINE L == Links(resolve)
           In(b) == {<<<<b, l[1]>>, <<b, l[2]>>>> : l \in L}
<1>1. ASSUME NEW b PROVE IsFiniteSet(In(b))
  <2> DEFINE f == [l \in L |-> <<<<b, l[1]>>, <<b, l[2]>>>>]
  <2>1. f \in Surjection(L, In(b))
    BY DEF Surjection
  <2>2. IsFiniteSet(L)
    BY DEF Tied
  <2> HIDE DEF f, L, In
  <2> QED
    BY <2>1, <2>2, FS_Surjection
<1>2. Asks(st) \subseteq In("target") \cup In("metaprogram")
  <2>1. SUFFICES ASSUME NEW a \in Asks(st) PROVE a \in In("target") \cup In("metaprogram")
    OBVIOUS
  <2>2. PICK u \in AllUnits : a \in {<<u, v>> : v \in Asked(u, KindsIn(st, u))}
    BY DEF Asks
  <2>3. PICK v \in Asked(u, KindsIn(st, u)) : a = <<u, v>>
    BY <2>2
  <2>4. PICK e \in Instance(u[2]).edges : v = <<u[1], e.id>>
    BY <2>3 DEF Asked
  <2>5. PICK i \in resolve : u = <<u[1], i.id>> /\ u[2] = i.id /\ u[1] \in Builds
    BY DEF AllUnits
  <2>6. Instance(u[2]) = i
    BY <2>5 DEF Tied, Instance
  <2>7. <<i.id, e.id>> \in L
    BY <2>4, <2>6 DEF Links
  <2>8. a \in In(u[1])
    BY <2>3, <2>4, <2>5, <2>7
  <2> HIDE DEF In
  <2> QED
    BY <2>5, <2>8 DEF Builds
<1> HIDE DEF In
<1> QED
  BY <1>1, <1>2, FS_Union, FS_Subset

(* What a unit asks for is a unit of its build.                            *)
LEMMA AskedInAll ==
  ASSUME Tied(resolve), NEW u \in AllUnits, NEW kinds
  PROVE  Asked(u, kinds) \subseteq AllUnits
<1>1. SUFFICES ASSUME NEW v \in Asked(u, kinds) PROVE v \in AllUnits
  OBVIOUS
<1>2. PICK e \in Instance(u[2]).edges : v = <<u[1], e.id>>
  BY DEF Asked
<1>3. PICK i \in resolve : u[2] = i.id /\ u[1] \in Builds
  BY DEF AllUnits
<1>4. Instance(u[2]) = i
  BY <1>3 DEF Tied, Instance
<1>5. PICK to \in resolve : to.id = e.id
  BY <1>2, <1>4 DEF Tied
<1> QED
  BY <1>2, <1>3, <1>5 DEF AllUnits

(* What drain makes of a state: it is complete, and nothing else is.       *)
LEMMA DrainFacts ==
  ASSUME Tied(resolve), NEW st, DOMAIN st.made \subseteq AllUnits
  PROVE  LET all == DOMAIN drain(st).made IN
         /\ DOMAIN st.made \subseteq all /\ all \subseteq AllUnits
         /\ \A u \in all : drain(st).made[u] = KindsIn(st, u)
         /\ \A u \in all : Asked(u, KindsIn(st, u)) \subseteq all
         /\ \A C : (/\ DOMAIN st.made \subseteq C
                    /\ \A u \in C : u \in AllUnits => Asked(u, KindsIn(st, u)) \subseteq C)
                   => all \subseteq C
         /\ drain(st).widened <=>
              st.widened \/ \E u \in all : \E v \in Asked(u, KindsIn(st, u)) :
                              ~(AskedKinds(u) \subseteq KindsIn(st, v))
<1> DEFINE all == Reach(Asks(st), DOMAIN st.made)
<1>1. /\ DOMAIN drain(st).made = all
      /\ \A u \in all : drain(st).made[u] = KindsIn(st, u)
      /\ drain(st).widened <=>
              st.widened \/ \E u \in all : \E v \in Asked(u, KindsIn(st, u)) :
                              ~(AskedKinds(u) \subseteq KindsIn(st, v))
  BY Zenon DEF drain
<1>2. IsFiniteSet(Asks(st))
  BY AsksFinite
<1>3. DOMAIN st.made \subseteq all /\ Closed(Asks(st), all)
  BY <1>2, ReachClosed
<1>4. \A C : DOMAIN st.made \subseteq C /\ Closed(Asks(st), C) => all \subseteq C
  BY <1>2, ReachLeast
<1> HIDE DEF all
<1>5. ASSUME NEW C, \A u \in C : u \in AllUnits => Asked(u, KindsIn(st, u)) \subseteq C
      PROVE  Closed(Asks(st), C)
  BY <1>5 DEF Asks, Closed
<1>6. \A u \in AllUnits : Asked(u, KindsIn(st, u)) \subseteq AllUnits
  BY AskedInAll
<1>7. all \subseteq AllUnits
  BY <1>4, <1>5, <1>6
<1>8. \A u \in all : Asked(u, KindsIn(st, u)) \subseteq all
  <2>1. SUFFICES ASSUME NEW u \in all, NEW v \in Asked(u, KindsIn(st, u)) PROVE v \in all
    OBVIOUS
  <2>2. <<u, v>> \in Asks(st)
    BY <1>7 DEF Asks
  <2> QED
    BY <1>3, <2>2 DEF Closed
<1> QED
  BY <1>1, <1>3, <1>4, <1>5, <1>7, <1>8, Zenon

LEMMA AddFacts ==
  ASSUME NEW st, NEW us, NEW kinds
  PROVE  LET st2 == add_units(st, us, kinds) IN
         /\ DOMAIN st2.made = DOMAIN st.made \cup us
         /\ \A u \in DOMAIN st.made : st2.made[u] = st.made[u]
         /\ \A u \in us \ DOMAIN st.made : st2.made[u] = kinds
         /\ us \cap DOMAIN st.made = {} => (st2.widened <=> st.widened)
<1> DEFINE st2 == add_units(st, us, kinds)
<1>1. st2.made = [u \in DOMAIN st.made \cup us |-> IF u \in DOMAIN st.made THEN st.made[u] ELSE kinds]
  BY DEF add_units
<1>2. st2.widened <=> (st.widened \/ \E u \in us \cap DOMAIN st.made : ~(kinds \subseteq st.made[u]))
  BY Zenon DEF add_units
<1> HIDE DEF st2
<1>3. /\ DOMAIN st2.made = DOMAIN st.made \cup us
      /\ \A u \in DOMAIN st.made : st2.made[u] = st.made[u]
      /\ \A u \in us \ DOMAIN st.made : st2.made[u] = kinds
  BY <1>1
<1>4. us \cap DOMAIN st.made = {} => (st2.widened <=> st.widened)
  BY <1>2, Zenon
<1> QED
  BY <1>3, <1>4 DEF st2

Full == {"package", "build"}

(* The units of the target build: the root's, and those it reaches over    *)
(* dependencies of a package.                                              *)
LEMMA RootFacts ==
  ASSUME Tied(resolve)
  PROVE  LET D == DOMAIN AddRoot.made IN
         /\ D \subseteq AllUnits /\ <<"target", spn_session_root_pkg>> \in D
         /\ \A u \in D : u[1] = "target" /\ "package" \in AddRoot.made[u]
         /\ \A u \in D : Asked(u, AddRoot.made[u]) \subseteq D
         /\ ~AddRoot.widened
<1> DEFINE r   == <<"target", spn_session_root_pkg>>
           st0 == [made |-> << >>, widened |-> FALSE]
           st  == add_units(st0, {r}, {"package", "test"})
           D   == DOMAIN AddRoot.made
<1>1. AddRoot = drain(st)
  BY DEF AddRoot
<1>2. DOMAIN st0.made = {} /\ st0.widened = FALSE
  OBVIOUS
<1>3. DOMAIN st.made = {r} /\ st.made[r] = {"package", "test"} /\ ~st.widened
  <2> HIDE DEF st0
  <2>1. r \in {r} \ DOMAIN st0.made /\ {r} \cap DOMAIN st0.made = {}
    BY <1>2
  <2>2. DOMAIN st.made = {} \cup {r} /\ st.made[r] = {"package", "test"}
    BY <1>2, <2>1, AddFacts
  <2>3. st.widened <=> st0.widened
    BY <2>1, AddFacts, Zenon
  <2> QED
    BY <1>2, <2>2, <2>3, Zenon
<1> HIDE DEF st
<1>4. r \in AllUnits
  <2>1. PICK i \in resolve : i.source = "root"
    BY DEF Tied
  <2>2. (CHOOSE inst \in resolve : inst.source = "root") \in resolve
    BY <2>1
  <2> DEFINE x == CHOOSE inst \in resolve : inst.source = "root"
  <2>3. r = <<"target", x.id>>
    BY DEF spn_session_root_pkg
  <2> HIDE DEF x
  <2> QED
    BY <2>2, <2>3 DEF AllUnits, Builds, x
<1>5. DOMAIN st.made \subseteq AllUnits
  BY <1>3, <1>4
<1>6. /\ r \in D /\ D \subseteq AllUnits
      /\ \A u \in D : AddRoot.made[u] = KindsIn(st, u)
      /\ \A u \in D : Asked(u, KindsIn(st, u)) \subseteq D
      /\ \A C : (/\ DOMAIN st.made \subseteq C
                 /\ \A u \in C : u \in AllUnits => Asked(u, KindsIn(st, u)) \subseteq C)
                => D \subseteq C
      /\ AddRoot.widened <=>
           st.widened \/ \E u \in D : \E v \in Asked(u, KindsIn(st, u)) :
                           ~(AskedKinds(u) \subseteq KindsIn(st, v))
  BY <1>1, <1>3, <1>5, DrainFacts
<1> HIDE DEF D
<1>7. D \subseteq {u \in AllUnits : u[1] = "target"}
  <2> DEFINE C == {u \in AllUnits : u[1] = "target"}
  <2>1. DOMAIN st.made \subseteq C
    BY <1>3, <1>4
  <2>2. ASSUME NEW u \in C PROVE Asked(u, KindsIn(st, u)) \subseteq C
    BY <2>2, AskedInAll DEF Asked
  <2> QED
    BY <1>6, <2>1, <2>2
<1>8. \A u \in D : "package" \in KindsIn(st, u) /\ AskedKinds(u) = {"package"}
  BY <1>3, <1>7 DEF KindsIn, AskedKinds
<1>9. \A u \in D : \A v \in Asked(u, KindsIn(st, u)) : AskedKinds(u) \subseteq KindsIn(st, v)
  BY <1>6, <1>8
<1>10. ~AddRoot.widened
  BY <1>3, <1>6, <1>9, Zenon
<1> QED
  BY <1>6, <1>7, <1>8, <1>10 DEF D

(* Adding what the scripts use leaves the target build as it is, and every *)
(* unit it adds is a unit of the metaprogram with all it may depend on.    *)
LEMMA MemberFacts ==
  ASSUME Tied(resolve)
  PROVE  LET D == DOMAIN AddMembers(AddRoot).made
             made == AddMembers(AddRoot).made
         IN
         /\ D \subseteq AllUnits /\ DOMAIN AddRoot.made \subseteq D /\ Members(AddRoot) \subseteq D
         /\ \A u \in D : u[1] = "target" => u \in DOMAIN AddRoot.made
         /\ \A u \in DOMAIN AddRoot.made : made[u] = AddRoot.made[u]
         /\ \A u \in D : u[1] = "metaprogram" => made[u] = Full
         /\ \A u \in D : Asked(u, made[u]) \subseteq D
         /\ ~AddMembers(AddRoot).widened
<1> DEFINE s1 == AddRoot
           M  == Members(s1)
           st == add_units(s1, M, Full)
           s2 == AddMembers(s1)
           D1 == DOMAIN s1.made
           D2 == DOMAIN s2.made
<1>1. s2 = drain(st)
  BY DEF AddMembers, Full
<1>2. /\ D1 \subseteq AllUnits
      /\ \A u \in D1 : u[1] = "target" /\ "package" \in s1.made[u]
      /\ \A u \in D1 : Asked(u, s1.made[u]) \subseteq D1
      /\ ~s1.widened
  BY RootFacts
<1>3. M \subseteq {u \in AllUnits : u[1] = "metaprogram"}
  <2>1. SUFFICES ASSUME NEW m \in M PROVE m \in AllUnits /\ m[1] = "metaprogram"
    OBVIOUS
  <2>2. PICK o \in Owners(s1) : m \in Asked(<<"metaprogram", o[2]>>, {"build"})
    BY DEF Members
  <2>3. o \in AllUnits
    BY <1>2, <2>2 DEF Owners
  <2>4. <<"metaprogram", o[2]>> \in AllUnits
    BY <2>3 DEF AllUnits, Builds
  <2>5. m \in AllUnits
    BY <2>2, <2>4, AskedInAll
  <2>6. m[1] = "metaprogram"
    BY <2>2 DEF Asked
  <2> QED
    BY <2>5, <2>6
<1>4. M \cap D1 = {}
  BY <1>2, <1>3
<1>5. /\ DOMAIN st.made = D1 \cup M
      /\ \A u \in D1 : st.made[u] = s1.made[u]
      /\ \A u \in M \ D1 : st.made[u] = Full
      /\ M \cap D1 = {} => (st.widened <=> s1.widened)
  BY AddFacts, Zenon
<1> HIDE DEF s1, M, st, s2
<1>6. DOMAIN st.made \subseteq AllUnits
  BY <1>2, <1>3, <1>5
<1>7. /\ DOMAIN st.made \subseteq D2 /\ D2 \subseteq AllUnits
      /\ \A u \in D2 : s2.made[u] = KindsIn(st, u)
      /\ \A u \in D2 : Asked(u, KindsIn(st, u)) \subseteq D2
      /\ \A C : (/\ DOMAIN st.made \subseteq C
                 /\ \A u \in C : u \in AllUnits => Asked(u, KindsIn(st, u)) \subseteq C)
                => D2 \subseteq C
      /\ s2.widened <=>
           st.widened \/ \E u \in D2 : \E v \in Asked(u, KindsIn(st, u)) :
                           ~(AskedKinds(u) \subseteq KindsIn(st, v))
  BY <1>1, <1>6, DrainFacts
<1>8. D2 \subseteq D1 \cup {u \in AllUnits : u[1] = "metaprogram"}
  <2> DEFINE C == D1 \cup {u \in AllUnits : u[1] = "metaprogram"}
  <2>1. DOMAIN st.made \subseteq C
    BY <1>3, <1>5
  <2>2. ASSUME NEW u \in C PROVE Asked(u, KindsIn(st, u)) \subseteq C
    <3>1. CASE u \in D1
      <4>1. KindsIn(st, u) = s1.made[u]
        BY <1>5, <3>1 DEF KindsIn
      <4> QED
        BY <1>2, <3>1, <4>1
    <3>2. CASE u \in AllUnits /\ u[1] = "metaprogram"
      BY <3>2, AskedInAll DEF Asked
    <3> QED
      BY <2>2, <3>1, <3>2
  <2> QED
    BY <1>7, <2>1, <2>2
<1>9. \A u \in D2 : u[1] = "metaprogram" => KindsIn(st, u) = Full /\ AskedKinds(u) = Full
  BY <1>2, <1>4, <1>5 DEF KindsIn, AskedKinds, Full
<1>10. \A u \in D1 : KindsIn(st, u) = s1.made[u] /\ AskedKinds(u) = {"package"}
  BY <1>2, <1>5 DEF KindsIn, AskedKinds
<1>11. ASSUME NEW u \in D2, NEW v \in Asked(u, KindsIn(st, u))
       PROVE  AskedKinds(u) \subseteq KindsIn(st, v)
  <2>1. v \in D2 /\ v[1] = u[1]
    BY <1>7 DEF Asked
  <2>2. CASE u \in D1
    <3>1. v \in D1
      BY <1>2, <1>10, <2>2
    <3> QED
      BY <1>2, <1>10, <2>2, <3>1
  <2>3. CASE u[1] = "metaprogram"
    BY <1>9, <2>1, <2>3
  <2> QED
    BY <1>8, <2>2, <2>3
<1>12. ~s2.widened
  BY <1>2, <1>4, <1>5, <1>7, <1>11, Zenon
<1>13. \A u \in D2 : u[1] = "target" => u \in D1
  BY <1>8
<1>14. D1 \subseteq D2 /\ M \subseteq D2
  BY <1>5, <1>7
<1>15. \A u \in D1 : s2.made[u] = s1.made[u]
  BY <1>7, <1>10, <1>14
<1>16. \A u \in D2 : u[1] = "metaprogram" => s2.made[u] = Full
  BY <1>7, <1>9
<1>17. \A u \in D2 : Asked(u, s2.made[u]) \subseteq D2
  BY <1>7
<1> QED
  BY <1>7, <1>12, <1>13, <1>14, <1>15, <1>16, <1>17, Zenon DEF s1, M, s2

(* Adding the hosts leaves all before as it is: what their scripts use was *)
(* added first.                                                            *)
LEMMA HostFacts ==
  ASSUME Tied(resolve)
  PROVE  LET s2 == AddMembers(AddRoot)
             D  == DOMAIN AddPackages.made
             made == AddPackages.made
         IN
         /\ <<"target", spn_session_root_pkg>> \in D
         /\ \A u \in D : u[1] \in Builds
         /\ \A u \in D : pkg_has_scripts(u[2]) => Metaprogram(u) \in D
         /\ \A u \in D : \A v \in Asked(u, made[u]) : v \in D /\ "package" \in made[v]
         /\ ~AddPackages.widened
<1> DEFINE s1 == AddRoot
           s2 == AddMembers(s1)
           H  == Hosts(s2)
           st == add_units(s2, H, {"build"})
           s3 == AddPackages
           D1 == DOMAIN s1.made
           D2 == DOMAIN s2.made
           D3 == DOMAIN s3.made
<1>1. s3 = drain(st)
  BY DEF AddPackages, AddHosts
<1>2. /\ D2 \subseteq AllUnits /\ D1 \subseteq D2 /\ Members(s1) \subseteq D2
      /\ \A u \in D2 : u[1] = "target" => u \in D1
      /\ \A u \in D1 : s2.made[u] = s1.made[u]
      /\ \A u \in D2 : u[1] = "metaprogram" => s2.made[u] = Full
      /\ \A u \in D2 : Asked(u, s2.made[u]) \subseteq D2
      /\ ~s2.widened
  BY MemberFacts, Zenon
<1>3. /\ <<"target", spn_session_root_pkg>> \in D1
      /\ \A u \in D1 : u[1] = "target" /\ "package" \in s1.made[u]
  BY RootFacts, Zenon
<1>4. /\ DOMAIN st.made = D2 \cup H
      /\ \A u \in D2 : st.made[u] = s2.made[u]
      /\ \A u \in H \ D2 : st.made[u] = {"build"}
      /\ H \cap D2 = {} => (st.widened <=> s2.widened)
  BY AddFacts, Zenon
<1> HIDE DEF st, s3
<1>5. H = {<<"metaprogram", o[2]>> : o \in Owners(s2)} \ D2
  BY DEF Hosts
<1>6. Owners(s2) \subseteq Owners(s1)
  <2>1. SUFFICES ASSUME NEW u \in Owners(s2) PROVE u \in Owners(s1)
    OBVIOUS
  <2>2. u \in D2 /\ u[1] # "metaprogram" /\ pkg_has_scripts(u[2])
    BY DEF Owners
  <2>3. u[1] = "target"
    BY <1>2, <2>2 DEF AllUnits, Builds
  <2> QED
    BY <1>2, <2>2, <2>3 DEF Owners
<1> HIDE DEF H, s2, s1
<1>7. ASSUME NEW u \in H
      PROVE  u \in AllUnits /\ u \notin D2 /\ u[1] = "metaprogram" /\ Asked(u, {"build"}) \subseteq D2
  <2>1. PICK o \in Owners(s2) : u = <<"metaprogram", o[2]>>
    BY <1>5
  <2>2. u \notin D2
    BY <1>5
  <2>3. o \in AllUnits
    BY <1>2, <2>1 DEF Owners
  <2>4. u \in AllUnits
    BY <2>1, <2>3 DEF AllUnits, Builds
  <2>5. Asked(u, {"build"}) \subseteq Members(s1)
    BY <1>6, <2>1 DEF Members
  <2> QED
    BY <1>2, <2>1, <2>2, <2>4, <2>5
<1>8. H \cap D2 = {}
  BY <1>7
<1>9. DOMAIN st.made \subseteq AllUnits
  BY <1>2, <1>4, <1>7
<1>10. /\ DOMAIN st.made \subseteq D3 /\ D3 \subseteq AllUnits
       /\ \A u \in D3 : s3.made[u] = KindsIn(st, u)
       /\ \A C : (/\ DOMAIN st.made \subseteq C
                  /\ \A u \in C : u \in AllUnits => Asked(u, KindsIn(st, u)) \subseteq C)
                 => D3 \subseteq C
       /\ s3.widened <=>
            st.widened \/ \E u \in D3 : \E v \in Asked(u, KindsIn(st, u)) :
                            ~(AskedKinds(u) \subseteq KindsIn(st, v))
  BY <1>1, <1>9, DrainFacts
<1>11. /\ \A u \in D2 : KindsIn(st, u) = s2.made[u]
       /\ \A u \in H : KindsIn(st, u) = {"build"}
  BY <1>4, <1>8 DEF KindsIn
<1>12. \A u \in D2 \cup H : Asked(u, KindsIn(st, u)) \subseteq D2
  BY <1>2, <1>7, <1>11
<1>13. D3 = D2 \cup H
  BY <1>4, <1>10, <1>12
<1>14. ASSUME NEW u \in D3, NEW v \in Asked(u, KindsIn(st, u))
       PROVE  v \in D2 /\ "package" \in KindsIn(st, v) /\ AskedKinds(u) \subseteq KindsIn(st, v)
  <2>1. v \in D2 /\ v[1] = u[1]
    BY <1>12, <1>13 DEF Asked
  <2>2. v[1] = "target" \/ v[1] = "metaprogram"
    BY <1>2, <2>1 DEF AllUnits, Builds
  <2>3. CASE v[1] = "target"
    BY <1>2, <1>3, <1>11, <2>1, <2>3 DEF AskedKinds
  <2>4. CASE v[1] = "metaprogram"
    BY <1>2, <1>11, <2>1, <2>4 DEF AskedKinds, Full
  <2> QED
    BY <2>1, <2>2, <2>3, <2>4
<1>15. ~s3.widened
  BY <1>2, <1>4, <1>8, <1>10, <1>14, Zenon
<1>16. ASSUME NEW u \in D3, pkg_has_scripts(u[2])
       PROVE  Metaprogram(u) \in D3
  <2>1. PICK b \in Builds, i \in {j.id : j \in resolve} : u = <<b, i>>
    BY <1>10 DEF AllUnits
  <2>2. CASE b = "metaprogram"
    BY <2>1, <2>2, <1>16 DEF Metaprogram
  <2>3. CASE b = "target"
    <3>1. u \in D2 /\ u[1] = "target"
      BY <1>7, <1>13, <2>1, <2>3
    <3>2. u \in Owners(s2)
      BY <1>16, <3>1 DEF Owners
    <3>3. Metaprogram(u) \in H \/ Metaprogram(u) \in D2
      BY <1>5, <3>2 DEF Metaprogram
    <3> QED
      BY <1>13, <3>3
  <2> QED
    BY <2>1, <2>2, <2>3 DEF Builds
<1>17. \A u \in D3 : \A v \in Asked(u, s3.made[u]) : v \in D3 /\ "package" \in s3.made[v]
  BY <1>10, <1>13, <1>14
<1>18. <<"target", spn_session_root_pkg>> \in D3 /\ \A u \in D3 : u[1] \in Builds
  BY <1>2, <1>3, <1>10, <1>13 DEF AllUnits
<1> QED
  BY <1>15, <1>16, <1>17, <1>18, Zenon DEF s3

UnitsInv == ModelInv /\ UnitsComplete

LEMMA AddPackagesStep ==
  ASSUME ModelInv, spn_units_add_packages
  PROVE  UnitsInv'
<1> DEFINE st == AddPackages
<1>1. /\ stage = "units" /\ stage' = (IF st.widened THEN "widened" ELSE "scripts")
      /\ units' = [u \in DOMAIN st.made |->
                     [kinds |-> st.made[u], deps |-> Deps(u, st.made[u]), nodes |-> << >>]]
      /\ world' = world /\ resolve' = resolve
  BY Zenon DEF spn_units_add_packages, settledVars
<1>2. Tied(resolve)
  BY <1>1, RootedTied DEF ModelInv
<1>3. /\ <<"target", spn_session_root_pkg>> \in DOMAIN st.made
      /\ \A u \in DOMAIN st.made : pkg_has_scripts(u[2]) => Metaprogram(u) \in DOMAIN st.made
      /\ \A u \in DOMAIN st.made : \A v \in Asked(u, st.made[u]) :
           v \in DOMAIN st.made /\ "package" \in st.made[v]
      /\ ~st.widened
  BY <1>2, HostFacts, Zenon
<1> HIDE DEF st
<1>4. stage' = "scripts"
  BY <1>1, <1>3, Zenon
<1>5. \A id : Instance(id)' = Instance(id)
  BY <1>1 DEF Instance
<1>6. \A id : pkg_has_scripts(id)' <=> pkg_has_scripts(id)
  BY <1>1, <1>5 DEF pkg_has_scripts, Loaded
<1>7. DOMAIN units' = DOMAIN st.made /\ \A u \in DOMAIN st.made : units'[u].kinds = st.made[u]
  BY <1>1
<1>8. \A u \in DOMAIN units' :
        /\ pkg_has_scripts(u[2])' => Metaprogram(u) \in DOMAIN units'
        /\ \A e \in Instance(u[2])'.edges :
             (e.kind \in units'[u].kinds) =>
               /\ <<u[1], e.id>> \in DOMAIN units'
               /\ "package" \in units'[<<u[1], e.id>>].kinds
  <2>1. SUFFICES ASSUME NEW u \in DOMAIN st.made
                 PROVE  /\ pkg_has_scripts(u[2])' => Metaprogram(u) \in DOMAIN units'
                        /\ \A e \in Instance(u[2])'.edges :
                             (e.kind \in units'[u].kinds) =>
                               /\ <<u[1], e.id>> \in DOMAIN units'
                               /\ "package" \in units'[<<u[1], e.id>>].kinds
    BY <1>7
  <2>2. pkg_has_scripts(u[2])' => Metaprogram(u) \in DOMAIN units'
    BY <1>3, <1>6, <1>7
  <2>3. ASSUME NEW e \in Instance(u[2])'.edges, e.kind \in units'[u].kinds
        PROVE  <<u[1], e.id>> \in DOMAIN units' /\ "package" \in units'[<<u[1], e.id>>].kinds
    <3>1. <<u[1], e.id>> \in Asked(u, st.made[u])
      BY <1>5, <1>7, <2>3 DEF Asked
    <3> QED
      BY <1>3, <1>7, <3>1
  <2> QED
    BY <2>2, <2>3
<1>9. \A inst \in resolve' : \E u \in DOMAIN units' : u[2] = inst.id \/ inst.source # "root"
  <2>1. SUFFICES ASSUME NEW inst \in resolve, inst.source = "root"
                 PROVE  \E u \in DOMAIN st.made : u[2] = inst.id
    BY <1>1, <1>3, <1>7
  <2>2. (CHOOSE i \in resolve : i.source = "root") = inst
    BY <1>2, <2>1 DEF Tied
  <2>3. spn_session_root_pkg = inst.id
    BY <2>2 DEF spn_session_root_pkg
  <2> QED
    BY <1>3, <2>3
<1>10. UnitsComplete'
  BY <1>4, <1>8, <1>9, Zenon DEF UnitsComplete
<1>11. ModelInv'
  BY <1>4 DEF ModelInv, GatesSettled
<1> QED
  BY <1>10, <1>11 DEF UnitsInv

LEMMA UnitsStep ==
  ASSUME UnitsInv, [UnitsNext]_<<modelVars, units>>
  PROVE  UnitsInv'
<1>1. CASE UNCHANGED <<modelVars, units>>
  <2>1. /\ world' = world /\ resolve' = resolve /\ stage' = stage /\ units' = units
    BY <1>1 DEF modelVars, settledVars
  <2>2. UNCHANGED modelVars
    BY <1>1
  <2>3. ModelInv'
    BY <2>2, ModelStep DEF UnitsInv
  <2>4. \A id : Instance(id)' = Instance(id)
    BY <2>1 DEF Instance
  <2>5. \A id : pkg_has_scripts(id)' <=> pkg_has_scripts(id)
    BY <2>1, <2>4 DEF pkg_has_scripts, Loaded
  <2>6. UnitsComplete'
    BY <2>1, <2>4, <2>5, Zenon DEF UnitsInv, UnitsComplete
  <2> QED
    BY <2>3, <2>6 DEF UnitsInv
<1>2. CASE ModelNext /\ UNCHANGED units
  <2>1. ModelInv'
    BY <1>2, ModelStep DEF UnitsInv
  <2>2. stage' \in {"resolve", "sync", "apply", "units", "failed"}
    BY <1>2 DEF ModelNext, resolve_dependencies, Shuffled, Resolved, Unresolved, Sync, spn_session_apply_options
  <2>3. UnitsComplete'
    BY <2>2 DEF UnitsComplete
  <2> QED
    BY <2>1, <2>3 DEF UnitsInv
<1>3. CASE spn_units_add_packages
  BY <1>3, AddPackagesStep DEF UnitsInv
<1> QED
  BY <1>1, <1>2, <1>3 DEF UnitsNext

(* Whatever the model of a build, its units are complete: every dependency *)
(* a unit may have is a unit built for its users, every package with       *)
(* scripts has a unit to run them, and no request widens a unit            *)
(* (the assertion of add_unit in unit/graph.c holds).                      *)
THEOREM UnitsCompleteHolds == UnitsSpec => []UnitsComplete
<1>1. UnitsInit => UnitsInv
  BY DEF UnitsInit, ModelInit, UnitsInv, ModelInv, GatesSettled, UnitsComplete
<1>2. UnitsInv /\ [UnitsNext]_<<modelVars, units>> => UnitsInv'
  BY UnitsStep
<1>3. UnitsInv => UnitsComplete
  BY DEF UnitsInv
<1> QED
  BY <1>1, <1>2, <1>3, PTL DEF UnitsSpec
=============================================================================
