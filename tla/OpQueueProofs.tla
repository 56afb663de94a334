---------------------------- MODULE OpQueueProofs ----------------------------
(***************************************************************************)
(* For every set of threads and nodes and any number of pushes: the lock-    *)
(* free queue is a Fifo, although a compare-and-swap may meet the head it    *)
(* loaded at a later time, and the op thread never sleeps through a push or  *)
(* a wake.                                                                   *)
(***************************************************************************)
EXTENDS OpQueue, TLAPS, FiniteSetTheorems, SequenceTheorems

Links == [Nodes -> Nodes \cup {Null}]
Distinct(s) == \A i, k \in DOMAIN s : s[i] = s[k] => i = k

(* The consumer's list and the producers' stack.                            *)
Fs == Chain(next, fifo)
Ss == Chain(next, stack)

IsChain(c, p) == c \in Seq(Nodes) /\ Distinct(c) /\ IsList(next, c, p)

(* Both end in Null and share no node; a node a host is about to push is in *)
(* neither, and no other host has it.                                       *)
Shape ==
  /\ IsChain(Fs, fifo) /\ IsChain(Ss, stack)
  /\ ToSet(Fs) \cap ToSet(Ss) = {}
  /\ \A h \in Hosts : node[h] # Null <=> at[h] \in {"cas", "retry"}
  /\ \A h \in Hosts : node[h] \notin ToSet(Fs) \cup ToSet(Ss)
  /\ \A g, h \in Hosts : node[g] = node[h] /\ node[g] # Null => g = h

(* A push or a wake since the consumer loaded the count has been counted,   *)
(* or is about to be.                                                       *)
Ahead == pushes # generation \/ \E h \in Hosts : at[h] = "bump"

Awake ==
  /\ generation <= pushes
  /\ wait # "first" => fifo = Null
  /\ wait = "poke" /\ stack # Null => Ahead
  /\ wait = "futex" /\ (stack # Null \/ poked) => Ahead
  /\ wait = "asleep" /\ (stack # Null \/ poked) => \E h \in Hosts : at[h] \in {"bump", "ring"}

IInv == TypeOK /\ Shape /\ Awake
-----------------------------------------------------------------------------
(* A set of natural numbers has a least one: what induction over a list     *)
(* comes down to.                                                           *)
LEMMA Least ==
  ASSUME NEW T, T \subseteq Nat, T # {}
  PROVE  \E x \in T : \A y \in T : x <= y
<1> DEFINE R == {ss \in Nat \X Nat : ss[1] < ss[2]}
<1>1. IsWellFoundedOn(R, Nat)
  BY NatLessThanWellFounded DEF OpToRel
<1> HIDE DEF R
<1>2. PICK x \in T : \A y \in T : ~(<<y, x>> \in R)
  BY <1>1, WFMin
<1>3. \A y \in T : ~(y < x)
  BY <1>2 DEF R
<1> QED BY <1>3

(* Two lists that follow the same links from the same node agree.           *)
LEMMA OneListPrefix ==
  ASSUME NEW links \in Links, NEW p, NEW c \in Seq(Nodes), NEW d \in Seq(Nodes),
         IsList(links, c, p), IsList(links, d, p)
  PROVE  Len(c) <= Len(d) /\ \A i \in 1..Len(c) : c[i] = d[i]
<1> DEFINE T == {i \in 1..Len(c) : ~(i \in 1..Len(d) /\ c[i] = d[i])}
<1>0. /\ Len(c) \in Nat /\ DOMAIN c = 1..Len(c) /\ \A i \in 1..Len(c) : c[i] \in Nodes
      /\ Len(d) \in Nat /\ DOMAIN d = 1..Len(d) /\ \A i \in 1..Len(d) : d[i] \in Nodes
  BY LenProperties, ElementOfSeq
<1>1. /\ p = IF c = <<>> THEN Null ELSE c[1]
      /\ \A i \in 1..Len(c) : links[c[i]] = IF i = Len(c) THEN Null ELSE c[i + 1]
      /\ p = IF d = <<>> THEN Null ELSE d[1]
      /\ \A i \in 1..Len(d) : links[d[i]] = IF i = Len(d) THEN Null ELSE d[i + 1]
  BY <1>0 DEF IsList
<1>2. T = {}
  <2> SUFFICES ASSUME T # {} PROVE FALSE
    OBVIOUS
  <2>1. T \subseteq Nat
    BY <1>0
  <2>2. PICK x \in T : \A y \in T : x <= y
    <3> HIDE DEF T
    <3> QED BY <2>1, Least
  <2>3. x \in 1..Len(c) /\ c[x] # Null /\ c # <<>>
    BY <1>0, QueueAssumption, EmptySeq
  <2>4. CASE x = 1
    <3>1. d # <<>> /\ c[1] = d[1]
      BY <1>1, <2>3, <2>4
    <3>2. 1 \in 1..Len(d)
      BY <1>0, <3>1, EmptySeq
    <3> QED BY <2>4, <3>1, <3>2
  <2>5. CASE x # 1
    <3>1. x - 1 \in 1..Len(c) /\ x - 1 # Len(c) /\ (x - 1) + 1 = x
      BY <1>0, <2>3, <2>5
    <3>2. x - 1 \in 1..Len(d) /\ c[x - 1] = d[x - 1]
      <4>1. x - 1 \notin T
        <5> HIDE DEF T
        <5>1. ~(x <= x - 1)
          BY <1>0, <2>3
        <5> QED BY <2>2, <5>1
      <4> QED BY <3>1, <4>1
    <3>3. links[c[x - 1]] = c[x]
      BY <1>1, <3>1
    <3>4. x - 1 # Len(d)
      BY <1>1, <2>3, <3>2, <3>3
    <3>5. links[d[x - 1]] = d[x]
      BY <1>1, <3>1, <3>2, <3>4
    <3>6. x \in 1..Len(d)
      <4>1. \A n \in Nat : \A m \in 1..n : m # n => m + 1 \in 1..n
        OBVIOUS
      <4> QED BY <1>0, <3>1, <3>2, <3>4, <4>1
    <3> QED BY <3>2, <3>3, <3>5, <3>6
  <2> QED BY <2>4, <2>5
<1>3. \A i \in 1..Len(c) : i \in 1..Len(d) /\ c[i] = d[i]
  BY <1>2
<1> HIDE DEF T
<1>4. Len(c) <= Len(d)
  <2>1. CASE Len(c) = 0
    BY <1>0, <2>1
  <2>2. CASE Len(c) # 0
    <3>1. Len(c) \in 1..Len(c)
      BY <1>0, <2>2
    <3>2. Len(c) \in 1..Len(d)
      BY <1>3, <3>1
    <3> QED BY <1>0, <3>2
  <2> QED BY <2>1, <2>2
<1> QED BY <1>3, <1>4

LEMMA OneList ==
  ASSUME NEW links \in Links, NEW p, NEW c \in Seq(Nodes), NEW d \in Seq(Nodes),
         IsList(links, c, p), IsList(links, d, p)
  PROVE  c = d
<1>1. Len(c) \in Nat /\ Len(d) \in Nat
  BY LenProperties
<1>2. Len(c) <= Len(d) /\ Len(d) <= Len(c) /\ \A i \in 1..Len(c) : c[i] = d[i]
  BY OneListPrefix
<1> QED BY <1>1, <1>2, SeqEqual

(* A list without repetitions is no longer than there are nodes, so that    *)
(* Chain finds it.                                                          *)
LEMMA ChainIs ==
  ASSUME NEW links \in Links, NEW p, NEW c \in Seq(Nodes), Distinct(c), IsList(links, c, p)
  PROVE  Chain(links, p) = c
<1>1. Len(c) \in Nat /\ DOMAIN c = 1..Len(c) /\ c \in [1..Len(c) -> Nodes]
  BY LenProperties
<1>2. Cardinality(Nodes) \in Nat
  BY QueueAssumption, FS_CardinalityType
<1>3. Len(c) <= Cardinality(Nodes)
  <2>1. c \in Injection(1..Len(c), Nodes)
    BY <1>1 DEF Distinct, Injection, IsInjective
  <2>2. Cardinality(1..Len(c)) = Len(c)
    BY <1>1, FS_Interval
  <2> QED BY <2>1, <2>2, QueueAssumption, FS_Injection
<1>4. c \in SeqOf(Nodes, Cardinality(Nodes))
  <2>1. Len(c) \in 0..Cardinality(Nodes)
    BY <1>1, <1>2, <1>3
  <2> QED BY <1>1, <2>1 DEF SeqOf
<1> DEFINE d == Chain(links, p)
<1>5. d \in SeqOf(Nodes, Cardinality(Nodes)) /\ IsList(links, d, p)
  BY <1>4 DEF Chain
<1>6. d \in Seq(Nodes)
  <2>1. PICK m \in 0..Cardinality(Nodes) : d \in [1..m -> Nodes]
    BY <1>5 DEF SeqOf
  <2> QED BY <1>2, <2>1
<1> HIDE DEF d
<1> QED BY <1>5, <1>6, OneList DEF d

(* What the operations on lists do.  Every sequence is treated as its       *)
(* length and its elements.                                                 *)
LEMMA Indexed ==
  ASSUME NEW c \in Seq(Nodes)
  PROVE  /\ Len(c) \in Nat /\ DOMAIN c = 1..Len(c)
         /\ \A i \in 1..Len(c) : c[i] \in Nodes /\ c[i] \in ToSet(c)
         /\ ToSet(c) \subseteq Nodes
         /\ c = <<>> <=> Len(c) = 0
         /\ c # <<>> => 1 \in 1..Len(c) /\ Len(c) \in 1..Len(c)
<1>1. Len(c) \in Nat /\ DOMAIN c = 1..Len(c) /\ \A i \in 1..Len(c) : c[i] \in Nodes
  BY LenProperties, ElementOfSeq
<1>2. c = <<>> <=> Len(c) = 0
  BY EmptySeq
<1>3. \A i \in 1..Len(c) : c[i] \in ToSet(c)
  BY <1>1 DEF ToSet
<1>4. ToSet(c) \subseteq Nodes
  BY <1>1 DEF ToSet
<1> QED BY <1>1, <1>2, <1>3, <1>4

LEMMA ListHead ==
  ASSUME NEW links \in Links, NEW p, NEW c \in Seq(Nodes), IsList(links, c, p)
  PROVE  /\ c = <<>> <=> p = Null
         /\ c # <<>> => p = c[1] /\ p \in ToSet(c) /\ p \in Nodes
BY Indexed, QueueAssumption DEF IsList

LEMMA ListFrame ==
  ASSUME NEW links, NEW links2, NEW p, NEW c \in Seq(Nodes),
         IsList(links, c, p), \A n \in ToSet(c) : links2[n] = links[n]
  PROVE  IsList(links2, c, p)
BY Indexed DEF IsList

LEMMA ConsList ==
  ASSUME NEW links \in Links, NEW p, NEW c \in Seq(Nodes), NEW n \in Nodes,
         IsList(links, c, p), Distinct(c), n \notin ToSet(c), links[n] = p
  PROVE  /\ <<n>> \o c \in Seq(Nodes)
         /\ IsList(links, <<n>> \o c, n)
         /\ Distinct(<<n>> \o c)
         /\ ToSet(<<n>> \o c) = ToSet(c) \cup {n}
<1> DEFINE d == <<n>> \o c
<1>1. /\ d \in Seq(Nodes) /\ Len(d) = Len(c) + 1 /\ d[1] = n
      /\ \A i \in 1..Len(c) : d[i + 1] = c[i]
  <2>1. <<n>> \in Seq(Nodes) /\ Len(<<n>>) = 1 /\ <<n>>[1] = n
    OBVIOUS
  <2>2. /\ d \in Seq(Nodes) /\ Len(d) = 1 + Len(c)
        /\ \A i \in 1..(1 + Len(c)) : d[i] = IF i <= 1 THEN <<n>>[i] ELSE c[i - 1]
    BY <2>1, ConcatProperties
  <2> HIDE DEF d
  <2>3. Len(c) \in Nat
    BY Indexed
  <2>4. d[1] = n
    BY <2>1, <2>2, <2>3
  <2>5. ASSUME NEW i \in 1..Len(c) PROVE d[i + 1] = c[i]
    <3>1. i + 1 \in 1..(1 + Len(c)) /\ ~(i + 1 <= 1) /\ (i + 1) - 1 = i
      BY <2>3
    <3> QED BY <2>2, <3>1
  <2> QED BY <2>2, <2>3, <2>4, <2>5
<1> HIDE DEF d
<1>2. Len(c) \in Nat /\ DOMAIN c = 1..Len(c) /\ DOMAIN d = 1..(Len(c) + 1) /\ d # <<>>
  BY <1>1, Indexed
<1>3. \A i \in 1..(Len(c) + 1) : i = 1 \/ (i - 1 \in 1..Len(c) /\ (i - 1) + 1 = i)
  BY <1>2
<1>4. \A i \in 1..(Len(c) + 1) : i # 1 => d[i] = c[i - 1] /\ i - 1 \in 1..Len(c)
  BY <1>1, <1>3
<1>5. IsList(links, d, n)
  <2>1. n = IF d = <<>> THEN Null ELSE d[1]
    BY <1>1, <1>2
  <2>2. ASSUME NEW i \in 1..(Len(c) + 1)
        PROVE  links[d[i]] = IF i = Len(d) THEN Null ELSE d[i + 1]
    <3>1. CASE i = 1
      <4>1. CASE c = <<>>
        BY <1>1, <1>2, <3>1, <4>1, Indexed DEF IsList
      <4>2. CASE c # <<>>
        <5>1. 1 \in 1..Len(c) /\ d[1 + 1] = c[1] /\ 1 # Len(c) + 1
          BY <1>1, <1>2, <4>2, Indexed
        <5> QED BY <1>1, <3>1, <4>2, <5>1 DEF IsList
      <4> QED BY <4>1, <4>2
    <3>2. CASE i # 1
      <4>1. d[i] = c[i - 1] /\ i - 1 \in 1..Len(c)
        BY <1>4, <3>2
      <4>2. links[c[i - 1]] = IF i - 1 = Len(c) THEN Null ELSE c[(i - 1) + 1]
        BY <1>2, <4>1 DEF IsList
      <4>3. i - 1 # Len(c) => i \in 1..Len(c) /\ (i - 1) + 1 = i
        BY <1>2, <3>2
      <4>4. i - 1 = Len(c) <=> i = Len(d)
        BY <1>1, <1>2
      <4> QED BY <1>1, <4>1, <4>2, <4>3, <4>4
    <3> QED BY <3>1, <3>2
  <2> QED BY <1>2, <2>1, <2>2 DEF IsList
<1>6. \A i \in 1..Len(c) : c[i] # n
  BY Indexed
<1>7. Distinct(d)
  <2> SUFFICES ASSUME NEW i \in 1..(Len(c) + 1), NEW k \in 1..(Len(c) + 1), d[i] = d[k]
               PROVE  i = k
    BY <1>2 DEF Distinct
  <2>1. CASE i = 1 \/ k = 1
    BY <1>1, <1>4, <1>6, <2>1
  <2>2. CASE i # 1 /\ k # 1
    <3>1. i - 1 = k - 1
      BY <1>2, <1>4, <2>2 DEF Distinct
    <3> QED BY <3>1
  <2> QED BY <2>1, <2>2
<1>8. ToSet(d) = ToSet(c) \cup {n}
  <2>1. ASSUME NEW x \in ToSet(d) PROVE x \in ToSet(c) \cup {n}
    <3>1. PICK i \in 1..(Len(c) + 1) : x = d[i]
      BY <1>2, <2>1 DEF ToSet
    <3> QED BY <1>1, <1>4, <3>1, Indexed
  <2>2. ASSUME NEW x \in ToSet(c) PROVE x \in ToSet(d)
    <3>1. PICK i \in 1..Len(c) : x = c[i]
      BY <1>2, <2>2 DEF ToSet
    <3>2. i + 1 \in 1..(Len(c) + 1)
      BY <1>2
    <3> QED BY <1>1, <1>2, <3>1, <3>2 DEF ToSet
  <2>3. n \in ToSet(d)
    BY <1>1, Indexed, <1>2
  <2> QED BY <2>1, <2>2, <2>3
<1> QED BY <1>1, <1>5, <1>7, <1>8 DEF d

LEMMA TailList ==
  ASSUME NEW links \in Links, NEW p, NEW c \in Seq(Nodes), c # <<>>,
         IsList(links, c, p), Distinct(c)
  PROVE  /\ Tail(c) \in Seq(Nodes)
         /\ IsList(links, Tail(c), links[c[1]])
         /\ Distinct(Tail(c))
         /\ ToSet(Tail(c)) \subseteq ToSet(c)
<1> DEFINE d == Tail(c)
<1>1. d \in Seq(Nodes) /\ Len(d) = Len(c) - 1 /\ \A i \in 1..Len(d) : d[i] = c[i + 1]
  BY HeadTailProperties
<1> HIDE DEF d
<1>2. /\ Len(c) \in Nat \ {0} /\ DOMAIN c = 1..Len(c) /\ 1 \in 1..Len(c)
      /\ DOMAIN d = 1..(Len(c) - 1) /\ (d = <<>> <=> Len(c) = 1)
  BY <1>1, Indexed
<1>3. \A i \in 1..(Len(c) - 1) : d[i] = c[i + 1] /\ i + 1 \in 1..Len(c)
  BY <1>1, <1>2
<1>4. \A i \in 1..Len(c) : links[c[i]] = IF i = Len(c) THEN Null ELSE c[i + 1]
  BY <1>2 DEF IsList
<1>5. IsList(links, d, links[c[1]])
  <2>1. links[c[1]] = IF d = <<>> THEN Null ELSE d[1]
    <3>1. CASE Len(c) = 1
      BY <1>2, <1>4, <3>1
    <3>2. CASE Len(c) # 1
      <4>1. 1 \in 1..(Len(c) - 1)
        BY <1>2, <3>2
      <4>2. d[1] = c[1 + 1]
        BY <1>3, <4>1
      <4> QED BY <1>2, <1>4, <3>2, <4>2
    <3> QED BY <3>1, <3>2
  <2>2. ASSUME NEW i \in 1..(Len(c) - 1)
        PROVE  links[d[i]] = IF i = Len(d) THEN Null ELSE d[i + 1]
    <3>1. d[i] = c[i + 1] /\ i + 1 \in 1..Len(c)
      BY <1>3
    <3>2. links[c[i + 1]] = IF i + 1 = Len(c) THEN Null ELSE c[(i + 1) + 1]
      BY <1>4, <3>1
    <3>3. i = Len(d) <=> i + 1 = Len(c)
      BY <1>1, <1>2
    <3>4. i # Len(d) => i + 1 \in 1..(Len(c) - 1)
      BY <1>1, <1>2
    <3> QED BY <1>3, <3>1, <3>2, <3>3, <3>4
  <2> QED BY <1>2, <2>1, <2>2 DEF IsList
<1>6. Distinct(d)
  <2> SUFFICES ASSUME NEW i \in 1..(Len(c) - 1), NEW k \in 1..(Len(c) - 1), d[i] = d[k]
               PROVE  i = k
    BY <1>2 DEF Distinct
  <2>1. i + 1 = k + 1
    BY <1>2, <1>3 DEF Distinct
  <2> QED BY <2>1
<1>7. ToSet(d) \subseteq ToSet(c)
  BY <1>2, <1>3 DEF ToSet
<1> QED BY <1>1, <1>5, <1>6, <1>7 DEF d

LEMMA ReverseFacts ==
  ASSUME NEW c \in Seq(Nodes)
  PROVE  /\ Reverse(c) \in Seq(Nodes) /\ Len(Reverse(c)) = Len(c)
         /\ \A i \in 1..Len(c) : Reverse(c)[i] = c[(Len(c) - i) + 1]
         /\ Distinct(c) => Distinct(Reverse(c))
         /\ ToSet(Reverse(c)) = ToSet(c)
<1>1. Len(c) \in Nat /\ DOMAIN c = 1..Len(c) /\ \A i \in 1..Len(c) : c[i] \in Nodes
  BY Indexed
<1>2. \A i \in 1..Len(c) : (Len(c) - i) + 1 \in 1..Len(c)
  BY <1>1
<1>3. Reverse(c) \in [1..Len(c) -> Nodes]
  BY <1>1, <1>2 DEF Reverse
<1>4. Reverse(c) \in Seq(Nodes) /\ Len(Reverse(c)) = Len(c) /\ DOMAIN Reverse(c) = 1..Len(c)
  BY <1>1, <1>3
<1>5. \A i \in 1..Len(c) : Reverse(c)[i] = c[(Len(c) - i) + 1]
  BY DEF Reverse
<1>6. ASSUME Distinct(c) PROVE Distinct(Reverse(c))
  <2> SUFFICES ASSUME NEW i \in 1..Len(c), NEW k \in 1..Len(c), Reverse(c)[i] = Reverse(c)[k]
               PROVE  i = k
    BY <1>4 DEF Distinct
  <2>1. (Len(c) - i) + 1 = (Len(c) - k) + 1
    BY <1>1, <1>2, <1>5, <1>6 DEF Distinct
  <2> QED BY <1>1, <2>1
<1>7. ToSet(Reverse(c)) = ToSet(c)
  <2>1. ASSUME NEW x \in ToSet(Reverse(c)) PROVE x \in ToSet(c)
    <3>1. PICK i \in 1..Len(c) : x = Reverse(c)[i]
      BY <1>4, <2>1 DEF ToSet
    <3> QED BY <1>1, <1>2, <1>5, <3>1 DEF ToSet
  <2>2. ASSUME NEW x \in ToSet(c) PROVE x \in ToSet(Reverse(c))
    <3>1. PICK i \in 1..Len(c) : x = c[i]
      BY <1>1, <2>2 DEF ToSet
    <3> DEFINE k == (Len(c) - i) + 1
    <3>2. k \in 1..Len(c) /\ (Len(c) - k) + 1 = i
      BY <1>1
    <3> HIDE DEF k
    <3>3. Reverse(c)[k] = x
      BY <1>5, <3>1, <3>2
    <3> QED BY <1>4, <3>2, <3>3 DEF ToSet
  <2> QED BY <2>1, <2>2
<1> QED BY <1>4, <1>5, <1>6, <1>7

(* The loop of sp_queue_pop makes a list of the nodes it is given.          *)
LEMMA LinkedIs ==
  ASSUME TypeOK, NEW r \in Seq(Nodes), Distinct(r), r # <<>>
  PROVE  /\ Linked(r) \in Links /\ IsList(Linked(r), r, r[1])
         /\ \A n \in Nodes : n \notin ToSet(r) => Linked(r)[n] = next[n]
<1>1. Len(r) \in Nat /\ DOMAIN r = 1..Len(r) /\ \A i \in 1..Len(r) : r[i] \in Nodes /\ r[i] \in ToSet(r)
  BY Indexed
<1>2. \A i \in 1..Len(r) : (CHOOSE k \in DOMAIN r : r[k] = r[i]) = i
  BY <1>1 DEF Distinct
<1>3. \A n \in ToSet(r) : (CHOOSE k \in DOMAIN r : r[k] = n) \in 1..Len(r)
  BY <1>1 DEF ToSet
<1>4. \A i \in 1..Len(r) : i # Len(r) => i + 1 \in 1..Len(r)
  <2>1. \A n \in Nat : \A m \in 1..n : m # n => m + 1 \in 1..n
    OBVIOUS
  <2> QED BY <1>1, <2>1
<1>5. Linked(r) \in Links
  BY <1>1, <1>3, <1>4 DEF TypeOK, Linked, Links
<1>6. ASSUME NEW i \in 1..Len(r)
      PROVE  Linked(r)[r[i]] = IF i = Len(r) THEN Null ELSE r[i + 1]
  <2>1. \A n \in ToSet(r) : n \in Nodes
    BY Indexed
  <2>2. \A n \in ToSet(r) : \A k : k = (CHOOSE m \in DOMAIN r : r[m] = n) =>
          Linked(r)[n] = IF k = Len(r) THEN Null ELSE r[k + 1]
    BY <2>1 DEF Linked
  <2> QED BY <1>1, <1>2, <2>2
<1>7. \A n \in Nodes : n \notin ToSet(r) => Linked(r)[n] = next[n]
  BY DEF Linked
<1> QED BY <1>1, <1>5, <1>6, <1>7 DEF IsList

(* Pushing a node on the stack appends it to the contents, and taking one   *)
(* from the list removes the first.                                         *)
LEMMA ContentsPush ==
  ASSUME NEW f \in Seq(Nodes), NEW s \in Seq(Nodes), NEW n \in Nodes
  PROVE  f \o Reverse(<<n>> \o s) = Append(f \o Reverse(s), n)
<1> DEFINE d == <<n>> \o s
           r == Reverse(s)
           e == Reverse(d)
<1>1. <<n>> \in Seq(Nodes) /\ Len(<<n>>) = 1 /\ <<n>>[1] = n /\ Len(s) \in Nat /\ Len(f) \in Nat
  BY Indexed
<1>2. /\ d \in Seq(Nodes) /\ Len(d) = 1 + Len(s)
      /\ \A i \in 1..(1 + Len(s)) : d[i] = IF i <= 1 THEN <<n>>[i] ELSE s[i - 1]
  BY <1>1, ConcatProperties
<1> HIDE DEF d
<1>3. /\ r \in Seq(Nodes) /\ Len(r) = Len(s)
      /\ \A i \in 1..Len(s) : r[i] = s[(Len(s) - i) + 1]
      /\ e \in Seq(Nodes) /\ Len(e) = 1 + Len(s)
      /\ \A i \in 1..(1 + Len(s)) : e[i] = d[(1 + Len(s) - i) + 1]
  BY <1>2, ReverseFacts
<1> HIDE DEF r, e
<1>4. e = Append(r, n)
  <2>1. /\ Append(r, n) \in Seq(Nodes) /\ Len(Append(r, n)) = Len(s) + 1
        /\ \A i \in 1..Len(s) : Append(r, n)[i] = r[i]
        /\ Append(r, n)[Len(s) + 1] = n
    BY <1>3, AppendProperties
  <2>2. ASSUME NEW i \in 1..(1 + Len(s)) PROVE e[i] = Append(r, n)[i]
    <3>1. CASE i = 1 + Len(s)
      <4>1. (1 + Len(s) - i) + 1 = 1 /\ 1 \in 1..(1 + Len(s))
        BY <1>1, <3>1
      <4>2. e[i] = n
        BY <1>1, <1>2, <1>3, <4>1
      <4>3. i = Len(s) + 1
        BY <1>1, <3>1
      <4> QED BY <2>1, <4>2, <4>3
    <3>2. CASE i # 1 + Len(s)
      <4> DEFINE k == (1 + Len(s) - i) + 1
      <4>1. k \in 1..(1 + Len(s)) /\ ~(k <= 1) /\ k - 1 = (Len(s) - i) + 1 /\ i \in 1..Len(s)
        BY <1>1, <3>2
      <4>2. e[i] = d[k]
        BY <1>3
      <4> HIDE DEF k
      <4>3. d[k] = s[k - 1]
        BY <1>2, <4>1
      <4> QED BY <1>3, <2>1, <4>1, <4>2, <4>3
    <3> QED BY <3>1, <3>2
  <2> QED BY <1>1, <1>3, <2>1, <2>2, SeqEqual
<1>5. f \o Append(r, n) = Append(f \o r, n)
  BY <1>1, <1>3
<1> QED BY <1>4, <1>5 DEF d, e, r

LEMMA ContentsTake ==
  ASSUME NEW f \in Seq(Nodes), NEW r \in Seq(Nodes), f # <<>>
  PROVE  f \o r # <<>> /\ Tail(f \o r) = Tail(f) \o r
<1>1. Len(f) \in Nat \ {0} /\ Len(r) \in Nat
  BY Indexed
<1>2. /\ f \o r \in Seq(Nodes) /\ Len(f \o r) = Len(f) + Len(r)
      /\ \A i \in 1..(Len(f) + Len(r)) : (f \o r)[i] = IF i <= Len(f) THEN f[i] ELSE r[i - Len(f)]
  BY ConcatProperties
<1>3. f \o r # <<>>
  BY <1>1, <1>2, EmptySeq
<1>4. /\ Tail(f \o r) \in Seq(Nodes) /\ Len(Tail(f \o r)) = Len(f) + Len(r) - 1
      /\ \A i \in 1..(Len(f) + Len(r) - 1) : Tail(f \o r)[i] = (f \o r)[i + 1]
  BY <1>2, <1>3, HeadTailProperties
<1>5. /\ Tail(f) \in Seq(Nodes) /\ Len(Tail(f)) = Len(f) - 1
      /\ \A i \in 1..(Len(f) - 1) : Tail(f)[i] = f[i + 1]
  BY HeadTailProperties
<1>6. /\ Tail(f) \o r \in Seq(Nodes) /\ Len(Tail(f) \o r) = Len(f) - 1 + Len(r)
      /\ \A i \in 1..(Len(f) - 1 + Len(r)) :
           (Tail(f) \o r)[i] = IF i <= Len(f) - 1 THEN Tail(f)[i] ELSE r[i - (Len(f) - 1)]
  BY <1>5, ConcatProperties
<1>7. ASSUME NEW i \in 1..(Len(f) + Len(r) - 1)
      PROVE  Tail(f \o r)[i] = (Tail(f) \o r)[i]
  <2>1. /\ i + 1 \in 1..(Len(f) + Len(r)) /\ i \in 1..(Len(f) - 1 + Len(r))
        /\ (i + 1 <= Len(f) <=> i <= Len(f) - 1)
        /\ (i + 1) - Len(f) = i - (Len(f) - 1)
    BY <1>1
  <2>2. CASE i <= Len(f) - 1
    <3>1. i \in 1..(Len(f) - 1)
      BY <1>1, <2>2
    <3> QED BY <1>2, <1>4, <1>5, <1>6, <2>1, <2>2, <3>1
  <2>3. CASE ~(i <= Len(f) - 1)
    BY <1>2, <1>4, <1>6, <2>1, <2>3
  <2> QED BY <2>2, <2>3
<1>8. Len(f) + Len(r) - 1 = Len(f) - 1 + Len(r)
  BY <1>1
<1> QED BY <1>3, <1>4, <1>6, <1>7, <1>8, SeqEqual

LEMMA ContentsSet ==
  ASSUME NEW f \in Seq(Nodes), NEW s \in Seq(Nodes)
  PROVE  ToSet(f) \cup ToSet(s) \subseteq ToSet(f \o Reverse(s))
<1> DEFINE r == Reverse(s)
           b == f \o r
<1>1. r \in Seq(Nodes) /\ ToSet(r) = ToSet(s)
  BY ReverseFacts
<1> HIDE DEF r
<1>2. /\ b \in Seq(Nodes) /\ Len(b) = Len(f) + Len(r)
      /\ \A i \in 1..(Len(f) + Len(r)) : b[i] = IF i <= Len(f) THEN f[i] ELSE r[i - Len(f)]
  BY <1>1, ConcatProperties
<1> HIDE DEF b
<1>3. /\ Len(f) \in Nat /\ Len(r) \in Nat /\ DOMAIN f = 1..Len(f) /\ DOMAIN r = 1..Len(r)
      /\ DOMAIN b = 1..(Len(f) + Len(r))
  BY <1>1, <1>2, Indexed
<1>4. ASSUME NEW x \in ToSet(f) PROVE x \in ToSet(b)
  <2>1. PICK i \in 1..Len(f) : x = f[i]
    BY <1>3, <1>4 DEF ToSet
  <2>2. i \in 1..(Len(f) + Len(r)) /\ i <= Len(f)
    BY <1>3
  <2> QED BY <1>2, <1>3, <2>1, <2>2 DEF ToSet
<1>5. ASSUME NEW x \in ToSet(r) PROVE x \in ToSet(b)
  <2>1. PICK i \in 1..Len(r) : x = r[i]
    BY <1>3, <1>5 DEF ToSet
  <2>2. Len(f) + i \in 1..(Len(f) + Len(r)) /\ ~(Len(f) + i <= Len(f)) /\ (Len(f) + i) - Len(f) = i
    BY <1>3
  <2>3. b[Len(f) + i] = x
    BY <1>2, <2>1, <2>2
  <2> QED BY <1>3, <2>2, <2>3 DEF ToSet
<1> QED BY <1>1, <1>4, <1>5 DEF b, r

-----------------------------------------------------------------------------
(* Whoever knows the lists after a step knows the chains and the contents.  *)
LEMMA NewChains ==
  ASSUME next' \in Links, NEW f \in Seq(Nodes), NEW s \in Seq(Nodes), Distinct(f), Distinct(s),
         IsList(next', f, fifo'), IsList(next', s, stack')
  PROVE  /\ Fs' = f /\ Ss' = s
         /\ IsChain(Fs, fifo)' /\ IsChain(Ss, stack)'
         /\ Contents' = f \o Reverse(s)
<1>1. Chain(next', fifo') = f /\ Chain(next', stack') = s
  BY ChainIs
<1>2. Fs' = f /\ Ss' = s
  BY <1>1 DEF Fs, Ss
<1> QED BY <1>1, <1>2 DEF IsChain, Contents

LEMMA Chains ==
  ASSUME IInv
  PROVE  /\ next \in Links
         /\ Fs \in Seq(Nodes) /\ Distinct(Fs) /\ IsList(next, Fs, fifo)
         /\ Ss \in Seq(Nodes) /\ Distinct(Ss) /\ IsList(next, Ss, stack)
         /\ Contents = Fs \o Reverse(Ss)
BY DEF IInv, TypeOK, Links, Shape, IsChain, Contents, Fs, Ss

(* A step that leaves the links alone.                                      *)
LEMMA SameChains ==
  ASSUME IInv, UNCHANGED <<stack, fifo, next, node>>,
         \A h \in Hosts : at'[h] \in {"cas", "retry"} <=> at[h] \in {"cas", "retry"}
  PROVE  Shape' /\ UNCHANGED Contents
<1>1. Fs' = Fs /\ Ss' = Ss /\ Contents' = Contents
  BY DEF Fs, Ss, Contents
<1> QED BY <1>1 DEF IInv, Shape, IsChain

LEMMA InitInv == Init => IInv /\ Contents = <<>>
<1> SUFFICES ASSUME Init PROVE IInv /\ Contents = <<>>
  OBVIOUS
<1>1. TypeOK
  BY DEF Init, TypeOK
<1>2. next \in Links /\ <<>> \in Seq(Nodes) /\ Distinct(<<>>) /\ IsList(next, <<>>, Null)
  BY EmptySeq DEF Init, Links, Distinct, IsList
<1>3. Fs = <<>> /\ Ss = <<>>
  BY <1>2, ChainIs DEF Init, Fs, Ss
<1>4. Reverse(<<>>) = <<>> /\ <<>> \o <<>> = <<>> /\ ToSet(<<>>) = {}
  BY DEF Reverse, ToSet
<1>5. Shape
  BY <1>2, <1>3, <1>4 DEF Init, Shape, IsChain
<1>6. Awake
  BY DEF Init, Awake
<1>7. Contents = <<>>
  BY <1>3, <1>4 DEF Contents, Fs, Ss
<1> QED BY <1>1, <1>5, <1>6, <1>7 DEF IInv

LEMMA PushLoadInv ==
  ASSUME IInv, NEW h \in Hosts, PushLoad(h)
  PROVE  IInv' /\ UNCHANGED Contents
<1>1. PICK n \in Nodes :
        /\ node' = [node EXCEPT ![h] = n] /\ next' = [next EXCEPT ![n] = stack]
        /\ n \notin ToSet(Fs) \cup ToSet(Ss)
        /\ \A g \in Hosts : g # h => node[g] # n
  <2>1. CASE at[h] = "out" /\ \E n \in Free : node' = [node EXCEPT ![h] = n]
    <3>1. PICK n \in Free : node' = [node EXCEPT ![h] = n]
      BY <2>1
    <3>2. n \in Nodes /\ (\A g \in Hosts : node[g] # n) /\ n \notin ToSet(Contents)
      BY <3>1 DEF Free
    <3>3. ToSet(Fs) \cup ToSet(Ss) \subseteq ToSet(Contents)
      BY Chains, ContentsSet
    <3>4. node'[h] = n
      BY <3>1 DEF IInv, TypeOK
    <3> QED BY <3>1, <3>2, <3>3, <3>4 DEF PushLoad
  <2>2. CASE at[h] = "retry" /\ UNCHANGED node
    <3>1. node[h] \in Nodes /\ node' = [node EXCEPT ![h] = node[h]]
      BY <2>2 DEF IInv, TypeOK, Shape
    <3>2. node[h] \notin ToSet(Fs) \cup ToSet(Ss) /\ \A g \in Hosts : g # h => node[g] # node[h]
      BY <3>1, QueueAssumption DEF IInv, Shape
    <3> QED BY <2>2, <3>1, <3>2 DEF PushLoad
  <2> QED BY <2>1, <2>2 DEF PushLoad
<1>2. at' = [at EXCEPT ![h] = "cas"] /\ at[h] \in {"out", "retry"}
      /\ UNCHANGED <<stack, fifo, pushes, poked, wait, generation>>
  BY DEF PushLoad
<1>3. TypeOK'
  BY <1>1, <1>2 DEF IInv, TypeOK
<1>4. next' \in Links /\ IsList(next', Fs, fifo') /\ IsList(next', Ss, stack')
  <2>1. next' \in Links
    BY <1>3 DEF TypeOK, Links
  <2>2. \A m \in ToSet(Fs) \cup ToSet(Ss) : next'[m] = next[m]
    BY <1>1, Chains, Indexed DEF Links
  <2> QED BY <1>2, <2>1, <2>2, Chains, ListFrame
<1>5. /\ Fs' = Fs /\ Ss' = Ss /\ IsChain(Fs, fifo)' /\ IsChain(Ss, stack)'
      /\ Contents' = Fs \o Reverse(Ss)
  BY <1>4, Chains, NewChains
<1>6. Shape'
  BY <1>1, <1>2, <1>5, QueueAssumption DEF IInv, TypeOK, Shape
<1>7. Awake'
  BY <1>2 DEF IInv, TypeOK, Awake, Ahead
<1> QED BY <1>3, <1>5, <1>6, <1>7, Chains DEF IInv

LEMMA PushCasInv ==
  ASSUME IInv, NEW h \in Hosts, PushCas(h)
  PROVE  IInv' /\ (UNCHANGED Contents \/ \E n \in Nodes : Contents' = Append(Contents, n))
<1>1. CASE ~Swap(h)
  <2>1. /\ at[h] = "cas" /\ at' = [at EXCEPT ![h] = "retry"]
        /\ UNCHANGED <<stack, fifo, next, pushes, poked, node, wait, generation>>
    BY <1>1 DEF PushCas
  <2>2. TypeOK'
    BY <2>1 DEF IInv, TypeOK
  <2>3. Awake'
    BY <2>1 DEF IInv, TypeOK, Awake, Ahead
  <2>4. Shape' /\ UNCHANGED Contents
    BY <2>1, SameChains DEF IInv, TypeOK
  <2> QED BY <2>2, <2>3, <2>4 DEF IInv
<1>2. CASE Swap(h)
  <2>1. PICK n \in Nodes : n = node[h]
    BY QueueAssumption DEF IInv, TypeOK, Shape, PushCas
  <2>2. /\ at[h] = "cas" /\ stack = next[n] /\ stack' = n /\ at' = [at EXCEPT ![h] = "bump"]
        /\ node' = [node EXCEPT ![h] = Null]
        /\ UNCHANGED <<fifo, next, pushes, poked, wait, generation>>
    BY <1>2, <2>1 DEF PushCas, Swap
  <2>3. TypeOK'
    BY <2>2 DEF IInv, TypeOK
  <2>4. n \notin ToSet(Fs) /\ n \notin ToSet(Ss)
    BY <2>1 DEF IInv, Shape
  <2>5. /\ <<n>> \o Ss \in Seq(Nodes) /\ IsList(next, <<n>> \o Ss, n)
        /\ Distinct(<<n>> \o Ss) /\ ToSet(<<n>> \o Ss) = ToSet(Ss) \cup {n}
    <3>1. next \in Links /\ Ss \in Seq(Nodes) /\ IsList(next, Ss, stack) /\ Distinct(Ss)
      BY Chains
    <3>2. next[n] = stack
      BY <2>2
    <3>3. ASSUME NEW c \in Seq(Nodes), NEW p, IsList(next, c, p), Distinct(c),
                 n \notin ToSet(c), next[n] = p
          PROVE  /\ <<n>> \o c \in Seq(Nodes) /\ IsList(next, <<n>> \o c, n)
                 /\ Distinct(<<n>> \o c) /\ ToSet(<<n>> \o c) = ToSet(c) \cup {n}
      BY <3>1, <3>3, ConsList
    <3> QED BY <2>4, <3>1, <3>2, <3>3
  <2>6. PICK f, s : f = Fs /\ s = <<n>> \o Ss
    OBVIOUS
  <2>7. /\ Fs' = f /\ Ss' = s /\ IsChain(Fs, fifo)' /\ IsChain(Ss, stack)'
        /\ Contents' = f \o Reverse(s)
    BY <2>2, <2>5, <2>6, Chains, NewChains
  <2>8. Shape'
    <3>1. ToSet(Fs') = ToSet(Fs) /\ ToSet(Ss') = ToSet(Ss) \cup {n}
      BY <2>5, <2>6, <2>7
    <3>2. \A g \in Hosts : /\ node'[g] = IF g = h THEN Null ELSE node[g]
                           /\ at'[g] = IF g = h THEN "bump" ELSE at[g]
      BY <2>2 DEF IInv, TypeOK
    <3>3. ToSet(Fs') \cap ToSet(Ss') = {}
      BY <2>4, <3>1 DEF IInv, Shape
    <3>4. ToSet(Fs) \subseteq Nodes /\ ToSet(Ss) \subseteq Nodes
      BY Chains, Indexed
    <3>5. \A g \in Hosts : node'[g] \notin ToSet(Fs') \cup ToSet(Ss')
      BY <2>1, <3>1, <3>2, <3>4, QueueAssumption DEF IInv, Shape
    <3> QED BY <2>7, <3>2, <3>3, <3>5 DEF IInv, Shape
  <2>9. Awake'
    BY <2>2 DEF IInv, TypeOK, Awake, Ahead
  <2>10. Contents' = Append(Contents, n)
    BY <2>6, <2>7, Chains, ContentsPush
  <2> QED BY <2>3, <2>8, <2>9, <2>10 DEF IInv
<1> QED BY <1>1, <1>2

(* sp_queue_pop takes the first node, whether it finds it in its own list   *)
(* or has to reverse the stack.                                             *)
LEMMA PopInv ==
  ASSUME IInv, NEW then \in {"load", "poke", "first"}, Pop(then),
         UNCHANGED <<pushes, poked, at, node, generation>>
  PROVE  IInv' /\ (UNCHANGED Contents \/ (Contents # <<>> /\ Contents' = Tail(Contents)))
<1>1. CASE fifo # Null
  <2>1. fifo' = next[fifo] /\ wait' = "first" /\ UNCHANGED <<stack, next>>
    BY <1>1 DEF Pop
  <2>2. fifo \in Nodes
    BY <1>1 DEF IInv, TypeOK
  <2>3. TypeOK'
    BY <2>1, <2>2 DEF IInv, TypeOK
  <2>4. Fs # <<>> /\ fifo = Fs[1]
    BY <1>1, Chains, ListHead
  <2>5. /\ Tail(Fs) \in Seq(Nodes) /\ IsList(next, Tail(Fs), next[fifo])
        /\ Distinct(Tail(Fs)) /\ ToSet(Tail(Fs)) \subseteq ToSet(Fs)
    BY <2>4, Chains, TailList
  <2>6. PICK f, s : f = Tail(Fs) /\ s = Ss
    OBVIOUS
  <2>7. /\ Fs' = f /\ Ss' = s /\ IsChain(Fs, fifo)' /\ IsChain(Ss, stack)'
        /\ Contents' = f \o Reverse(s)
    BY <2>1, <2>5, <2>6, Chains, NewChains
  <2>8. Shape'
    BY <2>1, <2>5, <2>6, <2>7 DEF IInv, Shape
  <2>9. Awake'
    BY <2>1 DEF IInv, Awake
  <2>10. Contents # <<>> /\ Contents' = Tail(Contents)
    <3>1. PICK g, r : g = Fs /\ r = Reverse(Ss)
      OBVIOUS
    <3>2. g \in Seq(Nodes) /\ r \in Seq(Nodes) /\ g # <<>> /\ Contents = g \o r
      BY <2>4, <3>1, Chains, ReverseFacts
    <3>3. g \o r # <<>> /\ Tail(g \o r) = Tail(g) \o r
      BY <3>2, ContentsTake
    <3> QED BY <2>6, <2>7, <3>1, <3>2, <3>3
  <2> QED BY <2>3, <2>8, <2>9, <2>10 DEF IInv
<1>2. CASE fifo = Null /\ stack = Null
  <2>1. Ss = <<>> /\ Batch = <<>>
    <3>1. Ss = <<>>
      BY <1>2, Chains, ListHead
    <3> QED BY <3>1 DEF Batch, Ss, Reverse
  <2>2. Linked(<<>>) = next
    BY DEF IInv, TypeOK, Linked, ToSet
  <2>3. UNCHANGED <<stack, next, fifo>> /\ wait' = then
    BY <1>2, <2>1, <2>2 DEF Pop
  <2>4. TypeOK'
    BY <2>3 DEF IInv, TypeOK
  <2>5. Awake'
    BY <1>2, <2>3 DEF IInv, Awake
  <2> QED BY <2>3, <2>4, <2>5, SameChains DEF IInv
<1>3. CASE fifo = Null /\ stack # Null
  <2>1. PICK r : r = Batch
    OBVIOUS
  <2>2. Fs = <<>> /\ Ss # <<>>
    BY <1>3, Chains, ListHead
  <2>3. /\ r \in Seq(Nodes) /\ Distinct(r) /\ r # <<>> /\ ToSet(r) = ToSet(Ss)
        /\ Contents = r
    <3>1. r = Reverse(Ss)
      BY <2>1 DEF Batch, Ss
    <3>2. r \in Seq(Nodes) /\ Distinct(r) /\ Len(r) = Len(Ss) /\ ToSet(r) = ToSet(Ss)
      BY <3>1, Chains, ReverseFacts
    <3>3. r # <<>>
      BY <2>2, <3>2, Chains, Indexed
    <3>4. <<>> \o r = r
      BY <3>2, ConcatEmptySeq
    <3> QED BY <2>2, <3>1, <3>2, <3>3, <3>4, Chains
  <2>4. /\ stack' = Null /\ next' = Linked(r) /\ fifo' = next'[r[1]] /\ wait' = "first"
    BY <1>3, <2>1 DEF Pop
  <2>5. next' \in Links /\ IsList(next', r, r[1])
    BY <2>3, <2>4, LinkedIs DEF IInv
  <2>6. /\ Tail(r) \in Seq(Nodes) /\ IsList(next', Tail(r), fifo')
        /\ Distinct(Tail(r)) /\ ToSet(Tail(r)) \subseteq ToSet(r)
    BY <2>3, <2>4, <2>5, TailList
  <2>7. <<>> \in Seq(Nodes) /\ Distinct(<<>>) /\ IsList(next', <<>>, stack') /\ ToSet(<<>>) = {}
    BY <2>4, EmptySeq DEF Distinct, IsList, ToSet
  <2>8. PICK f, s : f = Tail(r) /\ s = <<>>
    OBVIOUS
  <2>9. /\ Fs' = f /\ Ss' = s /\ IsChain(Fs, fifo)' /\ IsChain(Ss, stack)'
        /\ Contents' = f \o Reverse(s)
    BY <2>5, <2>6, <2>7, <2>8, NewChains
  <2>10. TypeOK'
    <3>1. r[1] \in Nodes
      BY <2>3, Indexed
    <3>2. next' \in [Nodes -> Nodes \cup {Null}] /\ fifo' \in Nodes \cup {Null}
      BY <2>4, <2>5, <3>1 DEF Links
    <3> QED BY <2>4, <3>2 DEF IInv, TypeOK
  <2>11. Shape'
    <3>1. ToSet(Fs') \subseteq ToSet(Ss) /\ ToSet(Ss') = {}
      BY <2>3, <2>6, <2>7, <2>8, <2>9
    <3> QED BY <2>9, <3>1 DEF IInv, Shape
  <2>12. Awake'
    BY <2>4 DEF IInv, Awake
  <2>13. Contents' = Tail(Contents) /\ Contents # <<>>
    <3>1. Reverse(<<>>) = <<>> /\ Tail(r) \o <<>> = Tail(r)
      BY <2>6, ConcatEmptySeq DEF Reverse
    <3> QED BY <2>3, <2>8, <2>9, <3>1
  <2> QED BY <2>10, <2>11, <2>12, <2>13 DEF IInv
<1> QED BY <1>1, <1>2, <1>3

(* The steps that only count, wake, sleep or look at a flag.                *)
LEMMA HostInv ==
  ASSUME IInv, NEW h \in Hosts, Bump(h) \/ FutexWake(h) \/ Poke(h)
  PROVE  IInv' /\ UNCHANGED Contents
<1>1. TypeOK'
  <2>1. CASE Bump(h)
    BY <2>1 DEF IInv, TypeOK, Bump
  <2>2. CASE FutexWake(h)
    BY <2>2 DEF IInv, TypeOK, FutexWake, shared
  <2>3. CASE Poke(h)
    BY <2>3 DEF IInv, TypeOK, Poke
  <2> QED BY <2>1, <2>2, <2>3
<1>2. Shape' /\ UNCHANGED Contents
  BY SameChains DEF IInv, TypeOK, Bump, FutexWake, Poke, shared
<1>3. CASE Bump(h)
  BY <1>1, <1>2, <1>3 DEF IInv, TypeOK, Awake, Ahead, Bump
<1>4. CASE FutexWake(h)
  BY <1>1, <1>2, <1>4 DEF IInv, TypeOK, Awake, Ahead, FutexWake, shared
<1>5. CASE Poke(h)
  BY <1>1, <1>2, <1>5 DEF IInv, TypeOK, Awake, Ahead, Poke
<1> QED BY <1>3, <1>4, <1>5

LEMMA WaitInv ==
  ASSUME IInv, WaitLoad \/ WaitPoke \/ WaitFutex \/ SpuriousWake
  PROVE  IInv' /\ UNCHANGED Contents
<1>1. TypeOK'
  BY DEF IInv, TypeOK, WaitLoad, Loaded, WaitPoke, WaitFutex, SpuriousWake, shared
<1>2. Shape' /\ UNCHANGED Contents
  BY SameChains DEF WaitLoad, WaitPoke, WaitFutex, SpuriousWake, shared
<1>3. Awake'
  BY DEF IInv, TypeOK, Awake, Ahead, WaitLoad, Loaded, WaitPoke, WaitFutex, Sleeps,
         SpuriousWake, shared
<1> QED BY <1>1, <1>2, <1>3 DEF IInv

(* Every step keeps the invariant, and is a step of the Fifo.               *)
LEMMA NextInv == IInv /\ [Next]_vars => IInv' /\ [Abstract!Next]_Contents
<1> SUFFICES ASSUME IInv, [Next]_vars
             PROVE  IInv' /\ ( \/ UNCHANGED Contents
                               \/ Contents # <<>> /\ Contents' = Tail(Contents)
                               \/ \E n \in Nodes : Contents' = Append(Contents, n) )
  BY DEF Abstract!Next, Abstract!Take, Abstract!Push
<1>1. CASE WaitPop
  BY <1>1, PopInv DEF WaitPop
<1>2. CASE WaitLoad \/ WaitPoke \/ WaitFutex \/ SpuriousWake
  BY <1>2, WaitInv
<1>3. ASSUME NEW h \in Hosts, PushLoad(h) PROVE IInv' /\ UNCHANGED Contents
  BY <1>3, PushLoadInv
<1>4. ASSUME NEW h \in Hosts, Finish(h) \/ Call(h)
      PROVE  IInv' /\ (UNCHANGED Contents \/ \E n \in Nodes : Contents' = Append(Contents, n))
  BY <1>3, <1>4, PushCasInv, HostInv DEF Finish, Call
<1>5. CASE UNCHANGED vars
  <2>1. UNCHANGED <<stack, fifo, next, pushes, poked, at, node, wait, generation>>
    BY <1>5 DEF vars, shared
  <2>2. Shape' /\ UNCHANGED Contents
    BY <2>1, SameChains
  <2> QED BY <2>1, <2>2 DEF IInv, TypeOK, Awake, Ahead
<1> QED BY <1>1, <1>2, <1>4, <1>5 DEF Next, Consumer

(* In every reachable state the list and the stack are proper lists that    *)
(* share no node, and no host can still change the links of one that is in. *)
THEOREM QueueInvariant == Spec => []IInv
BY InitInv, NextInv, PTL DEF Spec

(* The op thread never sleeps through a push or a wake: if it sleeps with   *)
(* work there, someone is about to wake it.                                 *)
THEOREM NeverSleepsOnWork == Spec => []NoSleepOnWork
<1>1. IInv => NoSleepOnWork
  BY DEF IInv, Awake, NoSleepOnWork
<1> QED BY <1>1, QueueInvariant, PTL

(* The queue is a Fifo, whoever pushes while whoever pops: no node is lost, *)
(* doubled or overtaken, although sp_queue_push compares heads and a head   *)
(* may be popped and pushed again in between.                               *)
THEOREM QueueIsFifo == Spec => Abstract!Safe
<1>1. Init => Abstract!Init
  BY InitInv DEF Abstract!Init
<1> QED BY <1>1, NextInv, QueueInvariant, PTL DEF Spec, Abstract!Safe

=============================================================================
