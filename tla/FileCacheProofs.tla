--------------------------- MODULE FileCacheProofs ---------------------------
(***************************************************************************)
(* For every set of paths, contents and threads, and without any bound that  *)
(* matters: the file cache keeps its types and none of its records lies.     *)
(***************************************************************************)
EXTENDS FileCache, TLAPS

(* Inodes are numbered from below, and nothing is written in the future.    *)
Bounded ==
  /\ fence <= clock /\ inodes > 0
  /\ \A p \in Paths : file[p].id < inodes /\ file[p].mtime <= clock
  /\ \A b \in blobs : b.id < inodes /\ b.mtime <= clock

(* An inode has one state, and only outputs share one.                      *)
Owned ==
  /\ \A p, q \in Paths : file[p].id = file[q].id =>
       file[p] = file[q] /\ (p = q \/ (p \in outputs /\ q \in outputs))
  /\ \A p \in Paths, b \in blobs : file[p].id = b.id => p \in outputs /\ file[p] = b
  /\ \A b, c \in blobs : b.id = c.id => b = c

(* What a record r has to satisfy so that no edit of the file f can make it *)
(* lie: it is older than any edit to come.                                  *)
Safe(r, f, edited) ==
  f.id = r.id => /\ IF edited THEN r.mtime < clock ELSE r.mtime <= f.mtime
                 /\ r.mtime = f.mtime => f.content = r.digest

Trusted(r) ==
  /\ r.id < inodes
  /\ \A p \in Paths : Safe(r, file[p], p \notin outputs)
  /\ \A b \in blobs : Safe(r, b, FALSE)

AllTrusted == \A r \in Recorded : Trusted(r)

(* What stat returned for p is about an inode of p, or was.                 *)
StatOf(p, m) ==
  /\ m.id < inodes
  /\ \A q \in Paths : file[q].id = m.id => q = p \/ (p \in outputs /\ q \in outputs)
  /\ \A b \in blobs : b.id = m.id => p \in outputs

(* The stats of outputs, which nobody edits meanwhile, are exact, but for   *)
(* the moment between the link and the invalidation of the old one.         *)
StatsOK ==
  \A p \in Paths : \A m \in metadata[p] :
    /\ StatOf(p, m)
    /\ \/ p \notin outputs \/ m = Meta(file[p])
       \/ \E t \in Threads : On(t, p) /\ call[t].at = "invalidate"

Holding == {"insert", "lookup", "hash", "record"}

CallOK(k) ==
  /\ k.at \in Holding => StatOf(k.path, k.meta)
  /\ k.at \in Holding /\ k.path \in outputs => k.meta = Meta(file[k.path])
  /\ k.at \in {"hash", "record"} /\ k.record => k.meta.mtime < fence
  /\ k.at = "record" => /\ k.digest \in Contents
                        /\ Current(k.meta, file[k.path]) => file[k.path].content = k.digest
                        /\ k.path \in outputs \/ k.record
  /\ k.at = "invalidate" => k.seed
  /\ k.at \in {"hash", "lookup"} => ~k.seed
  /\ k.seed /\ k.at # "idle" =>
       /\ k.path \in outputs /\ k.digest \in Contents /\ ~k.record
       /\ k.at # "return" => k.digest = file[k.path].content

CallsOK == \A t \in Threads : CallOK(call[t])

(* A thread that links an output has it to itself, and outside a session    *)
(* nothing is going on.                                                     *)
Alone ==
  /\ \A t, u \in Threads : \A p \in Paths : Linking(t, p) /\ On(u, p) => t = u
  /\ ~running => Quiet /\ \A p \in Paths : metadata[p] = {}

IInv == TypeOK /\ Bounded /\ Owned /\ AllTrusted /\ StatsOK /\ CallsOK /\ Alone

-----------------------------------------------------------------------------
(* A record that is trusted does not lie.                                   *)
LEMMA TrustedIsTrue == IInv => RecordsTrue
BY DEF IInv, AllTrusted, Trusted, Safe, RecordsTrue, Current

(* In the beginning nothing is recorded.                                    *)
LEMMA InitInv == Init => IInv
<1> SUFFICES ASSUME Init PROVE IInv
  OBVIOUS
<1>0. Idle \in [at : Ats, path : Paths, seed : BOOLEAN, record : BOOLEAN,
                meta : Metas, digest : Contents \cup {NoDigest}] /\ Idle.at = "idle" /\ ~Idle.seed
  BY CacheAssumption DEF Idle, Ats, Metas
<1>1. TypeOK
  <2>1. file \in [Paths -> Files]
    BY CacheAssumption DEF Init, Files
  <2>. QED BY <1>0, <2>1, CacheAssumption DEF Init, TypeOK
<1>2. Bounded
  BY CacheAssumption DEF Init, Bounded
<1>3. Owned
  BY CacheAssumption DEF Init, Owned
<1>4. Recorded = {}
  BY DEF Init, Recorded
<1>5. StatsOK /\ CallsOK /\ Alone
  BY <1>0 DEF Init, StatsOK, CallsOK, CallOK, Holding, Alone, Quiet, Linking, On
<1>. QED BY <1>1, <1>2, <1>3, <1>4, <1>5 DEF IInv, AllTrusted

-----------------------------------------------------------------------------
CallType == [at : Ats, path : Paths, seed : BOOLEAN, record : BOOLEAN,
             meta : Metas, digest : Contents \cup {NoDigest}]

(* The state of a thread that is doing nothing.                             *)
LEMMA IdleType == Idle \in CallType /\ Idle.at = "idle" /\ ~Idle.seed /\ ~Idle.record
BY CacheAssumption DEF Idle, Ats, Metas, CallType

(* What a step that touches neither a file nor the store leaves in place;   *)
(* the fence may move forward.                                              *)
SameDisk == /\ UNCHANGED <<outputs, clock, inodes, file, blobs>>
            /\ fence' \in Nat /\ fence <= fence' /\ fence' <= clock

(* Such a step keeps everything that was said about files.                  *)
LEMMA SameFiles ==
  ASSUME IInv, SameDisk
  PROVE  /\ Bounded' /\ Owned'
         /\ \A r : Trusted(r) => Trusted(r)'
         /\ \A p, m : StatOf(p, m) => StatOf(p, m)'
         /\ \A k \in CallType : CallOK(k) => CallOK(k)'
<1>1. Bounded' /\ Owned'
  BY DEF IInv, SameDisk, Bounded, Owned
<1>2. \A r : Trusted(r) => Trusted(r)'
  BY DEF SameDisk, Trusted, Safe
<1>3. \A p, m : StatOf(p, m) => StatOf(p, m)'
  BY DEF SameDisk, StatOf
<1>4. ASSUME NEW k \in CallType, CallOK(k) PROVE CallOK(k)'
  <2>1. k.meta.mtime \in Nat /\ fence \in Nat
    BY DEF CallType, Metas, IInv, TypeOK
  <2>2. k.meta.mtime < fence => k.meta.mtime < fence'
    BY <2>1 DEF SameDisk
  <2>3. StatOf(k.path, k.meta) => StatOf(k.path, k.meta)'
    BY <1>3
  <2>. QED BY <1>4, <2>2, <2>3 DEF SameDisk, CallOK, Current, Meta
<1>. QED BY <1>1, <1>2, <1>3, <1>4

(* A step of a thread t that goes on with k, and its effect on the others.  *)
LEMMA OneCall ==
  ASSUME IInv, SameDisk, NEW t \in Threads, NEW k \in CallType,
         call' = [call EXCEPT ![t] = k], CallOK(k)'
  PROVE  CallsOK' /\ call' \in [Threads -> CallType]
<1>1. call \in [Threads -> CallType]
  BY DEF IInv, TypeOK, CallType
<1>2. \A u \in Threads : CallOK(call[u])'
  BY <1>1, SameFiles DEF IInv, CallsOK
<1>. QED BY <1>1, <1>2 DEF CallsOK

(* A thread that goes on with the call it is in takes no path from another. *)
LEMMA GoesOn ==
  ASSUME IInv, SameDisk, NEW t \in Threads, NEW k \in CallType,
         call' = [call EXCEPT ![t] = k], UNCHANGED running, call[t].at # "idle",
         k.at = "idle" \/ (k.path = call[t].path /\ k.seed = call[t].seed)
  PROVE  Alone'
<1>1. call \in [Threads -> CallType]
  BY DEF IInv, TypeOK, CallType
<1>2. running
  BY DEF IInv, Alone, Quiet
<1>3. \A u \in Threads : \A p : On(u, p)' => On(u, p)
  BY <1>1 DEF On
<1>4. \A u \in Threads : \A p : Linking(u, p)' => Linking(u, p)
  BY <1>1, <1>3 DEF Linking, On
<1>. QED BY <1>2, <1>3, <1>4 DEF IInv, Alone

(* The stats are kept if the step is not the one that drops an old one.     *)
LEMMA KeepsStats ==
  ASSUME IInv, SameDisk, NEW t \in Threads, NEW k \in CallType,
         call' = [call EXCEPT ![t] = k], UNCHANGED metadata, call[t].at # "invalidate"
  PROVE  StatsOK'
<1>1. call \in [Threads -> CallType]
  BY DEF IInv, TypeOK, CallType
<1>2. ASSUME NEW p \in Paths, NEW m \in metadata[p]
      PROVE  StatOf(p, m)' /\ \/ p \notin outputs' \/ m = Meta(file'[p])
                              \/ \E u \in Threads : On(u, p)' /\ call'[u].at = "invalidate"
  <2>1. StatOf(p, m)'
    BY SameFiles DEF IInv, StatsOK
  <2>2. CASE p \notin outputs \/ m = Meta(file[p])
    BY <2>1, <2>2 DEF SameDisk
  <2>3. CASE \E u \in Threads : On(u, p) /\ call[u].at = "invalidate"
    BY <1>1, <2>1, <2>3 DEF On
  <2>. QED BY <2>2, <2>3 DEF IInv, StatsOK
<1>. QED BY <1>2 DEF StatsOK

(* The records are kept if there is no new one.                             *)
LEMMA KeepsRecords ==
  ASSUME IInv, SameDisk, \A r : r \in Recorded' => r \in Recorded
  PROVE  AllTrusted'
BY SameFiles DEF IInv, AllTrusted

(* A thread that goes on with its call, and puts no new record anywhere.    *)
LEMMA MovesOn ==
  ASSUME IInv, SameDisk, NEW t \in Threads, NEW k \in CallType,
         call' = [call EXCEPT ![t] = k], call[t].at \notin {"idle", "invalidate"},
         k.at = "idle" \/ (k.path = call[t].path /\ k.seed = call[t].seed),
         CallOK(k)', UNCHANGED <<running, metadata, hints, saved, since>>,
         entries' \subseteq Recorded
  PROVE  IInv'
<1>1. CallsOK' /\ call' \in [Threads -> CallType]
  BY OneCall
<1>2. Recorded \subseteq Records /\ Recorded' \subseteq Recorded
  BY DEF IInv, TypeOK, Recorded
<1>3. TypeOK'
  BY <1>1, <1>2 DEF IInv, TypeOK, SameDisk, CallType
<1>4. StatsOK' /\ AllTrusted' /\ Alone'
  BY <1>2, KeepsStats, KeepsRecords, GoesOn
<1>. QED BY <1>1, <1>3, <1>4, SameFiles DEF IInv

-----------------------------------------------------------------------------
(* The steps of a thread.                                                   *)

(* A thread starts to look up the digest of a path.                         *)
LEMMA DigestInv ==
  ASSUME IInv, NEW t \in Threads, NEW p \in Paths, Digest(t, p)
  PROVE  IInv'
<1>1. SameDisk
  BY DEF Digest, SameDisk, cache, IInv, TypeOK, Bounded
<1>2. PICK k \in CallType : k = [Idle EXCEPT !.at = "stat", !.path = p]
  BY IdleType DEF CallType, Ats
<1>3. /\ call' = [call EXCEPT ![t] = k] /\ k.at = "stat" /\ k.path = p /\ ~k.seed
      /\ running /\ call[t].at = "idle" /\ \A u \in Threads : ~Linking(u, p)
      /\ UNCHANGED <<running, metadata, entries, hints, saved, since>>
  BY <1>2, IdleType DEF Digest, CallType, cache
<1>4. CallOK(k)'
  BY <1>3 DEF CallOK, Holding
<1>5. CallsOK' /\ call' \in [Threads -> CallType]
  BY <1>1, <1>3, <1>4, OneCall
<1>6. TypeOK'
  BY <1>1, <1>3, <1>5 DEF IInv, TypeOK, SameDisk, CallType
<1>7. StatsOK' /\ AllTrusted'
  BY <1>1, <1>3, KeepsStats, KeepsRecords DEF Recorded
<1>8. Alone'
  <2>1. call \in [Threads -> CallType]
    BY DEF IInv, TypeOK, CallType
  <2>2. \A u \in Threads : \A q : Linking(u, q)' => Linking(u, q) /\ u # t
    BY <1>3, <2>1 DEF Linking, On
  <2>3. \A u \in Threads : \A q : On(u, q)' => On(u, q) \/ (u = t /\ q = p)
    BY <1>3, <2>1 DEF On
  <2>. QED BY <1>3, <2>2, <2>3 DEF IInv, Alone
<1>. QED BY <1>1, <1>5, <1>6, <1>7, <1>8, SameFiles DEF IInv

(* It takes the stat that is cached, or one of the file.                    *)
LEMMA StatInv ==
  ASSUME IInv, NEW t \in Threads, StatCached(t) \/ StatFile(t)
  PROVE  IInv'
<1>0. /\ call[t] \in CallType /\ call \in [Threads -> CallType] /\ call[t].path \in Paths
      /\ metadata[call[t].path] \subseteq Metas /\ file[call[t].path] \in Files
      /\ CallOK(call[t])
  BY DEF IInv, TypeOK, CallType, CallsOK
<1>1. SameDisk /\ call[t].at = "stat" /\ UNCHANGED <<running, metadata, entries, hints, saved, since>>
  BY DEF StatCached, StatFile, SameDisk, cache, IInv, TypeOK, Bounded
<1>2. PICK m \in Metas :
        /\ m \in metadata[call[t].path] \/ m = Meta(file[call[t].path])
        /\ call' = [call EXCEPT ![t].at = AfterStat(t), ![t].meta = m]
              \/ call' = [call EXCEPT ![t].at = "insert", ![t].meta = m]
  BY <1>0 DEF StatCached, StatFile, Meta, Files, Metas
<1>3. PICK k \in CallType :
        /\ k.at \in {"insert", AfterStat(t)} /\ k.meta = m
        /\ k.path = call[t].path /\ k.seed = call[t].seed /\ k.record = call[t].record
        /\ k.digest = call[t].digest
        /\ call' = [call EXCEPT ![t] = k]
  <2>1. CASE call' = [call EXCEPT ![t].at = AfterStat(t), ![t].meta = m]
    <3>1. [call[t] EXCEPT !.at = AfterStat(t), !.meta = m] \in CallType
      BY <1>0 DEF CallType, AfterStat, Ats
    <3>. QED BY <1>0, <2>1, <3>1 DEF CallType
  <2>2. CASE call' = [call EXCEPT ![t].at = "insert", ![t].meta = m]
    <3>1. [call[t] EXCEPT !.at = "insert", !.meta = m] \in CallType
      BY <1>0 DEF CallType, Ats
    <3>. QED BY <1>0, <2>2, <3>1 DEF CallType
  <2>. QED BY <1>2, <2>1, <2>2
<1>4. StatOf(call[t].path, m) /\ (call[t].path \in outputs => m = Meta(file[call[t].path]))
  <2>1. CASE m = Meta(file[call[t].path])
    BY <1>0, <2>1 DEF IInv, Bounded, Owned, StatOf, Meta
  <2>2. CASE m \in metadata[call[t].path]
    <3>1. ~\E u \in Threads : On(u, call[t].path) /\ call[u].at = "invalidate"
      <4> SUFFICES ASSUME NEW u \in Threads, On(u, call[t].path), call[u].at = "invalidate"
                   PROVE  FALSE
        OBVIOUS
      <4>1. Linking(u, call[t].path) /\ On(t, call[t].path)
        BY <1>1 DEF IInv, CallsOK, CallOK, Linking, On
      <4>. QED BY <1>0, <1>1, <4>1 DEF IInv, Alone
    <3>. QED BY <1>0, <2>2, <3>1 DEF IInv, StatsOK
  <2>. QED BY <1>2, <2>1, <2>2
<1>5. CallOK(k)'
  <2>1. CallOK(k)
    <3>1. k.at \in Holding => StatOf(k.path, k.meta)
      BY <1>3, <1>4
    <3>2. k.path \in outputs => k.meta = Meta(file[k.path])
      BY <1>3, <1>4
    <3>3. k.seed => k.path \in outputs /\ k.digest \in Contents /\ k.digest = file[k.path].content /\ ~k.record
      BY <1>0, <1>1, <1>3 DEF CallOK
    <3>4. k.at = "insert" \/ (k.at = "record" /\ k.seed) \/ (k.at = "lookup" /\ ~k.seed)
      BY <1>3 DEF AfterStat
    <3>. QED BY <3>1, <3>2, <3>3, <3>4 DEF CallOK
  <2>. QED BY <1>1, <2>1, SameFiles
<1>6. entries' \subseteq Recorded
  BY <1>1 DEF Recorded
<1>. QED BY <1>1, <1>3, <1>5, <1>6, MovesOn

(* It puts the stat it took into the cache.                                 *)
LEMMA StatInsertInv ==
  ASSUME IInv, NEW t \in Threads, StatInsert(t)
  PROVE  IInv'
<1>0. /\ call[t] \in CallType /\ call \in [Threads -> CallType] /\ call[t].path \in Paths
      /\ call[t].meta \in Metas /\ metadata \in [Paths -> SUBSET Metas] /\ CallOK(call[t])
  BY DEF IInv, TypeOK, CallType, CallsOK
<1>1. /\ SameDisk /\ call[t].at = "insert" /\ UNCHANGED <<running, entries, hints, saved, since>>
      /\ metadata' = [metadata EXCEPT ![call[t].path] = {call[t].meta}]
  BY DEF StatInsert, SameDisk, IInv, TypeOK, Bounded
<1>2. PICK k \in CallType : k = [call[t] EXCEPT !.at = AfterStat(t)]
  BY <1>0 DEF CallType, AfterStat, Ats
<1>3. /\ call' = [call EXCEPT ![t] = k] /\ k.meta = call[t].meta /\ k.path = call[t].path
      /\ k.seed = call[t].seed /\ k.record = call[t].record /\ k.digest = call[t].digest
      /\ (k.at = "record" /\ k.seed) \/ (k.at = "lookup" /\ ~k.seed)
  BY <1>0, <1>2 DEF StatInsert, CallType, AfterStat
<1>4. /\ StatOf(k.path, k.meta) /\ (k.path \in outputs => k.meta = Meta(file[k.path]))
      /\ k.seed => k.path \in outputs /\ k.digest \in Contents /\ k.digest = file[k.path].content /\ ~k.record
  BY <1>0, <1>1, <1>3 DEF CallOK, Holding
<1>5. CallOK(k)'
  <2>1. CallOK(k)
    BY <1>3, <1>4 DEF CallOK
  <2>. QED BY <1>1, <2>1, SameFiles
<1>6. CallsOK' /\ call' \in [Threads -> CallType]
  BY <1>1, <1>3, <1>5, OneCall
<1>7. TypeOK'
  <2>1. metadata' \in [Paths -> SUBSET Metas]
    BY <1>0, <1>1
  <2>. QED BY <1>1, <1>6, <2>1 DEF IInv, TypeOK, SameDisk, CallType
<1>8. StatsOK'
  <2>1. ASSUME NEW p \in Paths, NEW m \in metadata'[p]
        PROVE  StatOf(p, m)' /\ \/ p \notin outputs' \/ m = Meta(file'[p])
                                \/ \E u \in Threads : On(u, p)' /\ call'[u].at = "invalidate"
    <3>1. CASE p = call[t].path
      <4>1. m = k.meta
        BY <1>0, <1>1, <1>3, <2>1, <3>1
      <4>. QED BY <1>1, <1>3, <1>4, <3>1, <4>1, SameFiles DEF SameDisk
    <3>2. CASE p # call[t].path
      <4>1. m \in metadata[p]
        BY <1>0, <1>1, <2>1, <3>2
      <4>2. StatOf(p, m)'
        BY <1>1, <4>1, SameFiles DEF IInv, StatsOK
      <4>3. \A u \in Threads : On(u, p) /\ call[u].at = "invalidate" => On(u, p)' /\ call'[u].at = "invalidate"
        BY <1>0, <1>1, <1>3 DEF On
      <4>4. p \notin outputs' \/ m = Meta(file'[p]) \/ \E u \in Threads : On(u, p) /\ call[u].at = "invalidate"
        BY <1>1, <4>1 DEF IInv, StatsOK, SameDisk
      <4>. QED BY <4>2, <4>3, <4>4
    <3>. QED BY <3>1, <3>2
  <2>. QED BY <2>1 DEF StatsOK
<1>9. AllTrusted' /\ Alone'
  BY <1>1, <1>3, KeepsRecords, GoesOn DEF Recorded
<1>. QED BY <1>1, <1>6, <1>7, <1>8, <1>9, SameFiles DEF IInv

(* A record that is current answers.                                        *)
LEMMA LookupHitInv ==
  ASSUME IInv, NEW t \in Threads, LookupHit(t)
  PROVE  IInv'
<1>0. /\ call[t] \in CallType /\ call \in [Threads -> CallType] /\ call[t].path \in Paths
      /\ CallOK(call[t]) /\ Recorded \subseteq Records
  BY DEF IInv, TypeOK, CallType, CallsOK, Recorded
<1>1. /\ SameDisk /\ call[t].at = "lookup"
      /\ UNCHANGED <<running, metadata, hints, saved, since>>
  BY DEF LookupHit, SameDisk, IInv, TypeOK, Bounded
<1>2. PICK r \in Recorded : /\ call' = [call EXCEPT ![t].at = "return", ![t].digest = r.digest]
                            /\ entries' \subseteq Recorded
  BY <1>0 DEF LookupHit, Hits, Hinted, Recorded, Insert
<1>3. PICK k \in CallType : k = [call[t] EXCEPT !.at = "return", !.digest = r.digest]
  BY <1>0 DEF CallType, Ats, Records
<1>4. /\ call' = [call EXCEPT ![t] = k] /\ k.at = "return" /\ k.path = call[t].path
      /\ k.seed = call[t].seed
  BY <1>0, <1>2, <1>3 DEF CallType
<1>5. CallOK(k)'
  BY <1>0, <1>1, <1>4 DEF CallOK, Holding
<1>. QED BY <1>1, <1>2, <1>4, <1>5, MovesOn

(* Otherwise the fence decides whether the digest will be recorded.         *)
LEMMA LookupMissInv ==
  ASSUME IInv, NEW t \in Threads, LookupMiss(t)
  PROVE  IInv'
<1>0. /\ call[t] \in CallType /\ call \in [Threads -> CallType] /\ call[t].path \in Paths
      /\ CallOK(call[t]) /\ call[t].meta.mtime \in Nat /\ clock \in Nat /\ fence \in Nat /\ fence <= clock
  BY DEF IInv, TypeOK, CallType, CallsOK, Metas, Bounded
<1>1. /\ SameDisk /\ call[t].at = "lookup"
      /\ UNCHANGED <<running, metadata, entries, hints, saved, since>>
  BY <1>0 DEF LookupMiss, SameDisk
<1>2. PICK b \in BOOLEAN : b = Fenced(fence', call[t].meta.mtime)
  <2>1. Fenced(fence', call[t].meta.mtime) \in BOOLEAN
    BY DEF Fenced
  <2>. QED BY <2>1, Zenon
<1>3. PICK k \in CallType : k = [call[t] EXCEPT !.at = "hash", !.record = b]
  BY <1>0 DEF CallType, Ats
<1>4. /\ call' = [call EXCEPT ![t] = k] /\ k.at = "hash" /\ k.path = call[t].path
      /\ k.seed = call[t].seed /\ k.meta = call[t].meta /\ k.record = b
  BY <1>0, <1>2, <1>3 DEF LookupMiss, CallType
<1>5. CallOK(k)'
  <2>1. /\ StatOf(k.path, k.meta) /\ (k.path \in outputs => k.meta = Meta(file[k.path]))
        /\ ~k.seed
    BY <1>0, <1>1, <1>4 DEF CallOK, Holding
  <2>2. StatOf(k.path, k.meta)'
    BY <1>1, <2>1, SameFiles
  <2>3. k.record => k.meta.mtime < fence'
    BY <1>2, <1>4 DEF Fenced
  <2>. QED BY <1>1, <1>4, <2>1, <2>2, <2>3 DEF CallOK, SameDisk, Meta
<1>6. entries' \subseteq Recorded
  BY <1>1 DEF Recorded
<1>. QED BY <1>1, <1>4, <1>5, <1>6, MovesOn

(* The file is read.                                                        *)
LEMMA HashInv ==
  ASSUME IInv, NEW t \in Threads, Hash(t)
  PROVE  IInv'
<1>0. /\ call[t] \in CallType /\ call \in [Threads -> CallType] /\ call[t].path \in Paths
      /\ CallOK(call[t]) /\ file[call[t].path].content \in Contents
  BY DEF IInv, TypeOK, CallType, CallsOK, Files
<1>1. /\ SameDisk /\ call[t].at = "hash"
      /\ UNCHANGED <<running, metadata, entries, hints, saved, since>>
  BY DEF Hash, SameDisk, cache, IInv, TypeOK, Bounded
<1>2. PICK k \in CallType : k = [call[t] EXCEPT !.at = IF call[t].record THEN "record" ELSE "return",
                                                !.digest = file[call[t].path].content]
  BY <1>0 DEF CallType, Ats
<1>3. /\ call' = [call EXCEPT ![t] = k] /\ k.path = call[t].path /\ k.seed = call[t].seed
      /\ k.meta = call[t].meta /\ k.record = call[t].record
      /\ k.digest = file[call[t].path].content
      /\ (k.at = "record" /\ k.record) \/ k.at = "return"
  BY <1>0, <1>2 DEF Hash, CallType
<1>4. CallOK(k)'
  <2>1. CallOK(k)
    <3>1. StatOf(k.path, k.meta) /\ (k.path \in outputs => k.meta = Meta(file[k.path]))
      BY <1>0, <1>1, <1>3 DEF CallOK, Holding
    <3>2. (k.record => k.meta.mtime < fence) /\ ~k.seed
      BY <1>0, <1>1, <1>3 DEF CallOK
    <3>. QED BY <1>0, <1>3, <3>1, <3>2 DEF CallOK
  <2>. QED BY <1>1, <2>1, SameFiles
<1>5. entries' \subseteq Recorded
  BY <1>1 DEF Recorded
<1>. QED BY <1>1, <1>3, <1>4, <1>5, MovesOn

(* The call returns.                                                        *)
LEMMA ReturnInv ==
  ASSUME IInv, NEW t \in Threads, Return(t)
  PROVE  IInv'
<1>1. /\ SameDisk /\ call[t].at = "return" /\ entries' \subseteq Recorded
      /\ UNCHANGED <<running, metadata, hints, saved, since>>
  BY DEF Return, SameDisk, cache, IInv, TypeOK, Bounded, Recorded
<1>2. PICK k \in CallType : k = Idle
  BY IdleType
<1>3. call' = [call EXCEPT ![t] = k] /\ k.at = "idle" /\ CallOK(k)'
  BY <1>2, IdleType DEF Return, CallOK, Holding
<1>. QED BY <1>1, <1>3, MovesOn

(* What a thread records is trusted: the file of a source can only get a    *)
(* newer mtime, and the stat of an output is exact.                         *)
LEMMA RecordInv ==
  ASSUME IInv, NEW t \in Threads, Record(t)
  PROVE  IInv'
<1>0. /\ call[t] \in CallType /\ call \in [Threads -> CallType] /\ call[t].path \in Paths
      /\ call[t].meta \in Metas /\ CallOK(call[t]) /\ file \in [Paths -> Files] /\ blobs \subseteq Files
      /\ entries \subseteq Records /\ hints \in [Paths -> SUBSET Records]
      /\ clock \in Nat /\ fence \in Nat /\ fence <= clock
  BY DEF IInv, TypeOK, CallType, CallsOK, Bounded
<1>1. /\ SameDisk /\ call[t].at = "record" /\ UNCHANGED <<running, metadata, saved, since>>
  BY <1>0 DEF Record, SameDisk
<1>a. call[t].digest \in Contents
  BY <1>0, <1>1 DEF CallOK
<1>2. PICK r \in Records : r = [id |-> call[t].meta.id, mtime |-> call[t].meta.mtime, digest |-> call[t].digest]
  BY <1>0, <1>a DEF Records, Metas
<1>3. /\ r.id = call[t].meta.id /\ r.mtime = call[t].meta.mtime /\ r.digest = call[t].digest
      /\ entries' = Insert(entries, r) /\ hints' = [hints EXCEPT ![call[t].path] = {r}]
  BY <1>2 DEF Record
<1>4. PICK k \in CallType : k = [call[t] EXCEPT !.at = "return"]
  BY <1>0 DEF CallType, Ats
<1>5. /\ call' = [call EXCEPT ![t] = k] /\ k.at = "return" /\ k.path = call[t].path
      /\ k.seed = call[t].seed /\ k.digest = call[t].digest /\ k.record = call[t].record
  BY <1>0, <1>4 DEF Record, CallType
<1>6. CallOK(k)'
  <2>1. CallOK(k)
    BY <1>0, <1>1, <1>5 DEF CallOK, Holding
  <2>. QED BY <1>1, <2>1, SameFiles
<1>7. CallsOK' /\ call' \in [Threads -> CallType]
  BY <1>1, <1>5, <1>6, OneCall
<1>8. TypeOK'
  <2>1. entries' \subseteq Records /\ hints' \in [Paths -> SUBSET Records]
    BY <1>0, <1>3 DEF Insert
  <2>. QED BY <1>1, <1>7, <2>1 DEF IInv, TypeOK, SameDisk, CallType
<1>9. Trusted(r)
  <2> DEFINE p == call[t].path
  <2>1. /\ StatOf(p, r) /\ (p \in outputs => r.id = file[p].id /\ r.mtime = file[p].mtime)
        /\ Current(r, file[p]) => file[p].content = r.digest
        /\ p \notin outputs => r.mtime < clock
    <3>1. StatOf(p, call[t].meta) /\ (p \in outputs => call[t].meta = Meta(file[p]))
      BY <1>0, <1>1 DEF CallOK, Holding
    <3>2. Current(call[t].meta, file[p]) => file[p].content = r.digest
      BY <1>0, <1>1, <1>3 DEF CallOK
    <3>3. p \notin outputs => call[t].meta.mtime < fence
      BY <1>0, <1>1 DEF CallOK
    <3>4. p \notin outputs => r.mtime < clock
      BY <1>0, <1>3, <3>3 DEF Metas
    <3>. QED BY <1>3, <3>1, <3>2, <3>4 DEF StatOf, Meta, Current
  <2> HIDE DEF p
  <2>p. p \in Paths
    BY <1>0 DEF p
  <2>2. ASSUME NEW q \in Paths, file[q].id = r.id
        PROVE  Safe(r, file[q], q \notin outputs)
    <3>1. CASE p \notin outputs
      <4>1. q = p
        BY <2>1, <2>2, <3>1 DEF StatOf
      <4>. QED BY <2>1, <3>1, <4>1 DEF Safe, Current
    <3>2. CASE p \in outputs
      <4>1. q \in outputs /\ file[q] = file[p]
        BY <2>1, <2>2, <2>p, <3>2 DEF IInv, Owned
      <4>2. r.mtime \in Nat
        BY DEF Records
      <4>. QED BY <2>1, <3>2, <4>1, <4>2 DEF Safe, Current
    <3>. QED BY <3>1, <3>2
  <2>3. ASSUME NEW b \in blobs, b.id = r.id
        PROVE  Safe(r, b, FALSE)
    <3>1. p \in outputs
      BY <2>1, <2>3 DEF StatOf
    <3>2. file[p] = b
      BY <2>1, <2>3, <2>p, <3>1 DEF IInv, Owned
    <3>3. r.mtime \in Nat
      BY DEF Records
    <3>. QED BY <2>1, <3>1, <3>2, <3>3 DEF Safe, Current
  <2>4. r.id < inodes
    BY <2>1 DEF StatOf
  <2>5. \A q \in Paths : Safe(r, file[q], q \notin outputs)
    BY <2>2 DEF Safe
  <2>6. \A b \in blobs : Safe(r, b, FALSE)
    BY <2>3 DEF Safe
  <2>. QED BY <2>4, <2>5, <2>6 DEF Trusted
<1>10. AllTrusted'
  <2>1. \A x : x \in Recorded' => x \in Recorded \/ x = r
    BY <1>0, <1>1, <1>3 DEF Recorded, Insert
  <2>2. Trusted(r)'
    BY <1>1, <1>9, SameFiles
  <2>. QED BY <1>1, <2>1, <2>2, SameFiles DEF IInv, AllTrusted
<1>11. StatsOK' /\ Alone'
  BY <1>1, <1>5, KeepsStats, GoesOn
<1>. QED BY <1>1, <1>7, <1>8, <1>10, <1>11, SameFiles DEF IInv

(* The stat from before the link is dropped.                                *)
LEMMA SeedInvalidateInv ==
  ASSUME IInv, NEW t \in Threads, SeedInvalidate(t)
  PROVE  IInv'
<1>0. /\ call[t] \in CallType /\ call \in [Threads -> CallType] /\ call[t].path \in Paths
      /\ metadata \in [Paths -> SUBSET Metas] /\ CallOK(call[t])
  BY DEF IInv, TypeOK, CallType, CallsOK
<1>1. /\ SameDisk /\ call[t].at = "invalidate" /\ UNCHANGED <<running, entries, hints, saved, since>>
      /\ metadata' = [metadata EXCEPT ![call[t].path] = {}]
  BY DEF SeedInvalidate, SameDisk, IInv, TypeOK, Bounded
<1>2. PICK k \in CallType : k = [call[t] EXCEPT !.at = "stat"]
  BY <1>0 DEF CallType, Ats
<1>3. /\ call' = [call EXCEPT ![t] = k] /\ k.at = "stat" /\ k.path = call[t].path
      /\ k.seed = call[t].seed /\ k.record = call[t].record /\ k.digest = call[t].digest
  BY <1>0, <1>2 DEF SeedInvalidate, CallType
<1>4. CallOK(k)'
  <2>1. CallOK(k)
    BY <1>0, <1>1, <1>3 DEF CallOK, Holding
  <2>. QED BY <1>1, <2>1, SameFiles
<1>5. CallsOK' /\ call' \in [Threads -> CallType]
  BY <1>1, <1>3, <1>4, OneCall
<1>6. TypeOK'
  <2>1. metadata' \in [Paths -> SUBSET Metas]
    BY <1>0, <1>1
  <2>. QED BY <1>1, <1>5, <2>1 DEF IInv, TypeOK, SameDisk, CallType
<1>7. StatsOK'
  <2>1. ASSUME NEW p \in Paths, NEW m \in metadata'[p]
        PROVE  StatOf(p, m)' /\ \/ p \notin outputs' \/ m = Meta(file'[p])
                                \/ \E u \in Threads : On(u, p)' /\ call'[u].at = "invalidate"
    <3>1. p # call[t].path /\ m \in metadata[p]
      BY <1>0, <1>1, <2>1
    <3>2. StatOf(p, m)'
      BY <1>1, <3>1, SameFiles DEF IInv, StatsOK
    <3>3. \A u \in Threads : On(u, p) /\ call[u].at = "invalidate" => On(u, p)' /\ call'[u].at = "invalidate"
      BY <1>0, <1>1, <1>3, <3>1 DEF On
    <3>4. p \notin outputs' \/ m = Meta(file'[p]) \/ \E u \in Threads : On(u, p) /\ call[u].at = "invalidate"
      BY <1>1, <3>1 DEF IInv, StatsOK, SameDisk
    <3>. QED BY <3>2, <3>3, <3>4
  <2>. QED BY <2>1 DEF StatsOK
<1>8. AllTrusted' /\ Alone'
  BY <1>1, <1>3, KeepsRecords, GoesOn DEF Recorded
<1>. QED BY <1>1, <1>5, <1>6, <1>7, <1>8, SameFiles DEF IInv

(* A link to a blob takes over what was known of the blob.                  *)
LEMMA LinkInv ==
  ASSUME IInv, NEW t \in Threads, NEW p \in Paths, Link(t, p)
  PROVE  IInv'
<1>0. /\ call \in [Threads -> CallType] /\ file \in [Paths -> Files] /\ blobs \subseteq Files
      /\ since \in [Paths -> SUBSET Contents] /\ running /\ call[t].at = "idle" /\ p \in outputs
      /\ \A u \in Threads : ~On(u, p)
      /\ UNCHANGED <<outputs, clock, inodes, blobs, running, fence, metadata, entries, hints, saved>>
  BY DEF IInv, TypeOK, CallType, Link, cache
<1>1. PICK b \in blobs :
        /\ file' = [file EXCEPT ![p] = b]
        /\ call' = [call EXCEPT ![t] = [Idle EXCEPT !.at = "invalidate", !.path = p,
                                                    !.seed = TRUE, !.digest = b.content]]
  BY DEF Link
<1>2. PICK k \in CallType : k = [Idle EXCEPT !.at = "invalidate", !.path = p,
                                             !.seed = TRUE, !.digest = b.content]
  BY <1>0, IdleType DEF CallType, Ats, Files
<1>3. /\ call' = [call EXCEPT ![t] = k] /\ k.at = "invalidate" /\ k.path = p /\ k.seed
      /\ k.digest = b.content /\ ~k.record /\ b.content \in Contents /\ b \in Files
  BY <1>0, <1>1, <1>2, IdleType DEF CallType, Files
<1>4. TypeOK'
  <2>1. file' \in [Paths -> Files] /\ call' \in [Threads -> CallType]
    BY <1>0, <1>1, <1>3
  <2>2. since' \in [Paths -> SUBSET Contents]
    BY <1>0, <2>1 DEF Link, Seen, Files
  <2>. QED BY <1>0, <2>1, <2>2 DEF IInv, TypeOK, CallType
<1>5. Bounded' /\ Owned'
  BY <1>0, <1>1 DEF IInv, Bounded, Owned
<1>6. \A r : Trusted(r) => Trusted(r)'
  BY <1>0, <1>1 DEF Trusted, Safe
<1>7. \A q, m : StatOf(q, m) => StatOf(q, m)'
  BY <1>0, <1>1 DEF StatOf
<1>8. AllTrusted'
  BY <1>0, <1>6 DEF IInv, AllTrusted, Recorded
<1>9. StatsOK'
  <2>1. ASSUME NEW q \in Paths, NEW m \in metadata[q]
        PROVE  \/ q \notin outputs \/ m = Meta(file'[q])
               \/ \E u \in Threads : On(u, q)' /\ call'[u].at = "invalidate"
    <3>1. CASE q = p
      <4>1. On(t, p)' /\ call'[t].at = "invalidate"
        BY <1>0, <1>3 DEF On
      <4>. QED BY <3>1, <4>1
    <3>2. CASE q # p
      <4>1. \A u \in Threads : On(u, q) => On(u, q)' /\ call'[u] = call[u]
        BY <1>0, <1>3 DEF On
      <4>. QED BY <1>0, <1>1, <3>2, <4>1 DEF IInv, StatsOK
    <3>. QED BY <3>1, <3>2
  <2>. QED BY <1>0, <1>7, <2>1 DEF IInv, StatsOK
<1>10. CallsOK'
  <2>1. CallOK(k)'
    BY <1>0, <1>1, <1>3 DEF CallOK, Holding
  <2>2. ASSUME NEW u \in Threads, u # t PROVE CallOK(call[u])'
    <3>0. call'[u] = call[u]
      BY <1>0, <1>3, <2>2
    <3>1. CallOK(call[u]) /\ (call[u].at = "idle" \/ call[u].path # p)
      BY <1>0 DEF IInv, CallsOK, On
    <3>2. CASE call[u].at = "idle"
      BY <3>0, <3>2 DEF CallOK, Holding
    <3>3. CASE call[u].path # p
      <4>1. file'[call[u].path] = file[call[u].path]
        BY <1>0, <1>1, <3>3
      <4>. QED BY <1>0, <1>7, <3>0, <3>1, <4>1 DEF CallOK, Meta, Current
    <3>. QED BY <3>1, <3>2, <3>3
  <2>3. CallOK(call[t])'
    <3>1. call'[t] = k
      BY <1>0, <1>3
    <3>. QED BY <2>1, <3>1 DEF CallOK, StatOf, Meta, Current
  <2>. QED BY <2>2, <2>3 DEF CallsOK
<1>11. Alone'
  <2>1. \A u \in Threads : \A q : Linking(u, q)' => Linking(u, q) \/ (u = t /\ q = p)
    BY <1>0, <1>3 DEF Linking, On
  <2>2. \A u \in Threads : \A q : On(u, q)' => On(u, q) \/ (u = t /\ q = p)
    BY <1>0, <1>3 DEF On
  <2>. QED BY <1>0, <2>1, <2>2 DEF IInv, Alone, Linking
<1>. QED BY <1>4, <1>5, <1>8, <1>9, <1>10, <1>11 DEF IInv

-----------------------------------------------------------------------------
(* The steps of the file system, of the user and of a process.              *)

(* Time passes: what is older than now stays older.                         *)
LEMMA TickInv ==
  ASSUME IInv, Tick
  PROVE  IInv'
<1>1. /\ clock \in Nat /\ clock' = clock + 1
      /\ UNCHANGED <<outputs, inodes, file, blobs, running, fence, metadata, entries, hints, saved, call, since>>
  BY DEF Tick, cache, IInv, TypeOK
<1>2. TypeOK'
  BY <1>1 DEF IInv, TypeOK
<1>3. Bounded'
  BY <1>1 DEF IInv, TypeOK, Files, Bounded
<1>4. AllTrusted'
  <2>1. Recorded' = Recorded /\ Recorded \subseteq Records
    BY <1>1 DEF Recorded, IInv, TypeOK
  <2>2. ASSUME NEW r \in Records, Trusted(r) PROVE Trusted(r)'
    BY <1>1, <2>2 DEF Trusted, Safe, Records
  <2>. QED BY <2>1, <2>2 DEF IInv, AllTrusted
<1>5. Owned' /\ StatsOK' /\ CallsOK' /\ Alone'
  BY <1>1 DEF IInv, Owned, StatsOK, StatOf, CallsOK, CallOK, Alone, Quiet, Linking, On
<1>. QED BY <1>2, <1>3, <1>4, <1>5 DEF IInv

(* A new blob has an inode nothing was recorded about.                      *)
LEMMA PutBlobInv ==
  ASSUME IInv, NEW c \in Contents, PutBlob(c)
  PROVE  IInv'
<1>0. inodes \in Nat /\ clock \in Nat /\ blobs \subseteq Files /\ file \in [Paths -> Files]
  BY DEF IInv, TypeOK
<1>1. PICK b \in Files : b = [id |-> inodes, mtime |-> clock, content |-> c]
  BY <1>0 DEF Files
<1>2. /\ b.id = inodes /\ b.mtime = clock /\ b.content = c
      /\ blobs' = blobs \cup {b} /\ inodes' = inodes + 1
      /\ UNCHANGED <<outputs, clock, file, running, fence, metadata, entries, hints, saved, call, since>>
  BY <1>1 DEF PutBlob, cache
<1>3. TypeOK'
  BY <1>0, <1>2 DEF IInv, TypeOK
<1>4. Bounded'
  BY <1>0, <1>2 DEF IInv, Bounded, Files
<1>5. Owned'
  <2>1. \A p \in Paths : file[p].id # b.id
    BY <1>0, <1>2 DEF IInv, Bounded, Files
  <2>2. \A d \in blobs : d.id # b.id
    BY <1>0, <1>2 DEF IInv, Bounded, Files
  <2>. QED BY <1>2, <2>1, <2>2 DEF IInv, Owned
<1>6. AllTrusted'
  <2>1. Recorded' = Recorded /\ Recorded \subseteq Records
    BY <1>2 DEF Recorded, IInv, TypeOK
  <2>2. ASSUME NEW r \in Records, Trusted(r) PROVE Trusted(r)'
    BY <1>0, <1>2, <2>2 DEF Trusted, Safe, Records
  <2>. QED BY <2>1, <2>2 DEF IInv, AllTrusted
<1>7. \A p : \A m \in Metas : StatOf(p, m) => StatOf(p, m)'
  BY <1>0, <1>2 DEF StatOf, Metas
<1>8. StatsOK'
  <2>1. \A p \in Paths : metadata[p] \subseteq Metas
    BY DEF IInv, TypeOK
  <2>. QED BY <1>2, <1>7, <2>1 DEF IInv, StatsOK, On
<1>9. CallsOK'
  <2>1. \A t \in Threads : call[t].meta \in Metas
    BY DEF IInv, TypeOK
  <2>. QED BY <1>2, <1>7, <2>1 DEF IInv, CallsOK, CallOK
<1>10. Alone'
  BY <1>2 DEF IInv, Alone, Quiet, Linking, On
<1>. QED BY <1>3, <1>4, <1>5, <1>6, <1>8, <1>9, <1>10 DEF IInv

(* No call and no stat depends on an output that may be edited.             *)
LEMMA EditedOutput ==
  ASSUME IInv, NEW p \in Paths, p \in outputs, Editable(p)
  PROVE  Quiet /\ \A q \in Paths : metadata[q] = {}
BY DEF IInv, Alone, Editable

(* An edit in place makes the file newer than every record of its inode.    *)
LEMMA WriteInv ==
  ASSUME IInv, NEW p \in Paths, NEW c \in Contents, Write(p, c)
  PROVE  IInv'
<1>0. /\ clock \in Nat /\ inodes \in Nat /\ fence \in Nat /\ fence <= clock
      /\ file \in [Paths -> Files] /\ blobs \subseteq Files /\ Editable(p)
      /\ UNCHANGED <<outputs, clock, inodes, running, fence, metadata, entries, hints, saved, call>>
      /\ blobs' = {b \in blobs : b.id # file[p].id}
  BY DEF IInv, TypeOK, Bounded, Write, cache
<1>1. PICK f \in Files : f = [id |-> file[p].id, mtime |-> clock, content |-> c]
  BY <1>0 DEF Files
<1>2. /\ f.id = file[p].id /\ f.mtime = clock /\ f.content = c
      /\ file' = [q \in Paths |-> IF file[q].id = file[p].id THEN f ELSE file[q]]
  BY <1>1 DEF Write
<1>3. TypeOK'
  <2>1. file' \in [Paths -> Files] /\ blobs' \subseteq Files
    BY <1>0, <1>2
  <2>2. since' \in [Paths -> SUBSET Contents]
    BY <2>1 DEF IInv, TypeOK, Write, Seen, Files
  <2>. QED BY <1>0, <2>1, <2>2 DEF IInv, TypeOK
<1>4. \A q \in Paths : file'[q].id = file[q].id
  BY <1>2
<1>5. Bounded'
  BY <1>0, <1>2 DEF IInv, Bounded
<1>6. Owned'
  BY <1>0, <1>2 DEF IInv, Owned
<1>7. ASSUME NEW r \in Records, Trusted(r) PROVE Trusted(r)'
  <2>0. r.mtime \in Nat
    BY DEF Records
  <2>1. ASSUME NEW q \in Paths, file'[q].id = r.id
        PROVE  Safe(r, file'[q], q \notin outputs)
    <3>1. Safe(r, file[q], q \notin outputs) /\ file[q].id = r.id
      BY <1>4, <1>7, <2>1 DEF Trusted
    <3>2. CASE file[q].id # file[p].id
      BY <1>2, <3>1, <3>2
    <3>3. CASE file[q].id = file[p].id /\ q \notin outputs
      <4>1. file'[q] = f /\ r.mtime < clock
        BY <1>2, <3>1, <3>3 DEF Safe
      <4>. QED BY <1>0, <1>2, <2>0, <3>3, <4>1 DEF Safe
    <3>4. CASE file[q].id = file[p].id /\ q \in outputs
      <4>1. p \in outputs /\ file[q] = file[p]
        BY <3>4 DEF IInv, Owned
      <4>2. file[p].mtime < clock /\ r.mtime <= file[p].mtime /\ file[p].mtime \in Nat
        BY <1>0, <3>1, <3>4, <4>1 DEF Editable, Safe, Files
      <4>3. file'[q] = f
        BY <1>2, <3>4
      <4>. QED BY <1>0, <1>2, <2>0, <3>4, <4>2, <4>3 DEF Safe
    <3>. QED BY <3>2, <3>3, <3>4
  <2>2. \A q \in Paths : Safe(r, file'[q], q \notin outputs)
    BY <2>1 DEF Safe
  <2>. QED BY <1>0, <1>7, <2>2 DEF Trusted, Safe
<1>8. AllTrusted'
  <2>1. Recorded' = Recorded /\ Recorded \subseteq Records
    BY <1>0 DEF Recorded, IInv, TypeOK
  <2>. QED BY <1>7, <2>1 DEF IInv, AllTrusted
<1>9. \A q, m : StatOf(q, m) => StatOf(q, m)'
  BY <1>0, <1>4 DEF StatOf
<1>10. CASE p \in outputs
  <2>1. Quiet /\ \A q \in Paths : metadata[q] = {}
    BY <1>0, <1>10, EditedOutput
  <2>2. StatsOK' /\ CallsOK' /\ Alone'
    BY <1>0, <2>1 DEF IInv, StatsOK, CallsOK, CallOK, Holding, Alone, Quiet, Linking, On
  <2>. QED BY <1>3, <1>5, <1>6, <1>8, <2>2 DEF IInv
<1>11. CASE p \notin outputs
  <2>1. \A q \in Paths : q # p => file'[q] = file[q]
    BY <1>2, <1>11 DEF IInv, Owned
  <2>2. StatsOK'
    BY <1>0, <1>9, <1>11, <2>1 DEF IInv, StatsOK, On
  <2>3. ASSUME NEW t \in Threads PROVE CallOK(call[t])'
    <3>1. CallOK(call[t]) /\ call[t].path \in Paths /\ call[t].meta.mtime \in Nat /\ call'[t] = call[t]
      BY <1>0 DEF IInv, TypeOK, Metas, CallsOK
    <3>2. call[t].path \in outputs => file'[call[t].path] = file[call[t].path]
      BY <1>11, <2>1, <3>1
    <3>3. call[t].at = "record" /\ call[t].path \notin outputs /\ Current(call[t].meta, file'[call[t].path])
            => file'[call[t].path] = file[call[t].path]
      <4>1. call[t].at = "record" /\ call[t].path \notin outputs => call[t].meta.mtime < fence
        BY <3>1 DEF CallOK
      <4>. QED BY <1>0, <1>2, <2>1, <3>1, <4>1 DEF Current
    <3>. QED BY <1>0, <1>9, <3>1, <3>2, <3>3 DEF CallOK, Meta
  <2>4. CallsOK' /\ Alone'
    BY <1>0, <2>3 DEF IInv, CallsOK, Alone, Quiet, Linking, On
  <2>. QED BY <1>3, <1>5, <1>6, <1>8, <2>2, <2>4 DEF IInv
<1>. QED BY <1>10, <1>11

(* A new file has an inode nothing was recorded about.                      *)
LEMMA ReplaceInv ==
  ASSUME IInv, NEW p \in Paths, NEW c \in Contents, Replace(p, c)
  PROVE  IInv'
<1>0. /\ clock \in Nat /\ inodes \in Nat /\ file \in [Paths -> Files] /\ blobs \subseteq Files /\ Editable(p)
      /\ UNCHANGED <<outputs, clock, blobs, running, fence, metadata, entries, hints, saved, call>>
      /\ inodes' = inodes + 1
  BY DEF IInv, TypeOK, Replace, cache
<1>1. PICK f \in Files : f = [id |-> inodes, mtime |-> clock, content |-> c]
  BY <1>0 DEF Files
<1>2. f.id = inodes /\ f.mtime = clock /\ file' = [file EXCEPT ![p] = f]
  BY <1>1 DEF Replace
<1>3. TypeOK'
  <2>1. file' \in [Paths -> Files]
    BY <1>0, <1>2
  <2>2. since' \in [Paths -> SUBSET Contents]
    BY <2>1 DEF IInv, TypeOK, Replace, Seen, Files
  <2>. QED BY <1>0, <2>1, <2>2 DEF IInv, TypeOK
<1>4. Bounded'
  BY <1>0, <1>2 DEF IInv, Bounded, Files
<1>5. Owned'
  <2>1. (\A q \in Paths : file[q].id # f.id) /\ (\A b \in blobs : b.id # f.id)
    BY <1>0, <1>2 DEF IInv, Bounded, Files
  <2>2. \A q \in Paths : file'[q] = IF q = p THEN f ELSE file[q]
    BY <1>0, <1>2
  <2>. QED BY <1>0, <2>1, <2>2 DEF IInv, Owned
<1>6. AllTrusted'
  <2>1. Recorded' = Recorded /\ Recorded \subseteq Records
    BY <1>0 DEF Recorded, IInv, TypeOK
  <2>2. ASSUME NEW r \in Records, Trusted(r) PROVE Trusted(r)'
    BY <1>0, <1>2, <2>2 DEF Trusted, Safe, Records
  <2>. QED BY <2>1, <2>2 DEF IInv, AllTrusted
<1>7. \A q : \A m \in Metas : StatOf(q, m) => StatOf(q, m)'
  BY <1>0, <1>2 DEF StatOf, Metas
<1>8. CASE p \in outputs
  <2>1. Quiet /\ \A q \in Paths : metadata[q] = {}
    BY <1>0, <1>8, EditedOutput
  <2>2. StatsOK' /\ CallsOK' /\ Alone'
    BY <1>0, <2>1 DEF IInv, StatsOK, CallsOK, CallOK, Holding, Alone, Quiet, Linking, On
  <2>. QED BY <1>3, <1>4, <1>5, <1>6, <2>2 DEF IInv
<1>9. CASE p \notin outputs
  <2>1. \A q \in Paths : q # p => file'[q] = file[q]
    BY <1>0, <1>2
  <2>2. StatsOK'
    <3>1. \A q \in Paths : metadata[q] \subseteq Metas
      BY DEF IInv, TypeOK
    <3>. QED BY <1>0, <1>7, <1>9, <2>1, <3>1 DEF IInv, StatsOK, On
  <2>3. ASSUME NEW t \in Threads PROVE CallOK(call[t])'
    <3>1. /\ CallOK(call[t]) /\ call[t].path \in Paths /\ call[t].meta \in Metas
          /\ call[t].meta.id \in Nat /\ call'[t] = call[t]
      BY <1>0 DEF IInv, TypeOK, Metas, CallsOK
    <3>2. call[t].path \in outputs => file'[call[t].path] = file[call[t].path]
      BY <1>9, <2>1, <3>1
    <3>3. call[t].at = "record" /\ Current(call[t].meta, file'[call[t].path])
            => file'[call[t].path] = file[call[t].path]
      <4>1. call[t].at = "record" => call[t].meta.id < inodes
        BY <3>1 DEF CallOK, Holding, StatOf
      <4>. QED BY <1>0, <1>2, <2>1, <3>1, <4>1 DEF Current
    <3>. QED BY <1>0, <1>7, <3>1, <3>2, <3>3 DEF CallOK, Meta
  <2>4. CallsOK' /\ Alone'
    BY <1>0, <2>3 DEF IInv, CallsOK, Alone, Quiet, Linking, On
  <2>. QED BY <1>3, <1>4, <1>5, <1>6, <2>2, <2>4 DEF IInv
<1>. QED BY <1>8, <1>9

(* A run starts with a new fence and no stats.                              *)
LEMMA StartInv ==
  ASSUME IInv, Start
  PROVE  IInv'
<1>1. /\ SameDisk /\ Quiet /\ running' = TRUE /\ metadata' = [p \in Paths |-> {}]
      /\ UNCHANGED <<entries, hints, saved, call>>
  BY DEF Start, Forgotten, SameDisk, IInv, TypeOK, Bounded
<1>2. TypeOK'
  BY <1>1 DEF IInv, TypeOK, Files, Start, SameDisk
<1>3. StatsOK' /\ CallsOK' /\ Alone'
  BY <1>1 DEF StatsOK, CallsOK, CallOK, Holding, Alone, Quiet, Linking, On
<1>. QED BY <1>1, <1>2, <1>3, SameFiles, KeepsRecords DEF IInv, Recorded

(* The records are saved.                                                   *)
LEMMA FlushInv ==
  ASSUME IInv, Flush
  PROVE  IInv'
<1>1. /\ SameDisk /\ saved' = hints
      /\ UNCHANGED <<outputs, clock, inodes, file, blobs, running, fence, metadata, entries, hints, call, since>>
  BY DEF Flush, cache, SameDisk, IInv, TypeOK, Bounded
<1>2. TypeOK' /\ Bounded' /\ Owned' /\ StatsOK' /\ CallsOK' /\ Alone'
  BY <1>1 DEF IInv, TypeOK, Bounded, Owned, StatsOK, StatOf, CallsOK, CallOK, Alone, Quiet, Linking, On
<1>3. AllTrusted'
  BY <1>1, KeepsRecords DEF Recorded
<1>. QED BY <1>2, <1>3 DEF IInv

(* A new process knows what was saved, and nothing else.                    *)
LEMMA LoadInv ==
  ASSUME IInv, Load
  PROVE  IInv'
<1>1. /\ running' = FALSE /\ fence' = 0 /\ entries' = {} /\ metadata' = [p \in Paths |-> {}]
      /\ hints' = saved /\ call' = [t \in Threads |-> Idle] /\ since' = [p \in Paths |-> {}]
      /\ UNCHANGED <<outputs, clock, inodes, file, blobs, saved>>
  BY DEF Load, Forgotten
<1>2. TypeOK'
  BY <1>1, IdleType DEF IInv, TypeOK, CallType
<1>3. Bounded' /\ Owned'
  BY <1>1 DEF IInv, TypeOK, Bounded, Owned
<1>4. AllTrusted'
  <2>1. Recorded' \subseteq Recorded
    BY <1>1 DEF Recorded
  <2>. QED BY <1>1, <2>1 DEF IInv, AllTrusted, Trusted, Safe
<1>5. StatsOK' /\ CallsOK' /\ Alone'
  BY <1>1, IdleType DEF StatsOK, CallsOK, CallOK, Holding, Alone, Quiet, Linking, On
<1>. QED BY <1>2, <1>3, <1>4, <1>5 DEF IInv

-----------------------------------------------------------------------------
(* Every step keeps the invariant.                                          *)
LEMMA StepInv == IInv /\ [Next]_vars => IInv'
<1> SUFFICES ASSUME IInv, [Next]_vars PROVE IInv'
  OBVIOUS
<1>1. CASE Tick
  BY <1>1, TickInv
<1>2. CASE Start
  BY <1>2, StartInv
<1>3. CASE Flush
  BY <1>3, FlushInv
<1>4. CASE Load
  BY <1>4, LoadInv
<1>5. CASE \E c \in Contents : PutBlob(c) \/ \E p \in Paths : Write(p, c) \/ Replace(p, c)
  BY <1>5, PutBlobInv, WriteInv, ReplaceInv
<1>6. CASE \E t \in Threads : Step(t)
  <2> PICK t \in Threads : Step(t)
    BY <1>6
  <2>1. CASE \E p \in Paths : Digest(t, p) \/ Link(t, p)
    BY <2>1, DigestInv, LinkInv
  <2>. QED BY <2>1, StatInv, StatInsertInv, LookupHitInv, LookupMissInv, HashInv, RecordInv,
              ReturnInv, SeedInvalidateInv DEF Step
<1>7. CASE UNCHANGED vars
  <2>1. /\ SameDisk /\ \A r : r \in Recorded' => r \in Recorded
        /\ UNCHANGED <<running, fence, metadata, entries, hints, saved, call, since>>
    BY <1>7 DEF vars, cache, SameDisk, Recorded, IInv, TypeOK, Bounded
  <2>2. TypeOK' /\ Bounded' /\ Owned' /\ StatsOK' /\ CallsOK' /\ Alone'
    BY <2>1 DEF SameDisk, IInv, TypeOK, Bounded, Owned, StatsOK, StatOf, CallsOK, CallOK,
                Alone, Quiet, Linking, On
  <2>. QED BY <2>1, <2>2, KeepsRecords DEF IInv
<1>. QED BY <1>1, <1>2, <1>3, <1>4, <1>5, <1>6, <1>7 DEF Next

(* The inductive invariant of the file cache.                               *)
THEOREM CacheInvariance == Spec => []IInv
BY InitInv, StepInv, PTL DEF Spec

(* Every variable of the file cache keeps its type.                         *)
THEOREM CacheTypes == Spec => []TypeOK
<1>1. IInv => TypeOK
  BY DEF IInv
<1>. QED BY <1>1, CacheInvariance, PTL

(* No record of a digest ever lies (spn_dag_file_cache_digest and _seed):   *)
(* one that is current for a path names the content of the file there.      *)
THEOREM NoRecordLies == Spec => []RecordsTrue
BY CacheInvariance, TrustedIsTrue, PTL

-----------------------------------------------------------------------------
(* The stats in use for p: the one in the cache, and those threads hold.    *)
Stats(p) == metadata[p] \cup {call[t].meta : t \in {u \in Threads : call[u].at \in Holding /\ call[u].path = p}}

(* The stat of a source may be older than the last edit.  What is recorded  *)
(* for it is then still something this run has seen there, because an inode *)
(* is the stat of one source only.  (The stat of an output is exact.)       *)
Witnessed ==
  \A p \in Paths \ outputs : \A m \in Stats(p) :
    /\ \A r \in Recorded : Current(r, m) => r.digest \in since[p]
    /\ \A q \in Paths \ {p} : \A n \in Stats(q) : n.id # m.id

Seeing ==
  /\ running => \A p \in Paths : file[p].content \in since[p]
  /\ \A t \in Threads : call[t].at \in {"record", "return"} => call[t].digest \in since[call[t].path]
  /\ Witnessed

(* Every stat in use is one of the path's own inodes.                       *)
LEMMA StatsAreOwn ==
  ASSUME IInv, NEW p \in Paths, NEW m \in Stats(p)
  PROVE  StatOf(p, m)
BY DEF IInv, StatsOK, CallsOK, CallOK, Stats

(* A step of t that takes no stat up that was not in use.                   *)
LEMMA NoNewStat ==
  ASSUME NEW t \in Threads, \A u \in Threads \ {t} : call'[u] = call[u],
         NEW p \in Paths, metadata'[p] \subseteq Stats(p),
         call'[t].at \in Holding /\ call'[t].path = p => call'[t].meta \in Stats(p)
  PROVE  Stats(p)' \subseteq Stats(p)
<1> SUFFICES ASSUME NEW m \in Stats(p)' PROVE m \in Stats(p)
  OBVIOUS
<1>1. CASE m \in metadata'[p]
  BY <1>1
<1>2. CASE m \notin metadata'[p]
  <2>1. PICK u \in Threads : call'[u].at \in Holding /\ call'[u].path = p /\ m = call'[u].meta
    BY <1>2 DEF Stats
  <2>2. CASE u = t
    BY <2>1, <2>2
  <2>3. CASE u # t
    BY <2>1, <2>3 DEF Stats
  <2>. QED BY <2>2, <2>3
<1>. QED BY <1>1, <1>2

(* What is seen stays seen when nothing is taken up or recorded.            *)
LEMMA WitnessKept ==
  ASSUME Seeing, UNCHANGED outputs, \A p \in Paths : since[p] \subseteq since'[p],
         \A p \in Paths : Stats(p)' \subseteq Stats(p), Recorded' \subseteq Recorded
  PROVE  Witnessed'
BY DEF Seeing, Witnessed

(* A step of a thread t that leaves the disk and the run alone.             *)
LEMMA StepSeen ==
  ASSUME IInv, Seeing, NEW t \in Threads, \A u \in Threads \ {t} : call'[u] = call[u],
         UNCHANGED <<outputs, file, running, since>>, Witnessed',
         call'[t].at \in {"record", "return"} => call'[t].digest \in since[call'[t].path]
  PROVE  Seeing'
BY DEF Seeing

(* A digest that is being seeded is the content its thread has just linked. *)
LEMMA SeedIsSeen ==
  ASSUME IInv, Seeing, NEW t \in Threads, call[t].at # "idle", call[t].at # "return", call[t].seed
  PROVE  call[t].digest \in since[call[t].path]
<1>1. running /\ call[t].path \in Paths /\ CallOK(call[t])
  BY DEF IInv, Alone, Quiet, TypeOK, CallsOK
<1>. QED BY <1>1 DEF Seeing, CallOK

(* The steps that neither take a new stat up nor record anything, in terms  *)
(* of what the thread goes on with.                                         *)
LEMMA QuietStepSeen ==
  ASSUME IInv, Seeing, NEW t \in Threads, NEW k \in CallType, call' = [call EXCEPT ![t] = k],
         UNCHANGED <<outputs, file, running, since>>, Recorded' \subseteq Recorded,
         \A p \in Paths : metadata'[p] \subseteq Stats(p),
         k.at \in Holding => k.meta \in Stats(k.path),
         k.at \in {"record", "return"} => k.digest \in since[k.path]
  PROVE  Seeing'
<1>1. call'[t] = k /\ \A u \in Threads \ {t} : call'[u] = call[u]
  BY DEF IInv, TypeOK
<1>2. \A p \in Paths : Stats(p)' \subseteq Stats(p)
  BY <1>1, NoNewStat
<1>3. Witnessed'
  BY <1>2, WitnessKept
<1>. QED BY <1>1, <1>3, StepSeen

(* A thread drops an old stat, or returns.                                  *)
LEMMA EndsSeen ==
  ASSUME IInv, Seeing, NEW t \in Threads, Return(t) \/ SeedInvalidate(t)
  PROVE  Seeing'
<1>0. call \in [Threads -> CallType] /\ metadata \in [Paths -> SUBSET Metas]
  BY DEF IInv, TypeOK, CallType
<1>1. CASE Return(t)
  <2>1. /\ call' = [call EXCEPT ![t] = Idle] /\ UNCHANGED <<outputs, file, running, since>>
        /\ Recorded' = Recorded /\ metadata' = metadata
    BY <1>1 DEF Return, Recorded, cache
  <2>. QED BY <2>1, IdleType, QuietStepSeen DEF Holding, Stats
<1>2. CASE SeedInvalidate(t)
  <2>1. PICK k \in CallType : k = [call[t] EXCEPT !.at = "stat"]
    BY <1>0 DEF CallType, Ats
  <2>2. call' = [call EXCEPT ![t] = k] /\ k.at = "stat"
    BY <1>0, <1>2, <2>1 DEF SeedInvalidate, CallType
  <2>3. /\ UNCHANGED <<outputs, file, running, since>> /\ Recorded' = Recorded
        /\ metadata' = [metadata EXCEPT ![call[t].path] = {}]
    BY <1>2 DEF SeedInvalidate, Recorded
  <2>4. \A p \in Paths : metadata'[p] \subseteq Stats(p)
    BY <1>0, <2>3 DEF Stats
  <2>. QED BY <2>2, <2>3, <2>4, QuietStepSeen DEF Holding
<1>. QED BY <1>1, <1>2

(* A thread starts to look up a digest.                                     *)
LEMMA DigestSeen ==
  ASSUME IInv, Seeing, NEW t \in Threads, NEW p \in Paths, Digest(t, p)
  PROVE  Seeing'
<1>1. PICK k \in CallType : k = [Idle EXCEPT !.at = "stat", !.path = p]
  BY IdleType DEF CallType, Ats
<1>2. /\ call' = [call EXCEPT ![t] = k] /\ k.at = "stat"
      /\ UNCHANGED <<outputs, file, running, since, metadata, entries, hints, saved>>
  BY <1>1, IdleType DEF Digest, CallType, cache
<1>3. Recorded' = Recorded /\ \A q \in Paths : metadata'[q] \subseteq Stats(q)
  BY <1>2 DEF Recorded, Stats
<1>. QED BY <1>2, <1>3, QuietStepSeen DEF Holding

(* A thread uses the stat that is cached, or puts its own there.            *)
LEMMA StatSeen ==
  ASSUME IInv, Seeing, NEW t \in Threads, StatCached(t) \/ StatInsert(t)
  PROVE  Seeing'
<1>0. /\ call \in [Threads -> CallType] /\ call[t] \in CallType /\ call[t].path \in Paths
      /\ metadata \in [Paths -> SUBSET Metas]
  BY DEF IInv, TypeOK, CallType
<1>1. CASE StatCached(t)
  <2>1. PICK m \in metadata[call[t].path] : call' = [call EXCEPT ![t].at = AfterStat(t), ![t].meta = m]
    BY <1>1 DEF StatCached
  <2>2. PICK k \in CallType : k = [call[t] EXCEPT !.at = AfterStat(t), !.meta = m]
    BY <1>0 DEF CallType, AfterStat, Ats
  <2>3. /\ call' = [call EXCEPT ![t] = k] /\ k.at = AfterStat(t) /\ k.meta = m
        /\ k.path = call[t].path /\ k.digest = call[t].digest
    BY <1>0, <2>1, <2>2 DEF CallType
  <2>4. /\ UNCHANGED <<outputs, file, running, since>> /\ Recorded' = Recorded /\ metadata' = metadata
        /\ call[t].at = "stat"
    BY <1>1 DEF StatCached, Recorded, cache
  <2>5. k.at = "lookup" \/ (k.at = "record" /\ k.digest \in since[k.path])
    BY <2>3, <2>4, SeedIsSeen DEF AfterStat
  <2>6. k.meta \in Stats(k.path) /\ \A p \in Paths : metadata'[p] \subseteq Stats(p)
    BY <2>3, <2>4 DEF Stats
  <2>. QED BY <2>3, <2>4, <2>5, <2>6, QuietStepSeen
<1>2. CASE StatInsert(t)
  <2>1. PICK k \in CallType : k = [call[t] EXCEPT !.at = AfterStat(t)]
    BY <1>0 DEF CallType, AfterStat, Ats
  <2>2. /\ call' = [call EXCEPT ![t] = k] /\ k.at = AfterStat(t) /\ k.meta = call[t].meta
        /\ k.path = call[t].path /\ k.digest = call[t].digest
    BY <1>0, <1>2, <2>1 DEF StatInsert, CallType
  <2>3. /\ UNCHANGED <<outputs, file, running, since>> /\ Recorded' = Recorded
        /\ metadata' = [metadata EXCEPT ![call[t].path] = {call[t].meta}]
        /\ call[t].at = "insert"
    BY <1>2 DEF StatInsert, Recorded
  <2>4. k.at = "lookup" \/ (k.at = "record" /\ k.digest \in since[k.path])
    BY <2>2, <2>3, SeedIsSeen DEF AfterStat
  <2>5. k.meta \in Stats(k.path)
    BY <2>2, <2>3 DEF Stats, Holding
  <2>6. \A p \in Paths : metadata'[p] \subseteq Stats(p)
    <3> TAKE p \in Paths
    <3>1. CASE p = call[t].path
      BY <1>0, <2>2, <2>3, <2>5, <3>1
    <3>2. CASE p # call[t].path
      BY <1>0, <2>3, <3>2 DEF Stats
    <3>. QED BY <3>1, <3>2
  <2>. QED BY <2>2, <2>3, <2>4, <2>5, <2>6, QuietStepSeen
<1>. QED BY <1>1, <1>2

(* A record that is current for the stat a thread holds was seen there: for *)
(* a source by Witnessed, for an output because the stat is exact.          *)
LEMMA FoundIsSeen ==
  ASSUME IInv, Seeing, NEW t \in Threads, call[t].at = "lookup",
         NEW r \in Recorded, Current(r, call[t].meta)
  PROVE  r.digest \in since[call[t].path]
<1>1. running /\ call[t].path \in Paths /\ CallOK(call[t])
  BY DEF IInv, Alone, Quiet, TypeOK, CallsOK
<1>2. CASE call[t].path \in outputs
  <2>1. Current(r, file[call[t].path])
    BY <1>1, <1>2 DEF CallOK, Holding, Current, Meta
  <2>. QED BY <1>1, <2>1, TrustedIsTrue DEF RecordsTrue, Seeing
<1>3. CASE call[t].path \notin outputs
  <2>1. call[t].meta \in Stats(call[t].path)
    BY DEF Stats, Holding
  <2>. QED BY <1>1, <1>3, <2>1 DEF Seeing, Witnessed
<1>. QED BY <1>2, <1>3

(* The lookup answers with a record, or sends the thread to hash the file.  *)
LEMMA LookupSeen ==
  ASSUME IInv, Seeing, NEW t \in Threads, LookupHit(t) \/ LookupMiss(t)
  PROVE  Seeing'
<1>0. /\ call \in [Threads -> CallType] /\ call[t] \in CallType /\ call[t].path \in Paths
      /\ Recorded \subseteq Records
  BY DEF IInv, TypeOK, CallType, Recorded
<1>1. /\ UNCHANGED <<outputs, file, running, since, metadata, hints, saved>> /\ call[t].at = "lookup"
      /\ call[t].meta \in Stats(call[t].path)
  BY DEF LookupHit, LookupMiss, Stats, Holding
<1>2. CASE LookupHit(t)
  <2>1. PICK r \in Recorded : /\ Current(r, call[t].meta) /\ entries' \subseteq Recorded
                              /\ call' = [call EXCEPT ![t].at = "return", ![t].digest = r.digest]
    <3>1. \A x \in Hits(t) \cup Hinted(t) : x \in Recorded /\ Current(x, call[t].meta)
      BY <1>0 DEF Hits, Hinted, Recorded
    <3>2. \A x \in Recorded : Insert(entries, x) \subseteq Recorded
      BY DEF Insert, Recorded
    <3>. QED BY <1>2, <3>1, <3>2 DEF LookupHit, Recorded
  <2>2. PICK k \in CallType : k = [call[t] EXCEPT !.at = "return", !.digest = r.digest]
    BY <1>0 DEF CallType, Ats, Records
  <2>3. /\ call' = [call EXCEPT ![t] = k] /\ k.at = "return" /\ k.digest = r.digest
        /\ k.path = call[t].path
    BY <1>0, <2>1, <2>2 DEF CallType
  <2>4. k.digest \in since[k.path]
    BY <1>1, <2>1, <2>3, FoundIsSeen
  <2>5. Recorded' \subseteq Recorded
    BY <1>1, <2>1 DEF Recorded
  <2>6. \A p \in Paths : metadata'[p] \subseteq Stats(p)
    BY <1>1 DEF Stats
  <2>. QED BY <1>1, <2>3, <2>4, <2>5, <2>6, QuietStepSeen DEF Holding
<1>3. CASE LookupMiss(t)
  <2>0. PICK b \in BOOLEAN : b = Fenced(fence', call[t].meta.mtime)
    <3>1. Fenced(fence', call[t].meta.mtime) \in BOOLEAN
      BY DEF Fenced
    <3>. QED BY <3>1, Zenon
  <2>1. PICK k \in CallType : k = [call[t] EXCEPT !.at = "hash", !.record = b]
    BY <1>0 DEF CallType, Ats
  <2>2. call' = [call EXCEPT ![t] = k] /\ k.at = "hash" /\ k.meta = call[t].meta /\ k.path = call[t].path
    BY <1>0, <1>3, <2>0, <2>1 DEF LookupMiss, CallType
  <2>3. Recorded' = Recorded
    BY <1>3 DEF LookupMiss, Recorded
  <2>4. \A p \in Paths : metadata'[p] \subseteq Stats(p)
    BY <1>1 DEF Stats
  <2>. QED BY <1>1, <2>2, <2>3, <2>4, QuietStepSeen
<1>. QED BY <1>2, <1>3

(* A thread hashes the file as it is now.                                   *)
LEMMA HashSeen ==
  ASSUME IInv, Seeing, NEW t \in Threads, Hash(t)
  PROVE  Seeing'
<1>0. /\ call \in [Threads -> CallType] /\ call[t] \in CallType /\ call[t].path \in Paths
      /\ file[call[t].path] \in Files
  BY DEF IInv, TypeOK, CallType
<1>1. /\ UNCHANGED <<outputs, file, running, since, metadata>> /\ Recorded' = Recorded /\ call[t].at = "hash"
  BY DEF Hash, Recorded, cache
<1>2. running
  BY <1>1 DEF IInv, Alone, Quiet
<1>3. PICK k \in CallType : k = [call[t] EXCEPT !.at = IF call[t].record THEN "record" ELSE "return",
                                                !.digest = file[call[t].path].content]
  BY <1>0 DEF CallType, Ats, Files
<1>4. /\ call' = [call EXCEPT ![t] = k] /\ k.at \in {"record", "return"} /\ k.meta = call[t].meta
      /\ k.path = call[t].path /\ k.digest = file[call[t].path].content
  BY <1>0, <1>3 DEF Hash, CallType
<1>5. k.digest \in since[k.path]
  BY <1>0, <1>2, <1>4 DEF Seeing
<1>6. k.meta \in Stats(k.path) /\ \A p \in Paths : metadata'[p] \subseteq Stats(p)
  BY <1>1, <1>4 DEF Stats, Holding
<1>. QED BY <1>1, <1>4, <1>5, <1>6, QuietStepSeen

(* A thread stats the file: a record that is current for it is true, and    *)
(* the file's inode is not in use for another source.                       *)
LEMMA StatFileSeen ==
  ASSUME IInv, Seeing, NEW t \in Threads, StatFile(t)
  PROVE  Seeing'
<1>0. /\ call \in [Threads -> CallType] /\ call[t] \in CallType /\ call[t].path \in Paths
      /\ file[call[t].path] \in Files /\ Meta(file[call[t].path]) \in Metas
  BY DEF IInv, TypeOK, CallType, Files, Meta, Metas
<1>1. /\ UNCHANGED <<outputs, file, running, since, metadata>> /\ Recorded' = Recorded /\ call[t].at = "stat"
  BY DEF StatFile, Recorded, cache
<1>2. running
  BY <1>1 DEF IInv, Alone, Quiet
<1>3. PICK k \in CallType : k = [call[t] EXCEPT !.at = "insert", !.meta = Meta(file[call[t].path])]
  BY <1>0 DEF CallType, Ats
<1>4. /\ call' = [call EXCEPT ![t] = k] /\ k.at = "insert" /\ k.meta = Meta(file[k.path])
      /\ k.path = call[t].path
  BY <1>0, <1>3 DEF StatFile, CallType
<1>5. call'[t] = k /\ \A u \in Threads \ {t} : call'[u] = call[u]
  BY <1>0, <1>4
<1>6. \A p \in Paths : \A m \in Stats(p)' : m \in Stats(p) \/ (p = k.path /\ m = k.meta)
  <2> TAKE p \in Paths
  <2> TAKE m \in Stats(p)'
  <2>1. CASE m \in metadata[p]
    BY <2>1 DEF Stats
  <2>2. CASE m \notin metadata[p]
    <3>1. PICK u \in Threads : call'[u].at \in Holding /\ call'[u].path = p /\ m = call'[u].meta
      BY <1>1, <2>2 DEF Stats
    <3>. QED BY <1>5, <3>1 DEF Stats
  <2>. QED BY <2>1, <2>2
<1>7. Witnessed'
  <2> SUFFICES ASSUME NEW p \in Paths \ outputs, NEW m \in Stats(p)'
               PROVE  /\ \A r \in Recorded : Current(r, m) => r.digest \in since[p]
                      /\ \A q \in Paths \ {p} : \A n \in Stats(q)' : n.id # m.id
    BY <1>1 DEF Witnessed
  <2>1. \A r \in Recorded : Current(r, m) => r.digest \in since[p]
    <3>1. CASE m \in Stats(p)
      BY <3>1 DEF Seeing, Witnessed
    <3>2. CASE p = k.path /\ m = k.meta
      <4>1. \A r \in Recorded : Current(r, m) => Current(r, file[p])
        BY <1>4, <3>2 DEF Current, Meta
      <4>. QED BY <1>2, <4>1, TrustedIsTrue DEF RecordsTrue, Seeing
    <3>. QED BY <1>6, <3>1, <3>2
  <2>2. ASSUME NEW q \in Paths \ {p}, NEW n \in Stats(q)' PROVE n.id # m.id
    <3>1. CASE m \in Stats(p) /\ n \in Stats(q)
      BY <3>1 DEF Seeing, Witnessed
    <3>2. CASE p = k.path /\ m = k.meta /\ n \in Stats(q)
      BY <1>4, <3>2, StatsAreOwn DEF StatOf, Meta
    <3>3. CASE q = k.path /\ n = k.meta /\ m \in Stats(p)
      BY <1>4, <3>3, StatsAreOwn DEF StatOf, Meta
    <3>. QED BY <1>6, <3>1, <3>2, <3>3
  <2>. QED BY <2>1, <2>2
<1>. QED BY <1>1, <1>4, <1>5, <1>7, StepSeen

(* A thread records what it hashed or linked.  No other source has a stat   *)
(* of this inode that could now find the record.                            *)
LEMMA RecordSeen ==
  ASSUME IInv, Seeing, NEW t \in Threads, Record(t)
  PROVE  Seeing'
<1>0. /\ call \in [Threads -> CallType] /\ call[t] \in CallType /\ call[t].path \in Paths
      /\ hints \in [Paths -> SUBSET Records]
  BY DEF IInv, TypeOK, CallType
<1>1. UNCHANGED <<outputs, file, running, since, metadata, saved>> /\ call[t].at = "record"
  BY DEF Record
<1>2. PICK r : /\ r = [id |-> call[t].meta.id, mtime |-> call[t].meta.mtime, digest |-> call[t].digest]
               /\ entries' = Insert(entries, r)
               /\ hints' = [hints EXCEPT ![call[t].path] = {r}]
  BY DEF Record
<1>3. Recorded' \subseteq Recorded \cup {r}
  BY <1>0, <1>1, <1>2 DEF Recorded, Insert
<1>4. PICK k \in CallType : k = [call[t] EXCEPT !.at = "return"]
  BY <1>0 DEF CallType, Ats
<1>5. call' = [call EXCEPT ![t] = k] /\ k.at = "return" /\ k.path = call[t].path /\ k.digest = call[t].digest
  BY <1>0, <1>4 DEF Record, CallType
<1>6. call'[t] = k /\ \A u \in Threads \ {t} : call'[u] = call[u]
  BY <1>0, <1>5
<1>7. call[t].meta \in Stats(call[t].path) /\ call[t].digest \in since[call[t].path]
  BY <1>1 DEF Stats, Holding, Seeing
<1>8. \A p \in Paths : Stats(p)' \subseteq Stats(p)
  <2> TAKE p \in Paths
  <2>1. metadata'[p] \subseteq Stats(p) /\ call'[t].at \notin Holding
    BY <1>1, <1>5, <1>6 DEF Stats, Holding
  <2>. QED BY <1>6, <2>1, NoNewStat
<1>9. Witnessed'
  <2> SUFFICES ASSUME NEW p \in Paths \ outputs, NEW m \in Stats(p)
               PROVE  /\ \A x \in Recorded' : Current(x, m) => x.digest \in since[p]
                      /\ \A q \in Paths \ {p} : \A n \in Stats(q)' : n.id # m.id
    BY <1>1, <1>8 DEF Witnessed
  <2>1. \A q \in Paths \ {p} : \A n \in Stats(q) : n.id # m.id
    BY DEF Seeing, Witnessed
  <2>2. Current(r, m) => p = call[t].path
    BY <1>0, <1>2, <1>7, <2>1 DEF Current
  <2>3. \A x \in Recorded : Current(x, m) => x.digest \in since[p]
    BY DEF Seeing, Witnessed
  <2>. QED BY <1>2, <1>3, <1>7, <1>8, <2>1, <2>2, <2>3
<1>. QED BY <1>1, <1>5, <1>6, <1>7, <1>9, StepSeen

(* An edit or a link changes files, and what is there is seen.              *)
LEMMA EditSeen ==
  ASSUME IInv, Seeing, file' \in [Paths -> Files], Seen, UNCHANGED <<outputs, running>>,
         Recorded' = Recorded, \A p \in Paths : Stats(p)' \subseteq Stats(p),
         \A t \in Threads : call'[t] = call[t] \/ call'[t].at \notin {"record", "return"}
  PROVE  Seeing'
<1>0. since \in [Paths -> SUBSET Contents]
  BY DEF IInv, TypeOK
<1>1. /\ \A p \in Paths : since[p] \subseteq since'[p]
      /\ running => \A p \in Paths : file'[p].content \in since'[p]
  BY <1>0 DEF Seen
<1>2. Witnessed'
  BY <1>1, WitnessKept
<1>3. ASSUME NEW t \in Threads, call'[t].at \in {"record", "return"}
      PROVE  call'[t].digest \in since'[call'[t].path]
  <2>1. call[t].path \in Paths /\ call'[t] = call[t]
    BY <1>3 DEF IInv, TypeOK
  <2>. QED BY <1>1, <1>3, <2>1 DEF Seeing
<1>. QED BY <1>1, <1>2, <1>3 DEF Seeing

(* The user's edits.                                                        *)
LEMMA ChangeSeen ==
  ASSUME IInv, IInv', Seeing, NEW p \in Paths, \E c \in Contents : Write(p, c) \/ Replace(p, c)
  PROVE  Seeing'
<1>0. file' \in [Paths -> Files] /\ call \in [Threads -> CallType]
  BY DEF IInv, TypeOK, CallType
<1>1. Seen /\ UNCHANGED <<outputs, running, metadata, entries, hints, saved, call>>
  BY DEF Write, Replace, cache
<1>2. Recorded' = Recorded /\ \A q \in Paths : Stats(q)' = Stats(q)
  BY <1>1 DEF Recorded, Stats
<1>. QED BY <1>0, <1>1, <1>2, EditSeen

(* A link of an output.                                                     *)
LEMMA LinkSeen ==
  ASSUME IInv, Seeing, NEW t \in Threads, NEW p \in Paths, Link(t, p)
  PROVE  Seeing'
<1>0. file \in [Paths -> Files] /\ blobs \subseteq Files /\ call \in [Threads -> CallType]
  BY DEF IInv, TypeOK, CallType
<1>1. Seen /\ UNCHANGED <<outputs, running, metadata, entries, hints, saved>>
  BY DEF Link, cache
<1>2. PICK b \in blobs :
        /\ file' = [file EXCEPT ![p] = b]
        /\ call' = [call EXCEPT ![t] = [Idle EXCEPT !.at = "invalidate", !.path = p,
                                                    !.seed = TRUE, !.digest = b.content]]
  BY Zenon DEF Link
<1>3. call'[t].at = "invalidate" /\ \A u \in Threads \ {t} : call'[u] = call[u]
  BY <1>0, <1>2, IdleType DEF CallType
<1>4. Recorded' = Recorded
  BY <1>1 DEF Recorded
<1>5. \A q \in Paths : Stats(q)' \subseteq Stats(q)
  <2> TAKE q \in Paths
  <2>1. metadata'[q] \subseteq Stats(q) /\ call'[t].at \notin Holding
    BY <1>1, <1>3 DEF Stats, Holding
  <2>. QED BY <1>3, <2>1, NoNewStat
<1>6. file' \in [Paths -> Files]
  BY <1>0, <1>2
<1>. QED BY <1>1, <1>3, <1>4, <1>5, <1>6, EditSeen

(* Every step keeps what this run has seen.                                 *)
LEMMA SeenStep == IInv /\ IInv' /\ Seeing /\ [Next]_vars => Seeing'
<1> SUFFICES ASSUME IInv, IInv', Seeing, [Next]_vars PROVE Seeing'
  OBVIOUS
<1>1. CASE Start
  <2>1. /\ Quiet /\ call' = call /\ metadata' = [p \in Paths |-> {}] /\ file' = file
        /\ since' = [p \in Paths |-> {file[p].content}]
    BY <1>1 DEF Start, Forgotten
  <2>2. \A p \in Paths : Stats(p)' = {}
    BY <2>1 DEF Stats, Quiet, Holding
  <2>. QED BY <2>1, <2>2 DEF Seeing, Witnessed, Quiet
<1>2. CASE Load
  <2>1. ~running' /\ call' = [t \in Threads |-> Idle] /\ metadata' = [p \in Paths |-> {}]
    BY <1>2 DEF Load, Forgotten
  <2>2. \A p \in Paths : Stats(p)' = {}
    BY <2>1, IdleType DEF Stats, Holding
  <2>. QED BY <2>1, <2>2, IdleType DEF Seeing, Witnessed
<1>3. CASE Tick \/ Flush \/ (\E c \in Contents : PutBlob(c)) \/ UNCHANGED vars
  <2>1. UNCHANGED <<outputs, file, running, metadata, call, since>>
    BY <1>3 DEF Tick, Flush, PutBlob, vars, cache
  <2>2. Recorded' \subseteq Recorded
    BY <1>3 DEF Tick, Flush, PutBlob, vars, cache, Recorded
  <2>3. Witnessed'
    <3>1. \A p \in Paths : Stats(p)' = Stats(p)
      BY <2>1 DEF Stats
    <3>. QED BY <2>1, <2>2, <3>1, WitnessKept
  <2>. QED BY <2>1, <2>3 DEF Seeing
<1>4. CASE \E c \in Contents, p \in Paths : Write(p, c) \/ Replace(p, c)
  BY <1>4, ChangeSeen
<1>5. CASE \E t \in Threads : Step(t)
  <2> PICK t \in Threads : Step(t)
    BY <1>5
  <2>1. CASE \E p \in Paths : Digest(t, p) \/ Link(t, p)
    BY <2>1, DigestSeen, LinkSeen
  <2>. QED BY <2>1, StatSeen, StatFileSeen, LookupSeen, HashSeen, RecordSeen, EndsSeen DEF Step
<1>. QED BY <1>1, <1>2, <1>3, <1>4, <1>5 DEF Next

(* Nothing is in use before the first run.                                  *)
LEMMA SeenInit == Init => Seeing
<1> SUFFICES ASSUME Init PROVE Seeing
  OBVIOUS
<1>1. ~running /\ \A t \in Threads : call[t].at = "idle"
  BY IdleType DEF Init
<1>2. metadata = [p \in Paths |-> {}]
  BY DEF Init
<1>3. ASSUME NEW p \in Paths, NEW m \in Stats(p) PROVE FALSE
  <2>1. metadata[p] = {} /\ \A t \in Threads : call[t].at \notin Holding
    BY <1>1, <1>2 DEF Holding
  <2>. QED BY <1>3, <2>1 DEF Stats
<1>. QED BY <1>1, <1>3 DEF Seeing, Witnessed

(* A digest that spn_dag_file_cache_digest returns, or that was seeded, is  *)
(* that of a content the path has had during this run, although the stat it *)
(* was found with may be older than the last edit.                          *)
THEOREM DigestsWereThere == Spec => []DigestsSeen
<1>1. IInv /\ Seeing => DigestsSeen
  BY DEF IInv, Seeing, DigestsSeen
<1>2. Spec => []Seeing
  BY SeenInit, SeenStep, CacheInvariance, PTL DEF Spec
<1>. QED BY <1>1, <1>2, CacheInvariance, PTL
=============================================================================
