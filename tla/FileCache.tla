----------------------------- MODULE FileCache -----------------------------
(***************************************************************************)
(* The file cache (source/core/dag/run.c, stamp.c, store.c): digests of      *)
(* files memoised by inode and modification time, across runs and processes. *)
(*                                                                          *)
(* A file system clock has a resolution: a file written twice in one tick    *)
(* keeps its mtime.  A digest is therefore recorded only if the mtime is     *)
(* older than a fence, the mtime of a file spn has just written itself.      *)
(* Sources may be edited at any time, outputs only between sessions.         *)
(*                                                                          *)
(* All contents have the same size, so that only the inode and the mtime     *)
(* tell two states of a file apart.  Every path exists.                      *)
(***************************************************************************)
EXTENDS Integers

CONSTANTS
  Paths,
  Contents,
  NoDigest,
  Threads,    \* the threads of a run
  FirstId,    \* FirstId[p]: the inode at p in the beginning
  FreeId,     \* the first inode number that is free
  MaxClock,   \* bound on the clock
  MaxInodes   \* bound on the inode numbers

ASSUME CacheAssumption ==
  /\ Paths # {} /\ NoDigest \notin Contents
  /\ FirstId \in [Paths -> Nat] /\ FreeId \in Nat
  /\ \A p \in Paths : FirstId[p] < FreeId
  /\ \A p \in Paths, q \in Paths : FirstId[p] = FirstId[q] => p = q
  /\ MaxClock \in Nat /\ MaxInodes \in Nat

VARIABLES
  outputs,    \* the paths spn links blobs to; the user edits the others
  clock,      \* the file system's time, in ticks
  inodes,     \* the inodes made so far: the number of the next one
  file,       \* file[p]: the inode at p, its mtime and its content
  blobs,      \* the inodes in the store
  running,    \* from a session's first run to its end
  fence,      \* c->stamp.fence
  metadata,   \* c->metadata: {} or {what stat returned}, for each path
  entries,    \* c->entries: at most one record for each inode
  hints,      \* c->hints: {} or {record}, for each path
  saved,      \* the hints in the file flush writes
  call,       \* where each thread is, and its locals
  since       \* history: the contents each path has had in this run

cache == <<fence, metadata, entries, hints>>
vars == <<outputs, clock, inodes, file, blobs, running, cache, saved, call, since>>

Meta(f) == [id |-> f.id, mtime |-> f.mtime]        \* file_meta_from_sys
Current(r, m) == r.id = m.id /\ r.mtime = m.mtime  \* file_meta_current
Insert(S, r) == {x \in S : x.id # r.id} \cup {r}   \* sp_ht_insert by inode

Idle == [at |-> "idle", path |-> CHOOSE p \in Paths : TRUE, seed |-> FALSE, record |-> FALSE,
         meta |-> [id |-> 0, mtime |-> 0], digest |-> NoDigest]
Quiet == \A t \in Threads : call[t].at = "idle"
On(t, p) == call[t].at # "idle" /\ call[t].path = p
Linking(t, p) == On(t, p) /\ call[t].seed

Init ==
  /\ outputs \in SUBSET Paths
  /\ clock = 1 /\ running = FALSE /\ fence = 0
  /\ inodes = FreeId
  /\ \E content \in [Paths -> Contents] :
       file = [p \in Paths |-> [id |-> FirstId[p], mtime |-> 0, content |-> content[p]]]
  /\ blobs = {} /\ entries = {}
  /\ metadata = [p \in Paths |-> {}]
  /\ hints = [p \in Paths |-> {}] /\ saved = [p \in Paths |-> {}]
  /\ call = [t \in Threads |-> Idle]
  /\ since = [p \in Paths |-> {}]

-----------------------------------------------------------------------------
(* The file system and the user.                                            *)

Tick ==
  /\ clock < MaxClock
  /\ clock' = clock + 1
  /\ UNCHANGED <<outputs, inodes, file, blobs, running, cache, saved, call, since>>

(* An output is left alone by others during a session, and in the tick it   *)
(* was written in.                                                          *)
Editable(p) == p \in outputs => ~running /\ file[p].mtime < clock

Seen == since' = IF running THEN [p \in Paths |-> since[p] \cup {file'[p].content}] ELSE since

(* In place: every path linked to the inode changes.  A blob edited this    *)
(* way is dropped before it is linked again (TARGET_POISONED).              *)
Write(p, c) ==
  /\ Editable(p)
  /\ file' = [q \in Paths |-> IF file[q].id = file[p].id
                              THEN [id |-> file[p].id, mtime |-> clock, content |-> c]
                              ELSE file[q]]
  /\ blobs' = {b \in blobs : b.id # file[p].id}
  /\ Seen
  /\ UNCHANGED <<outputs, clock, inodes, running, cache, saved, call>>

(* By renaming a new file over it.                                          *)
Replace(p, c) ==
  /\ Editable(p) /\ inodes < MaxInodes
  /\ file' = [file EXCEPT ![p] = [id |-> inodes, mtime |-> clock, content |-> c]]
  /\ inodes' = inodes + 1
  /\ Seen
  /\ UNCHANGED <<outputs, clock, blobs, running, cache, saved, call>>

(* spn_dag_store_put_file: an execution leaves a new blob.                  *)
PutBlob(c) ==
  /\ running /\ inodes < MaxInodes
  /\ \A b \in blobs : b.content # c
  /\ blobs' = blobs \cup {[id |-> inodes, mtime |-> clock, content |-> c]}
  /\ inodes' = inodes + 1
  /\ UNCHANGED <<outputs, clock, file, running, cache, saved, call, since>>

-----------------------------------------------------------------------------
(* Runs and processes.                                                      *)

BugForgotten == UNCHANGED metadata                 \* mutant: stats outlive their run
Forgotten == metadata' = [p \in Paths |-> {}]      \* spn_dag_file_cache_invalidate_all

(* spn_dag_build_run and spn_dag_run_executor.  A session has two runs, one *)
(* to configure and one to build.                                           *)
Start ==
  /\ Quiet
  /\ running' = TRUE
  /\ Forgotten
  /\ fence' = clock
  /\ since' = [p \in Paths |-> {file[p].content}]
  /\ UNCHANGED <<outputs, clock, inodes, file, blobs, entries, hints, saved, call>>

(* spn_dag_file_cache_flush, after a run and after the staging that follows *)
(* a build: the file is replaced in one step.                               *)
Flush ==
  /\ running /\ Quiet
  /\ saved' = hints
  /\ UNCHANGED <<outputs, clock, inodes, file, blobs, running, cache, call, since>>

(* The session ends, or its process is killed, and the next one loads the   *)
(* hints (spn_model_establish).                                             *)
Load ==
  /\ running' = FALSE
  /\ fence' = 0 /\ entries' = {} /\ Forgotten
  /\ hints' = saved
  /\ call' = [t \in Threads |-> Idle]
  /\ since' = [p \in Paths |-> {}]
  /\ UNCHANGED <<outputs, clock, inodes, file, blobs, saved>>

-----------------------------------------------------------------------------
(* spn_dag_file_cache_stat, for spn_dag_file_cache_digest and _seed.        *)
AfterStat(t) == IF call[t].seed THEN "record" ELSE "lookup"

StatCached(t) ==
  /\ call[t].at = "stat"
  /\ \E m \in metadata[call[t].path] :
       call' = [call EXCEPT ![t].at = AfterStat(t), ![t].meta = m]
  /\ UNCHANGED <<outputs, clock, inodes, file, blobs, running, cache, saved, since>>

StatFile(t) ==
  /\ call[t].at = "stat" /\ metadata[call[t].path] = {}
  /\ call' = [call EXCEPT ![t].at = "insert", ![t].meta = Meta(file[call[t].path])]
  /\ UNCHANGED <<outputs, clock, inodes, file, blobs, running, cache, saved, since>>

StatInsert(t) ==
  /\ call[t].at = "insert"
  /\ metadata' = [metadata EXCEPT ![call[t].path] = {call[t].meta}]
  /\ call' = [call EXCEPT ![t].at = AfterStat(t)]
  /\ UNCHANGED <<outputs, clock, inodes, file, blobs, running, fence, entries, hints, saved, since>>

-----------------------------------------------------------------------------
(* spn_dag_file_cache_digest.  DagRun never resolves an output while its    *)
(* producer settles it: the observer is deferred until the producer is done. *)
Digest(t, p) ==
  /\ running /\ call[t].at = "idle"
  /\ \A u \in Threads : ~Linking(u, p)
  /\ call' = [call EXCEPT ![t] = [Idle EXCEPT !.at = "stat", !.path = p]]
  /\ UNCHANGED <<outputs, clock, inodes, file, blobs, running, cache, saved, since>>

Hits(t) == {r \in entries : Current(r, call[t].meta)}
Hinted(t) == {r \in hints[call[t].path] : Current(r, call[t].meta)}

(* The critical section: an entry or a hint that is current answers.        *)
LookupHit(t) ==
  /\ call[t].at = "lookup"
  /\ \/ \E r \in Hits(t) :
          /\ call' = [call EXCEPT ![t].at = "return", ![t].digest = r.digest]
          /\ UNCHANGED entries
     \/ /\ Hits(t) = {}
        /\ \E r \in Hinted(t) :
             /\ call' = [call EXCEPT ![t].at = "return", ![t].digest = r.digest]
             /\ entries' = Insert(entries, r)
  /\ UNCHANGED <<outputs, clock, inodes, file, blobs, running, fence, metadata, hints, saved, since>>

BugFenced(f, m) == m <= f     \* mutant: off by one
Fenced(f, m) == m < f         \* spn_dag_stamp_fenced

(* spn_dag_stamp_admit: behind the fence, or behind one set up now.         *)
LookupMiss(t) ==
  /\ call[t].at = "lookup"
  /\ Hits(t) = {} /\ Hinted(t) = {}
  /\ fence' = IF Fenced(fence, call[t].meta.mtime) THEN fence ELSE clock
  /\ call' = [call EXCEPT ![t].at = "hash", ![t].record = Fenced(fence', call[t].meta.mtime)]
  /\ UNCHANGED <<outputs, clock, inodes, file, blobs, running, metadata, entries, hints, saved, since>>

Hash(t) ==
  /\ call[t].at = "hash"
  /\ call' = [call EXCEPT ![t].at = IF call[t].record THEN "record" ELSE "return",
                          ![t].digest = file[call[t].path].content]
  /\ UNCHANGED <<outputs, clock, inodes, file, blobs, running, cache, saved, since>>

(* file_cache_record.                                                       *)
Record(t) ==
  /\ call[t].at = "record"
  /\ LET r == [id |-> call[t].meta.id, mtime |-> call[t].meta.mtime, digest |-> call[t].digest]
     IN  /\ entries' = Insert(entries, r)
         /\ hints' = [hints EXCEPT ![call[t].path] = {r}]
  /\ call' = [call EXCEPT ![t].at = "return"]
  /\ UNCHANGED <<outputs, clock, inodes, file, blobs, running, fence, metadata, saved, since>>

Return(t) ==
  /\ call[t].at = "return"
  /\ call' = [call EXCEPT ![t] = Idle]
  /\ UNCHANGED <<outputs, clock, inodes, file, blobs, running, cache, saved, since>>

-----------------------------------------------------------------------------
(* link_target: spn_dag_store_materialize renames a link to the blob over   *)
(* the target, then spn_dag_file_cache_seed records its digest unseen.      *)
Link(t, p) ==
  /\ running /\ call[t].at = "idle"
  /\ p \in outputs /\ \A u \in Threads : ~On(u, p)
  /\ \E b \in blobs :
       /\ file' = [file EXCEPT ![p] = b]
       /\ call' = [call EXCEPT ![t] = [Idle EXCEPT !.at = "invalidate", !.path = p,
                                                   !.seed = TRUE, !.digest = b.content]]
  /\ Seen
  /\ UNCHANGED <<outputs, clock, inodes, blobs, running, cache, saved>>

SeedInvalidate(t) ==
  /\ call[t].at = "invalidate"
  /\ metadata' = [metadata EXCEPT ![call[t].path] = {}]
  /\ call' = [call EXCEPT ![t].at = "stat"]
  /\ UNCHANGED <<outputs, clock, inodes, file, blobs, running, fence, entries, hints, saved, since>>

-----------------------------------------------------------------------------
Step(t) == \/ StatCached(t) \/ StatFile(t) \/ StatInsert(t) \/ LookupHit(t) \/ LookupMiss(t)
           \/ Hash(t) \/ Record(t) \/ Return(t) \/ SeedInvalidate(t)
           \/ \E p \in Paths : Digest(t, p) \/ Link(t, p)

Next == \/ Tick \/ Start \/ Flush \/ Load
        \/ \E c \in Contents : PutBlob(c) \/ \E p \in Paths : Write(p, c) \/ Replace(p, c)
        \/ \E t \in Threads : Step(t)

Spec == Init /\ [][Next]_vars

-----------------------------------------------------------------------------
Metas == [id : Nat, mtime : Nat]
Files == [id : Nat, mtime : Nat, content : Contents]
Records == [id : Nat, mtime : Nat, digest : Contents]
Ats == {"idle", "stat", "insert", "lookup", "hash", "record", "return", "invalidate"}

(* Every variable has the type of the field it models.                      *)
TypeOK ==
  /\ outputs \subseteq Paths
  /\ clock \in Nat /\ inodes \in Nat /\ fence \in Nat /\ running \in BOOLEAN
  /\ file \in [Paths -> Files] /\ blobs \subseteq Files
  /\ metadata \in [Paths -> SUBSET Metas]
  /\ entries \subseteq Records
  /\ hints \in [Paths -> SUBSET Records] /\ saved \in [Paths -> SUBSET Records]
  /\ call \in [Threads -> [at : Ats, path : Paths, seed : BOOLEAN, record : BOOLEAN,
                           meta : Metas, digest : Contents \cup {NoDigest}]]
  /\ since \in [Paths -> SUBSET Contents]

Recorded == entries \cup UNION {hints[p] \cup saved[p] : p \in Paths}

(* No record lies: one that is current for a path names the content that is  *)
(* there, however edits, hashes, ticks, runs and kills interleave.  A record *)
(* that lies would be believed by every later build.                         *)
RecordsTrue ==
  \A r \in Recorded, p \in Paths : Current(r, file[p]) => file[p].content = r.digest

(* A digest that was returned is one the path has had during this run, even  *)
(* though the stat it was looked up with may be older than the last edit.    *)
DigestsSeen ==
  TypeOK /\ \A t \in Threads : call[t].at = "return" => call[t].digest \in since[call[t].path]
=============================================================================
