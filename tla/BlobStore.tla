----------------------------- MODULE BlobStore -----------------------------
(***************************************************************************)
(* The blob store and the action cache on disk (core/dag/store.c), shared  *)
(* by the builds of several projects, each a process with an output path   *)
(* and a scratch directory of its own.  Files are inodes with names:       *)
(* outputs are hard links to blobs, which is why blobs are made read-only. *)
(* A key stands for an action with its inputs; what the action makes from  *)
(* it, and the digest of that, is named by the key.                        *)
(***************************************************************************)
EXTENDS Naturals, FiniteSets, TLC

CONSTANTS
  Builds,  \* processes
  Keys,    \* action keys
  Inodes,  \* enough of them for every name
  MaxRuns,    \* bound: actions looked up
  MaxFaults   \* bound: builds killed and outputs touched by users

None == 0
ASSUME InodesAssumption == Inodes \subseteq Nat \ {None}
(* A new file always gets an inode that no name refers to.                 *)
ASSUME EnoughInodes ==
  /\ IsFiniteSet(Inodes) /\ IsFiniteSet(Keys) /\ IsFiniteSet(Builds)
  /\ Cardinality(Inodes) > Cardinality(Keys) + 3 * Cardinality(Builds)

VARIABLES
  file,     \* inode -> [data, ro, torn]; torn: see BuildKilled and UserEdits
  blob,     \* digest -> inode, or None
  cache,    \* key -> digest, "none", or "junk" that no parser accepts
  out,      \* build -> inode of its output
  tmp,      \* build -> inode at the output's staging name
  scratch,  \* build -> inode in its scratch directory
  memo,     \* build -> the entries it has in memory
  build,    \* build -> [pc, key, hit, got]
  count     \* [runs, faults]: what the bounds bound

names == <<blob, out, tmp, scratch>>
storeVars == <<file, names, cache, memo, build, count>>

Blank == [data |-> "blank", ro |-> FALSE, torn |-> FALSE]
Quiet == [pc |-> "idle", key |-> "none", hit |-> FALSE, got |-> "none"]
StoreInit ==
  /\ file = [i \in Inodes |-> Blank]
  /\ blob = [k \in Keys |-> None]
  /\ cache \in [Keys -> {"none", "junk"}]
  /\ out = [b \in Builds |-> None] /\ tmp = out /\ scratch = out
  /\ memo = [b \in Builds |-> [k \in Keys |-> "none"]]
  /\ build = [b \in Builds |-> Quiet]
  /\ count = [runs |-> 0, faults |-> 0]

Used(n) == UNION {{n[i][x] : x \in DOMAIN n[i]} : i \in 1..4}
New == CHOOSE i \in Inodes : i \notin Used(names)
(* The files after a step that leaves the inodes f with the names it makes.*)
Files(f) == file' = [i \in Inodes |-> IF i \in Used(names') THEN f[i] ELSE Blank]
Written(data) == [file EXCEPT ![New] = [data |-> data, ro |-> FALSE, torn |-> FALSE]]

Is(b, pc) == build[b].pc = pc
Step(b, pc) == build' = [build EXCEPT ![b].pc = pc]
Key(b) == build[b].key

(* spn_dag_action_cache_get: memory, then the file; one that does not      *)
(* parse is removed.                                                       *)
spn_dag_action_cache_get(b) ==
  /\ Is(b, "idle")
  /\ \E k \in Keys :
       LET found == IF memo[b][k] # "none" THEN memo[b][k] ELSE IF cache[k] = "junk" THEN "none" ELSE cache[k]
       IN  /\ build' = [build EXCEPT ![b] = [pc |-> IF found = "none" THEN "execute" ELSE "settle",
                                             key |-> k, hit |-> found # "none", got |-> "none"]]
           /\ memo' = [memo EXCEPT ![b][k] = found]
           /\ cache' = IF memo[b][k] = "none" /\ cache[k] = "junk" THEN [cache EXCEPT ![k] = "none"] ELSE cache
  /\ UNCHANGED <<file, names>>

(* restore_entry or commit failed: the entry is forgotten and the action   *)
(* runs (spn_dag_action_cache_remove), or the build fails.                 *)
Fail(b) ==
  IF build[b].hit
  THEN /\ memo' = [memo EXCEPT ![b][Key(b)] = "none"] /\ cache' = [cache EXCEPT ![Key(b)] = "none"]
       /\ build' = [build EXCEPT ![b].pc = "execute", ![b].hit = FALSE]
  ELSE Step(b, "idle") /\ UNCHANGED <<memo, cache>>

Settles(b, i) == build' = [build EXCEPT ![b].pc = IF build[b].hit THEN "idle" ELSE "record", ![b].got = IF file[i].torn THEN "torn" ELSE file[i].data]

(* target_state and settle_file: a target with the right digest is left    *)
(* alone; one that is the blob itself, with another, shows that the blob   *)
(* was written to (spn_dag_store_owns): the blob is dropped.               *)
target_state(b) ==
  IF out[b] # None /\ file[out[b]].data = Key(b) THEN "settled"
  ELSE IF out[b] # None /\ out[b] = blob[Key(b)] THEN "poisoned" ELSE "stale"
settle_file(b) ==
  /\ Is(b, "settle")
  /\ \/ /\ target_state(b) = "settled"
        /\ Settles(b, out[b]) /\ UNCHANGED <<file, names, cache, memo>>
     \/ /\ target_state(b) = "poisoned"
        /\ blob' = [blob EXCEPT ![Key(b)] = None] /\ UNCHANGED <<out, tmp, scratch>>
        /\ Files(file) /\ Fail(b)
     \/ target_state(b) = "stale" /\ Step(b, "link") /\ UNCHANGED <<file, names, cache, memo>>

(* spn_dag_store_materialize: a link at the staging name, renamed; where   *)
(* that name is taken, or the link is refused, a copy.                     *)
spn_dag_store_materialize(b) ==
  LET i == blob[Key(b)] IN
  \/ /\ Is(b, "link") /\ i = None /\ Fail(b) /\ UNCHANGED <<file, names>>
  \/ /\ Is(b, "link") /\ i # None /\ tmp[b] = None
     /\ tmp' = [tmp EXCEPT ![b] = i] /\ Step(b, "rename") /\ UNCHANGED <<file, blob, out, scratch, cache, memo>>
  \/ /\ Is(b, "link") /\ i # None
     /\ out' = [out EXCEPT ![b] = New] /\ UNCHANGED <<blob, tmp, scratch>>
     /\ Files(Written(file[i].data)) /\ Settles(b, i) /\ UNCHANGED <<cache, memo>>
  \/ /\ Is(b, "rename")
     /\ out' = [out EXCEPT ![b] = tmp[b]]
     /\ tmp' = IF out[b] = tmp[b] THEN tmp ELSE [tmp EXCEPT ![b] = None]
     /\ UNCHANGED <<blob, scratch>> /\ Files(file) /\ Settles(b, tmp[b]) /\ UNCHANGED <<cache, memo>>
  \/ /\ Is(b, "rename")
     /\ tmp' = [tmp EXCEPT ![b] = None] /\ UNCHANGED <<blob, out, scratch>> /\ Files(file) /\ Fail(b)

(* execute_attempt: the scratch directory is made anew, the tool writes    *)
(* the output there.                                                       *)
execute_attempt(b) ==
  /\ Is(b, "execute")
  /\ \/ scratch' = [scratch EXCEPT ![b] = New] /\ UNCHANGED <<blob, out, tmp>> /\ Files(Written(Key(b))) /\ Step(b, "put")
     \/ scratch' = [scratch EXCEPT ![b] = None] /\ UNCHANGED <<blob, out, tmp>> /\ Files(file) /\ Step(b, "idle")
  /\ UNCHANGED <<cache, memo>>

(* spn_dag_store_put_file: a blob that is there is taken for granted; else *)
(* the scratch file is linked or copied in, and then made read-only.       *)
(* As Protected, for a store that forgets to: for a mutant.                *)
Unprotected(i) == file
Protected(i) == [file EXCEPT ![i].ro = TRUE]
spn_dag_store_put_file(b) ==
  \/ /\ Is(b, "put") /\ blob[Key(b)] # None /\ Step(b, "settle") /\ UNCHANGED <<file, names, cache, memo>>
  \/ /\ Is(b, "put") /\ blob[Key(b)] = None /\ Step(b, "protect") /\ UNCHANGED <<out, tmp, scratch, cache, memo>>
     /\ \/ blob' = [blob EXCEPT ![Key(b)] = scratch[b]] /\ Files(file)
        \/ blob' = [blob EXCEPT ![Key(b)] = New] /\ Files(Written(file[scratch[b]].data))
  \/ /\ Is(b, "protect") /\ blob[Key(b)] # None /\ file' = Protected(blob[Key(b)])
     /\ Step(b, "settle") /\ UNCHANGED <<names, cache, memo>>
  \/ /\ Is(b, "put") \/ (Is(b, "protect") /\ blob[Key(b)] = None)
     /\ Step(b, "idle") /\ UNCHANGED <<file, names, cache, memo>>

(* record (spn_dag_action_cache_put, written atomically), and the scratch  *)
(* directory goes.                                                         *)
record(b) ==
  /\ Is(b, "record")
  /\ memo' = [memo EXCEPT ![b][Key(b)] = Key(b)] /\ cache' = [cache EXCEPT ![Key(b)] = Key(b)]
  /\ scratch' = [scratch EXCEPT ![b] = None] /\ UNCHANGED <<blob, out, tmp>> /\ Files(file)
  /\ Step(b, "idle")

(* The build is killed.  One killed between linking a blob and making it   *)
(* read-only leaves a blob that can be written to; so does one that is     *)
(* still in between.                                                       *)
Unguarded(b) == IF Is(b, "protect") THEN {blob[Key(b)]} \ {None} ELSE {}
BuildKilled(b) ==
  /\ build[b].pc # "idle"
  /\ memo' = [memo EXCEPT ![b] = [k \in Keys |-> "none"]]
  /\ build' = [build EXCEPT ![b] = Quiet]
  /\ file' = [i \in Inodes |-> IF i \in Unguarded(b) THEN [file[i] EXCEPT !.torn = TRUE] ELSE file[i]]
  /\ UNCHANGED <<names, cache>>

(* Someone else edits an output in place, if it is writable, replaces it   *)
(* or deletes it.                                                          *)
UserEdits(b) ==
  /\ out[b] # None
  /\ \/ /\ ~file[out[b]].ro /\ UNCHANGED names
        /\ file' = [file EXCEPT ![out[b]] = [data |-> "edited", ro |-> FALSE,
                     torn |-> @.torn \/ \E c \in Builds : out[b] \in Unguarded(c)]]
     \/ /\ out' = [out EXCEPT ![b] = New] /\ UNCHANGED <<blob, tmp, scratch>> /\ Files(Written("edited"))
     \/ /\ out' = [out EXCEPT ![b] = None] /\ UNCHANGED <<blob, tmp, scratch>> /\ Files(file)
  /\ UNCHANGED <<cache, memo, build>>

StoreNext ==
  \E b \in Builds :
    \/ /\ count.runs < MaxRuns /\ count' = [count EXCEPT !.runs = @ + 1]
       /\ spn_dag_action_cache_get(b)
    \/ /\ count.faults < MaxFaults /\ count' = [count EXCEPT !.faults = @ + 1]
       /\ BuildKilled(b) \/ UserEdits(b)
    \/ /\ UNCHANGED count
       /\ \/ settle_file(b) \/ spn_dag_store_materialize(b) \/ execute_attempt(b)
          \/ spn_dag_store_put_file(b) \/ record(b)

-----------------------------------------------------------------------------
(* A blob has the content its digest names, whatever users do to the       *)
(* outputs that are linked to it, unless a process was killed, or someone  *)
(* wrote, between the link and the change of its mode; and what a build    *)
(* was told is settled has the content of its key, with the same           *)
(* exception.                                                              *)
BlobsTrue ==
  \A k \in Keys : blob[k] # None => file[blob[k]].data = k \/ file[blob[k]].torn
ServedTrue == \A b \in Builds : build[b].got \in {"none", "torn", Key(b)}
=============================================================================
