----------------------------- MODULE DiskProofs -----------------------------
(***************************************************************************)
(* For every set of processes, threads, checkouts, executables,            *)
(* libraries, machines and keys: what the processes that share a disk or   *)
(* an upstream put there is whole whenever it can be seen, wherever any of *)
(* them is killed.                                                         *)
(***************************************************************************)
EXTENDS MCDisk, TLAPS, FiniteSetTheorems, SequenceTheorems

-----------------------------------------------------------------------------
(* Git checkouts                                                           *)

GitPcs == {"idle", "entry", "db", "clone", "cloning", "rev", "fetch", "dest", "stage", "checkout", "patch", "place", "sub"}
Entry == [ready : BOOLEAN, err : BOOLEAN, held : BOOLEAN]
Finished(id) == [rev |-> id.rev, patched |-> id.patches]
Delivered(id) == Whole(id) /\ (id.dir = "" \/ <<id.rev, id.dir>> \in Dirs)
Works == [rev : {"none", HeadRev} \cup {i.rev : i \in Ids}, patched : Nat]
Caller == [pc : GitPcs, id : Ids, work : Works, result : {"none", "error", "ok"}]

GitTypeOK ==
  /\ tree \in [Ids -> {NoTree} \cup {Finished(i) : i \in Ids}]
  /\ entries \in [Processes -> [Ids -> Entry]]
  /\ thread \in [Threads -> Caller]

(* Nothing but a finished tree is renamed to a checkout's path, so a staged *)
(* tree is the finished one when it is placed, and the path of a checkout   *)
(* whose subdirectory is looked up is taken.                                *)
Placed ==
  /\ \A i \in Ids : tree[i] # NoTree => Whole(i)
  /\ \A t \in Threads :
       /\ At(t, "patch") => thread[t].work.rev = thread[t].id.rev
       /\ At(t, "place") => thread[t].work = Finished(thread[t].id)
       /\ At(t, "sub") => Whole(thread[t].id)

(* An entry that is free and not in error is a promise about the disk, and  *)
(* so is an answer; neither the disk nor the promise is ever taken back.    *)
Promises ==
  /\ \A p \in Processes : \A i \in Ids :
       entries[p][i].ready /\ ~entries[p][i].err /\ ~entries[p][i].held => Delivered(i)
  /\ \A t \in Threads : thread[t].result = "ok" => Delivered(thread[t].id)

GitInv == GitTypeOK /\ Placed /\ Promises

(* What it takes for one thread to step, with the trees as they were and    *)
(* the entries as they were but for one.                                    *)
LEMMA GitSteps ==
  ASSUME GitInv, NEW t \in Threads, thread' \in [Threads -> Caller], UNCHANGED tree,
         \A u \in Threads : u # t => thread'[u] = thread[u],
         NEW i \in Ids, NEW e \in Entry,
         entries' \in {entries, [entries EXCEPT ![t[1]][i] = e]},
         e.ready /\ ~e.err /\ ~e.held => Delivered(i),
         thread'[t].pc = "patch" => thread'[t].work.rev = thread'[t].id.rev,
         thread'[t].pc = "place" => thread'[t].work = Finished(thread'[t].id),
         thread'[t].pc = "sub" => Whole(thread'[t].id),
         thread'[t].result = "ok" => Delivered(thread'[t].id)
  PROVE  GitInv'
<1>0. t[1] \in Processes BY DEF Processes
<1>1. GitTypeOK'
  <2>1. entries \in [Processes -> [Ids -> Entry]] BY DEF GitInv, GitTypeOK
  <2>2. [entries EXCEPT ![t[1]][i] = e] \in [Processes -> [Ids -> Entry]] BY <1>0, <2>1
  <2> QED BY <2>1, <2>2 DEF GitInv, GitTypeOK
<1>2. Placed' BY DEF GitInv, Placed, At, Whole, Finished
<1>3. Promises'
  <2>1. \A q \in Processes : \A j \in Ids : entries'[q][j] = entries[q][j] \/ (j = i /\ entries'[q][j] = e)
    BY <1>0 DEF GitInv, GitTypeOK
  <2>2. \A q \in Processes : \A j \in Ids :
          entries'[q][j].ready /\ ~entries'[q][j].err /\ ~entries'[q][j].held => Delivered(j)
    BY <2>1 DEF GitInv, Promises
  <2>3. \A u \in Threads : thread'[u].result = "ok" => Delivered(thread'[u].id)
    BY DEF GitInv, Promises
  <2> QED BY <2>2, <2>3 DEF Promises, Delivered, Whole
<1> QED BY <1>1, <1>2, <1>3 DEF GitInv

(* An entry that promises nothing, where a step leaves the entries alone.   *)
LEMMA NoPromise == Unready \in Entry /\ ~Unready.ready
BY DEF Unready, Entry

(* A thread that goes on without touching a tree or an entry.               *)
LEMMA GitMoves ==
  ASSUME GitInv, NEW t \in Threads, NEW pc \in GitPcs, To(t, pc), UNCHANGED <<tree, entries>>,
         pc = "patch" => thread[t].work.rev = thread[t].id.rev,
         pc = "place" => thread[t].work = Finished(thread[t].id),
         pc = "sub" => Whole(thread[t].id)
  PROVE  GitInv'
<1>1. thread \in [Threads -> Caller] BY DEF GitInv, GitTypeOK
<1>2. thread' \in [Threads -> Caller] BY <1>1 DEF To, Caller
<1>3. \A u \in Threads : u # t => thread'[u] = thread[u] BY <1>1 DEF To
<1>4. /\ thread'[t].pc = pc /\ thread'[t].id = thread[t].id
      /\ thread'[t].work = thread[t].work /\ thread'[t].result = thread[t].result
  BY <1>1 DEF To, Caller
<1>5. thread[t].id \in Ids BY <1>1 DEF Caller
<1>6. thread'[t].result = "ok" => Delivered(thread'[t].id) BY <1>4 DEF GitInv, Promises
<1> QED BY <1>2, <1>3, <1>4, <1>5, <1>6, GitSteps, NoPromise

(* A return with an error, or with a promise that is kept.                  *)
LEMMA GitReturns ==
  ASSUME GitInv, NEW t \in Threads, NEW err \in BOOLEAN, Return(t, err), UNCHANGED tree,
         ~err => Delivered(thread[t].id)
  PROVE  GitInv'
<1> DEFINE e == [ready |-> TRUE, err |-> err, held |-> FALSE]
           res == IF err THEN "error" ELSE "ok"
<1>1. thread \in [Threads -> Caller] BY DEF GitInv, GitTypeOK
<1>2. res \in {"none", "error", "ok"} /\ (res = "ok" => ~err) OBVIOUS
<1>3. NoTree \in Works /\ "idle" \in GitPcs BY DEF Works, NoTree, GitPcs
<1>4. e \in Entry /\ (e.ready /\ ~e.err /\ ~e.held => Delivered(thread[t].id)) BY DEF Entry
<1>5. entries' = [entries EXCEPT ![t[1]][thread[t].id] = e] BY DEF Return
<1>6. thread' = [thread EXCEPT ![t] = [@ EXCEPT !.pc = "idle", !.work = NoTree, !.result = res]] BY DEF Return
<1> HIDE DEF e, res
<1>7. thread' \in [Threads -> Caller] BY <1>1, <1>2, <1>3, <1>6 DEF Caller
<1>8. \A u \in Threads : u # t => thread'[u] = thread[u] BY <1>1, <1>6
<1>9. thread'[t].pc = "idle" /\ thread'[t].id = thread[t].id /\ thread'[t].result = res BY <1>1, <1>6 DEF Caller
<1>10. thread[t].id \in Ids BY <1>1 DEF Caller
<1> QED BY <1>2, <1>4, <1>5, <1>7, <1>8, <1>9, <1>10, GitSteps

(* A staging directory is worked on: trees and entries stay as they are.    *)
LEMMA GitStages ==
  ASSUME GitInv, NEW t \in Threads, NEW pc \in {"checkout", "patch"}, NEW w \in Works, Stage(t, pc, w), UNCHANGED entries,
         pc = "patch" => w.rev = thread[t].id.rev
  PROVE  GitInv'
<1>1. thread \in [Threads -> Caller] BY DEF GitInv, GitTypeOK
<1>2. thread' = [thread EXCEPT ![t].pc = pc, ![t].work = w] /\ UNCHANGED tree BY DEF Stage, WithWork
<1>3. pc \in GitPcs BY DEF GitPcs
<1>4. thread' \in [Threads -> Caller] BY <1>1, <1>2, <1>3 DEF Caller
<1>5. \A u \in Threads : u # t => thread'[u] = thread[u] BY <1>1, <1>2
<1>6. /\ thread'[t].pc = pc /\ thread'[t].id = thread[t].id
      /\ thread'[t].work = w /\ thread'[t].result = thread[t].result
  BY <1>1, <1>2 DEF Caller
<1>7. thread[t].id \in Ids BY <1>1 DEF Caller
<1>8. thread'[t].result = "ok" => Delivered(thread'[t].id) BY <1>6 DEF GitInv, Promises
<1> QED BY <1>2, <1>4, <1>5, <1>6, <1>7, <1>8, GitSteps, NoPromise

LEMMA GitStarts == GitInit => GitInv
<1> SUFFICES ASSUME GitInit PROVE GitInv OBVIOUS
<1>1. PICK i \in Ids : i = (CHOOSE j \in Ids : TRUE) BY IdsAssumption
<1>2. thread = [t \in Threads |-> [pc |-> "idle", id |-> i, work |-> NoTree, result |-> "none"]]
  BY <1>1 DEF GitInit, Idle
<1>3. GitTypeOK BY <1>2 DEF GitInit, GitTypeOK, NoTree, Unready, Entry, GitPcs, Caller, Works
<1>4. Placed BY <1>2 DEF GitInit, Placed, At, Whole
<1>5. Promises BY <1>2 DEF GitInit, Promises, Unready
<1> QED BY <1>3, <1>4, <1>5 DEF GitInv

LEMMA GitChecksOut ==
  ASSUME GitInv, NEW t \in Threads, spn_git_cache_ensure_checkout(t)
  PROVE  GitInv'
<1> DEFINE e == entries[t[1]][thread[t].id]
<1>0. t[1] \in Processes /\ thread[t].id \in Ids /\ e \in Entry /\ thread \in [Threads -> Caller]
  BY DEF Processes, GitInv, GitTypeOK, Caller
<1>1. ASSUME NEW i \in Ids, thread' = [thread EXCEPT ![t] = [Idle EXCEPT !.pc = "entry", !.id = i]], UNCHANGED <<tree, entries>>
      PROVE  GitInv'
  <2>1. Idle \in Caller BY IdsAssumption DEF Caller, Idle, GitPcs, Works, NoTree
  <2>2. "entry" \in GitPcs BY DEF GitPcs
  <2>3. thread' \in [Threads -> Caller] BY <1>0, <1>1, <2>1, <2>2 DEF Caller
  <2>4. \A u \in Threads : u # t => thread'[u] = thread[u] BY <1>0, <1>1
  <2>5. thread'[t].pc = "entry" /\ thread'[t].result = Idle.result BY <1>0, <1>1, <2>1 DEF Caller
  <2>6. Idle.result = "none" BY DEF Idle
  <2> QED BY <1>1, <2>3, <2>4, <2>5, <2>6, GitSteps, NoPromise
<1>2. ASSUME ~e.held, e.ready, Return(t, e.err), UNCHANGED tree PROVE GitInv'
  <2>1. e.err \in BOOLEAN BY <1>0 DEF Entry
  <2>2. ~e.err => Delivered(thread[t].id) BY <1>0, <1>2 DEF GitInv, Promises
  <2> QED BY <1>2, <2>1, <2>2, GitReturns
<1>3. ASSUME entries' = [entries EXCEPT ![t[1]][thread[t].id] = [ready |-> TRUE, err |-> FALSE, held |-> TRUE]],
             To(t, "db"), UNCHANGED tree
      PROVE  GitInv'
  <2> DEFINE d == [ready |-> TRUE, err |-> FALSE, held |-> TRUE]
  <2>1. "db" \in GitPcs BY DEF GitPcs
  <2>2. thread' \in [Threads -> Caller] BY <1>0, <1>3, <2>1 DEF To, Caller
  <2>3. \A u \in Threads : u # t => thread'[u] = thread[u] BY <1>0, <1>3 DEF To
  <2>4. thread'[t].pc = "db" /\ thread'[t].id = thread[t].id /\ thread'[t].result = thread[t].result BY <1>0, <1>3 DEF To, Caller
  <2>5. d \in Entry /\ (d.ready /\ ~d.err /\ ~d.held => Delivered(thread[t].id)) BY DEF Entry
  <2>6. entries' = [entries EXCEPT ![t[1]][thread[t].id] = d] BY <1>3
  <2>7. thread'[t].result = "ok" => Delivered(thread'[t].id) BY <2>4 DEF GitInv, Promises
  <2> HIDE DEF d
  <2> QED BY <1>0, <1>3, <2>2, <2>3, <2>4, <2>5, <2>6, <2>7, GitSteps
<1> QED BY <1>1, <1>2, <1>3 DEF spn_git_cache_ensure_checkout

LEMMA GitFills ==
  ASSUME GitInv, NEW t \in Threads, spn_git_cache_fill_checkout(t)
  PROVE  GitInv'
<1>0. thread[t] \in Caller /\ Work(t) \in Works BY DEF GitInv, GitTypeOK, Caller, Work
<1>1. CASE Stage(t, "checkout", [rev |-> HeadRev, patched |-> 0]) /\ UNCHANGED entries
  <2>1. [rev |-> HeadRev, patched |-> 0] \in Works BY DEF Works
  <2> QED BY <1>1, <2>1, GitStages
<1>2. CASE Stage(t, "patch", [Work(t) EXCEPT !.rev = thread[t].id.rev]) /\ UNCHANGED entries
  <2> DEFINE w == [Work(t) EXCEPT !.rev = thread[t].id.rev]
  <2>1. w \in Works /\ w.rev = thread[t].id.rev BY <1>0 DEF Works, Caller
  <2> HIDE DEF w
  <2>2. Stage(t, "patch", w) BY <1>2 DEF w
  <2> QED BY <1>2, <2>1, <2>2, GitStages
<1>3. CASE At(t, "patch") /\ Stage(t, "patch", [Work(t) EXCEPT !.patched = @ + 1]) /\ UNCHANGED entries
  <2> DEFINE w == [Work(t) EXCEPT !.patched = @ + 1]
  <2>1. w \in Works /\ w.rev = Work(t).rev BY <1>0 DEF Works
  <2> HIDE DEF w
  <2>2. Stage(t, "patch", w) BY <1>3 DEF w
  <2>3. w.rev = thread[t].id.rev BY <1>3, <2>1 DEF GitInv, Placed, Work
  <2> QED BY <1>3, <2>1, <2>2, <2>3, GitStages
<1>4. CASE At(t, "patch") /\ Work(t).patched = thread[t].id.patches /\ To(t, "place") /\ UNCHANGED <<tree, entries>>
  <2>1. Work(t).rev = thread[t].id.rev BY <1>4 DEF GitInv, Placed, Work
  <2>2. thread[t].work = Finished(thread[t].id) BY <1>0, <1>4, <2>1 DEF Finished, Work, Works
  <2> QED BY <1>4, <2>2, GitMoves DEF GitPcs
<1> QED BY <1>1, <1>2, <1>3, <1>4 DEF spn_git_cache_fill_checkout

LEMMA GitMaterializes ==
  ASSUME GitInv, NEW t \in Threads, spn_git_cache_materialize_checkout(t)
  PROVE  GitInv'
<1> DEFINE id == thread[t].id
<1>0. id \in Ids /\ thread \in [Threads -> Caller] BY DEF GitInv, GitTypeOK, Caller
<1>1. CASE At(t, "dest") /\ To(t, IF tree[id] = NoTree THEN "stage" ELSE "sub") /\ UNCHANGED <<tree, entries>>
  <2>1. CASE tree[id] = NoTree BY <1>1, <2>1, GitMoves DEF GitPcs
  <2>2. CASE tree[id] # NoTree
    <3>1. Whole(id) BY <1>0, <2>2 DEF GitInv, Placed
    <3> QED BY <1>1, <2>2, <3>1, GitMoves DEF GitPcs
  <2> QED BY <2>1, <2>2
<1>2. CASE Return(t, TRUE) /\ UNCHANGED tree BY <1>2, GitReturns
<1>3. CASE At(t, "place") /\ tree[id] = NoTree /\ tree' = [tree EXCEPT ![id] = Work(t)] /\ To(t, "sub") /\ UNCHANGED entries
  <2>0. PICK k \in Ids : k = id BY <1>0
  <2>1. tree' = [tree EXCEPT ![k] = Finished(k)] BY <1>3, <2>0 DEF GitInv, Placed, Work
  <2>2. tree[k] = NoTree BY <1>3, <2>0
  <2>3. \A i \in Ids : (i # k => tree'[i] = tree[i]) /\ tree'[k] = Finished(k) BY <2>1 DEF GitInv, GitTypeOK
  <2>4. \A i \in Ids : (tree[i] = Finished(i) => tree'[i] = Finished(i)) /\ (tree'[i] # NoTree => tree'[i] = Finished(i))
    BY <2>3 DEF GitInv, Placed, Whole, Finished
  <2>5. "sub" \in GitPcs BY DEF GitPcs
  <2>6. thread' \in [Threads -> Caller] BY <1>0, <1>3, <2>5 DEF To, Caller
  <2>7. \A u \in Threads : u # t => thread'[u] = thread[u] BY <1>0, <1>3 DEF To
  <2>8. thread'[t].pc = "sub" /\ thread'[t].id = k /\ thread'[t].result = thread[t].result BY <1>0, <1>3, <2>0 DEF To, Caller
  <2>9. GitTypeOK' BY <1>0, <1>3, <2>1, <2>6 DEF GitInv, GitTypeOK
  <2>10. \A u \in Threads : thread'[u].id \in Ids BY <2>6 DEF Caller
  <2>11. Placed' BY <2>3, <2>4, <2>7, <2>8, <2>10 DEF GitInv, Placed, At, Whole, Finished
  <2>12. Promises'
    <3>1. \A p \in Processes : \A i \in Ids :
            entries'[p][i].ready /\ ~entries'[p][i].err /\ ~entries'[p][i].held => Delivered(i)
      BY <1>3 DEF GitInv, Promises
    <3>2. \A u \in Threads : thread'[u].result = "ok" => Delivered(thread'[u].id)
      BY <2>0, <2>7, <2>8 DEF GitInv, Promises
    <3> QED BY <2>4, <2>10, <3>1, <3>2 DEF Promises, Delivered, Whole, Finished
  <2> QED BY <2>9, <2>11, <2>12 DEF GitInv
<1>4. CASE At(t, "place") /\ tree[id] # NoTree /\ To(t, "sub") /\ UNCHANGED <<tree, entries>>
  <2>1. Whole(id) BY <1>0, <1>4 DEF GitInv, Placed
  <2> QED BY <1>4, <2>1, GitMoves DEF GitPcs
<1>5. CASE At(t, "sub") /\ Return(t, id.dir # "" /\ <<tree[id].rev, id.dir>> \notin Dirs) /\ UNCHANGED tree
  <2> DEFINE err == id.dir # "" /\ <<tree[id].rev, id.dir>> \notin Dirs
  <2>1. Whole(id) BY <1>5 DEF GitInv, Placed
  <2>2. tree[id].rev = id.rev BY <2>1 DEF Whole
  <2>3. err \in BOOLEAN OBVIOUS
  <2>4. ~err => Delivered(id) BY <2>1, <2>2 DEF Delivered
  <2> HIDE DEF err
  <2>5. Return(t, err) BY <1>5 DEF err
  <2> QED BY <1>5, <2>3, <2>4, <2>5, GitReturns
<1> QED BY <1>1, <1>2, <1>3, <1>4, <1>5 DEF spn_git_cache_materialize_checkout

LEMMA GitStep == GitInv /\ [GitNext]_gitVars => GitInv'
<1> SUFFICES ASSUME GitInv, [GitNext]_gitVars PROVE GitInv' OBVIOUS
<1>1. CASE UNCHANGED <<tree, entries, thread>>
  BY <1>1 DEF GitInv, GitTypeOK, Placed, Promises, At, Whole, Delivered
<1>2. ASSUME NEW t \in Threads, spn_git_cache_ensure_checkout(t) PROVE GitInv' BY <1>2, GitChecksOut
<1>3. ASSUME NEW t \in Threads, spn_git_cache_ensure_db(t) PROVE GitInv'
  <2>1. CASE UNCHANGED <<tree, entries>> /\ To(t, "rev") BY <2>1, GitMoves DEF GitPcs
  <2>2. CASE UNCHANGED <<tree, entries>> /\ To(t, "clone") BY <2>2, GitMoves DEF GitPcs
  <2>3. CASE UNCHANGED tree /\ Return(t, TRUE) BY <2>3, GitReturns
  <2> QED BY <1>3, <2>1, <2>2, <2>3 DEF spn_git_cache_ensure_db
<1>4. ASSUME NEW t \in Threads, CloneBare(t) PROVE GitInv'
  <2>1. CASE UNCHANGED <<tree, entries>> /\ To(t, "cloning") BY <2>1, GitMoves DEF GitPcs
  <2>2. CASE UNCHANGED <<tree, entries>> /\ To(t, "rev") BY <2>2, GitMoves DEF GitPcs
  <2>3. CASE UNCHANGED tree /\ Return(t, TRUE) BY <2>3, GitReturns
  <2> QED BY <1>4, <2>1, <2>2, <2>3 DEF CloneBare
<1>5. ASSUME NEW t \in Threads, spn_git_db_ensure_rev(t) PROVE GitInv'
  <2>1. CASE UNCHANGED <<tree, entries>> /\ To(t, "dest") BY <2>1, GitMoves DEF GitPcs
  <2>2. CASE UNCHANGED <<tree, entries>> /\ To(t, "fetch") BY <2>2, GitMoves DEF GitPcs
  <2>3. CASE UNCHANGED tree /\ Return(t, TRUE) BY <2>3, GitReturns
  <2> QED BY <1>5, <2>1, <2>2, <2>3 DEF spn_git_db_ensure_rev
<1>6. ASSUME NEW t \in Threads, spn_git_cache_fill_checkout(t) PROVE GitInv' BY <1>6, GitFills
<1>7. ASSUME NEW t \in Threads, spn_git_cache_materialize_checkout(t) PROVE GitInv' BY <1>7, GitMaterializes
<1>8. ASSUME NEW p \in Processes, GitKilled(p) PROVE GitInv'
  <2>1. PICK i \in Ids : i = (CHOOSE j \in Ids : TRUE) BY IdsAssumption
  <2>2. Idle = [pc |-> "idle", id |-> i, work |-> NoTree, result |-> "none"] BY <2>1 DEF Idle
  <2>3. \A u \in Threads : thread'[u] = Idle \/ thread'[u] = thread[u] BY <1>8 DEF GitKilled
  <2>4. \A q \in Processes : \A j \in Ids : entries'[q][j] = entries[q][j] \/ entries'[q][j] = Unready
    BY <1>8 DEF GitKilled, GitInv, GitTypeOK
  <2>5. Idle \in Caller BY <2>2 DEF NoTree, GitPcs, Caller, Works
  <2>6. Unready \in Entry BY DEF Unready, Entry
  <2>7. GitTypeOK' BY <1>8, <2>5, <2>6 DEF GitKilled, GitInv, GitTypeOK
  <2>8. Placed' BY <1>8, <2>2, <2>3 DEF GitKilled, GitInv, Placed, At, Whole, Finished
  <2>9. Promises'
    <3>1. \A q \in Processes : \A j \in Ids :
            entries'[q][j].ready /\ ~entries'[q][j].err /\ ~entries'[q][j].held => Delivered(j)
      BY <2>4 DEF GitInv, Promises, Unready
    <3>2. \A u \in Threads : thread'[u].result = "ok" => Delivered(thread'[u].id)
      BY <2>2, <2>3 DEF GitInv, Promises
    <3> QED BY <1>8, <3>1, <3>2 DEF Promises, Delivered, Whole, GitKilled
  <2> QED BY <2>7, <2>8, <2>9 DEF GitInv
<1> QED BY <1>1, <1>2, <1>3, <1>4, <1>5, <1>6, <1>7, <1>8 DEF GitNext, RemoteMoves, gitVars

-----------------------------------------------------------------------------
(* The storage directory                                                   *)

UserPcs == Opened \cup {"closed", "failed", "stamp", "lock", "locked", "extract", "remove", "removing", "swap"}

(* Where a process holds the runtime's lock, and where it has seen under    *)
(* the lock that the runtime is not of its version.                         *)
Locked == {"locked", "extract", "remove", "removing", "swap"}
Replacing == {"extract", "remove", "removing", "swap"}

StorageTypeOK ==
  /\ runtime \in [stamp : {"none", "old", "new"}, whole : BOOLEAN]
  /\ lock \in [{"runtime", "artifact"} -> Users \cup {"free"}]
  /\ user \in [Users -> [pc : UserPcs, file : {"none", "right", "wrong"}, dir : {"none", "empty", "part", "whole"}]]

StorageInv ==
  /\ StorageTypeOK
  /\ \A u \in Users : user[u].pc \in Locked => lock["runtime"] = u
  /\ \A u \in Users : user[u].pc \in Replacing => runtime.stamp # "new"
  /\ runtime.stamp = "new" => runtime = Current
  /\ \A u \in Users : user[u].pc \in Opened => runtime = Current
  /\ artifact \in {"none", "whole"}
  /\ \A u \in Users : user[u].pc \in {"unlock", "ready"} => artifact = "whole"

LEMMA StorageStarts == StorageInit => StorageInv
<1> SUFFICES ASSUME StorageInit PROVE StorageInv OBVIOUS
<1>1. runtime \in [stamp : {"none", "old", "new"}, whole : BOOLEAN] /\ runtime.stamp # "new"
  <2>1. CASE runtime = Gone BY <2>1 DEF Gone
  <2>2. CASE runtime = [stamp |-> "old", whole |-> TRUE] BY <2>2
  <2> QED BY <2>1, <2>2 DEF StorageInit
<1>2. \A u \in Users : user[u].pc = "closed" BY DEF StorageInit, Fresh
<1>3. StorageTypeOK BY <1>1 DEF StorageInit, StorageTypeOK, Fresh, UserPcs
<1> QED BY <1>1, <1>2, <1>3 DEF StorageInit, StorageInv, Locked, Replacing, Opened

LEMMA StorageStep == StorageInv /\ [StorageNext]_storageVars => StorageInv'
<1> SUFFICES ASSUME StorageInv, [StorageNext]_storageVars PROVE StorageInv' OBVIOUS
<1> USE UsersAssumption
<1>1. CASE UNCHANGED storageVars BY <1>1 DEF storageVars, StorageInv, StorageTypeOK
<1>2. ASSUME NEW u \in Users, open_roots(u) PROVE StorageInv'
  BY <1>2 DEF open_roots, Pc, Go, StorageInv, StorageTypeOK, UserPcs, Locked, Replacing, Opened
<1>3. ASSUME NEW u \in Users, extract_runtime(u) PROVE StorageInv'
  BY <1>3 DEF extract_runtime, read_stamp, Reread, Acquire, Release, Current, Pc, Go, StorageInv, StorageTypeOK, UserPcs, Locked, Replacing, Opened
<1>4. ASSUME NEW u \in Users, extract(u) PROVE StorageInv'
  <2> USE DEF Release, Pc, Go, StorageInv, StorageTypeOK, UserPcs, Locked, Replacing, Opened
  <2>1. CASE Pc(u, "extract") /\ Go(u, "remove") /\ UNCHANGED <<runtime, lock, artifact>> BY <2>1
  <2>2. CASE Pc(u, "extract") /\ Go(u, "failed") /\ Release(u, "runtime") /\ UNCHANGED <<runtime, artifact>> BY <2>2
  <2>3. CASE /\ Pc(u, "remove") /\ Go(u, "removing") /\ UNCHANGED <<lock, artifact>>
             /\ runtime' \in {Gone, [runtime EXCEPT !.whole = FALSE], [runtime EXCEPT !.stamp = "none"]}
    <3>1. runtime.stamp # "new" BY <2>3
    <3>2. runtime' \in [stamp : {"none", "old", "new"}, whole : BOOLEAN] /\ runtime'.stamp # "new"
      <4>1. CASE runtime' = Gone BY <4>1 DEF Gone
      <4>2. CASE runtime' = [runtime EXCEPT !.whole = FALSE] BY <3>1, <4>2
      <4>3. CASE runtime' = [runtime EXCEPT !.stamp = "none"] BY <4>3
      <4> QED BY <2>3, <4>1, <4>2, <4>3
    <3>3. \A v \in Users : user[v].pc \notin Opened BY <3>1 DEF Current
    <3> QED BY <2>3, <3>2, <3>3
  <2>4. CASE Pc(u, "removing") /\ Go(u, "swap") /\ runtime' = Gone /\ UNCHANGED <<lock, artifact>>
    <3>1. \A v \in Users : user[v].pc \notin Opened BY <2>4 DEF Current
    <3>2. runtime' \in [stamp : {"none", "old", "new"}, whole : BOOLEAN] /\ runtime'.stamp # "new" BY <2>4 DEF Gone
    <3> QED BY <2>4, <3>1, <3>2
  <2>5. CASE Pc(u, "swap") /\ runtime' = Current /\ Go(u, "open") /\ Release(u, "runtime") /\ UNCHANGED artifact
    <3>1. Current \in [stamp : {"none", "old", "new"}, whole : BOOLEAN] BY DEF Current
    <3>2. \A v \in Users : v # u => user[v].pc \notin Locked BY <2>5
    <3> QED BY <2>5, <3>1, <3>2
  <2>6. CASE Pc(u, "swap") /\ Go(u, "failed") /\ Release(u, "runtime") /\ UNCHANGED <<runtime, artifact>> BY <2>6
  <2> QED BY <1>4, <2>1, <2>2, <2>3, <2>4, <2>5, <2>6 DEF extract
<1>5. ASSUME NEW u \in Users, spn_toolchain_provision(u) PROVE StorageInv'
  BY <1>5 DEF spn_toolchain_provision, Acquire, Release, Pc, Go, StorageInv, StorageTypeOK, UserPcs, Locked, Replacing, Opened
<1>6. ASSUME NEW u \in Users, fetch(u) PROVE StorageInv'
  BY <1>6 DEF fetch, Served, Pc, Go, StorageInv, StorageTypeOK, UserPcs, Locked, Replacing, Opened
<1>7. ASSUME NEW u \in Users, fill(u) PROVE StorageInv'
  BY <1>7 DEF fill, Digest, Extracted, Pc, Go, StorageInv, StorageTypeOK, UserPcs, Locked, Replacing, Opened
<1>8. ASSUME NEW u \in Users, refused(u) PROVE StorageInv'
  BY <1>8 DEF refused, Release, Pc, Go, StorageInv, StorageTypeOK, UserPcs, Locked, Replacing, Opened
<1>9. ASSUME NEW u \in Users, Leave(u) PROVE StorageInv'
  BY <1>9 DEF Leave, Fresh, StorageInv, StorageTypeOK, UserPcs, Locked, Replacing, Opened
<1> QED BY <1>1, <1>2, <1>3, <1>4, <1>5, <1>6, <1>7, <1>8, <1>9 DEF StorageNext

-----------------------------------------------------------------------------
(* The staged build directory                                              *)

Plans == UNION {[X -> SUBSET Libs] : X \in SUBSET Exes}
StagePcs == {"idle", "lock", "read", "drop", "copy"}
Results == {"none", "ok", "failed", "cancelled"}
Records == Exes \X Entries
Sessions == [pc : StagePcs, plan : Plans, digest : [Entries -> Nat], previous : SUBSET Records, drop : SUBSET Entries,
             missed : SUBSET Entries, todo : SUBSET Entries, result : Results, builds : Nat]

StagingTypeOK ==
  /\ lockfile \in BOOLEAN
  /\ staged \in [Entries -> Nat]
  /\ listed \subseteq Records
  /\ stray \subseteq Entries
  /\ session \in Sessions

(* Every entry that is there can be found again.                            *)
Recorded == \A e \in Entries : staged[e] # Absent => e \in stray \cup Names(listed)

(* While entries are dropped: only ones that the manifest that was read     *)
(* names and the new one will not; and those that are not to be dropped any *)
(* more are gone, or known to be missed.                                    *)
Unwanted == Names(session.previous) \ Live(session.previous)
Dropping ==
  In("drop") => /\ session.previous \in {listed, {}}
                /\ session.drop \subseteq Unwanted
                /\ \A e \in Unwanted \ (session.drop \cup session.missed) : staged[e] = Absent

(* While entries are copied: each of them is recorded already, and what is  *)
(* not to be copied any more is as it was built.                            *)
Copying ==
  In("copy") => /\ session.todo \subseteq Closure(session.plan)
                /\ \A e \in Closure(session.plan) :
                     /\ e \in stray \cup Names(listed)
                     /\ e \notin session.todo => staged[e] = session.digest[e]

Ended ==
  /\ session.pc \in {"read", "drop", "copy"} => lockfile
  /\ In("idle") /\ session.result = "ok" =>
       lockfile /\ \A e \in Closure(session.plan) : staged[e] = session.digest[e]

StagingInv == StagingTypeOK /\ Recorded /\ Dropping /\ Copying /\ Ended

LEMMA PlanFacts ==
  ASSUME NEW plan \in Plans
  PROVE  /\ DOMAIN plan \subseteq Exes
         /\ \A x \in DOMAIN plan : plan[x] \subseteq Libs
         /\ Closure(plan) \subseteq Entries
<1>1. PICK X \in SUBSET Exes : plan \in [X -> SUBSET Libs] BY DEF Plans
<1>2. DOMAIN plan = X /\ \A x \in X : plan[x] \subseteq Libs BY <1>1
<1> QED BY <1>2 DEF Closure, Entries

LEMMA StagingStarts == StagingInit => StagingInv
<1> SUFFICES ASSUME StagingInit PROVE StagingInv OBVIOUS
<1>1. <<>> \in Plans
  <2>1. <<>> \in [{} -> SUBSET Libs] OBVIOUS
  <2> QED BY <2>1 DEF Plans
<1>2. Rest \in Sessions BY <1>1 DEF Rest, Sessions, StagePcs, Results
<1>3. Rest.pc = "idle" /\ Rest.result = "none" BY DEF Rest
<1>4. StagingTypeOK BY <1>2 DEF StagingInit, StagingTypeOK, Absent
<1>5. Recorded BY DEF StagingInit, Recorded
<1> QED BY <1>3, <1>4, <1>5 DEF StagingInit, StagingInv, Dropping, Copying, Ended, In

(* What the next manifest lists, if the previous one was read as this.      *)
LEMMA LiveFacts ==
  ASSUME StagingTypeOK, NEW previous \in SUBSET Records
  PROVE  /\ NextListed(previous) \subseteq Records
         /\ Live(previous) \subseteq Entries
         /\ Names(previous) \subseteq Entries
         /\ Closure(session.plan) \subseteq Live(previous)
         /\ \A x \in Exes \ DOMAIN session.plan : \A e : <<x, e>> \in previous => e \in Live(previous)
<1>1. session.plan \in Plans BY DEF StagingTypeOK, Sessions
<1>2. /\ DOMAIN session.plan \subseteq Exes
      /\ \A x \in DOMAIN session.plan : session.plan[x] \subseteq Libs
  BY <1>1, PlanFacts
<1>3. NextListed(previous) \subseteq Records BY <1>2 DEF NextListed, Kept, Entries, Records
<1>4. Live(previous) \subseteq Entries /\ Names(previous) \subseteq Entries BY <1>3 DEF Live, Names, Records
<1>5. ASSUME NEW e \in Closure(session.plan) PROVE e \in Live(previous)
  <2>1. CASE e \in DOMAIN session.plan
    <3>1. <<e, e>> \in NextListed(previous) BY <2>1 DEF NextListed
    <3> QED BY <3>1 DEF Live, Names
  <2>2. ASSUME NEW x \in DOMAIN session.plan, e \in session.plan[x] PROVE e \in Live(previous)
    <3>1. <<x, e>> \in NextListed(previous) BY <1>2, <2>2 DEF NextListed
    <3> QED BY <3>1 DEF Live, Names
  <2> QED BY <1>5, <2>1, <2>2 DEF Closure
<1>6. ASSUME NEW x \in Exes \ DOMAIN session.plan, NEW e, <<x, e>> \in previous PROVE e \in Live(previous)
  <2>1. <<x, e>> \in NextListed(previous) BY <1>6 DEF NextListed, Kept
  <2> QED BY <2>1 DEF Live, Names
<1> QED BY <1>3, <1>4, <1>5, <1>6

(* A build that begins, ends or is cut short leaves the directory alone.    *)
LEMMA StagingRests ==
  ASSUME StagingInv, session' \in Sessions, UNCHANGED <<lockfile, staged, listed, stray>>,
         session'.pc \in {"idle", "lock"}, session'.result # "ok"
  PROVE  StagingInv'
<1>1. StagingTypeOK' BY DEF StagingInv, StagingTypeOK
<1>2. Recorded' BY DEF StagingInv, Recorded, Names
<1> QED BY <1>1, <1>2 DEF StagingInv, Dropping, Copying, Ended, In

LEMMA BuildStarts == StagingInv /\ spn_dag_build_session => StagingInv'
<1> SUFFICES ASSUME StagingInv, spn_dag_build_session PROVE StagingInv' OBVIOUS
<1>1. PICK exes \in (SUBSET Exes) \ {{}} : \E plan \in [exes -> SUBSET Libs] :
       \E digest \in [Closure(plan) -> 1..MaxDigest], result \in {"ok", "failed", "cancelled"} :
         session' = [pc |-> IF result = "ok" THEN "lock" ELSE "idle", plan |-> plan,
                     digest |-> [e \in Entries |-> IF e \in DOMAIN digest THEN digest[e] ELSE 1],
                     previous |-> {}, drop |-> {}, missed |-> {}, todo |-> {}, result |-> IF result = "ok" THEN "none" ELSE result, builds |-> session.builds + 1]
  BY DEF spn_dag_build_session
<1>2. PICK plan \in [exes -> SUBSET Libs] :
       \E digest \in [Closure(plan) -> 1..MaxDigest], result \in {"ok", "failed", "cancelled"} :
         session' = [pc |-> IF result = "ok" THEN "lock" ELSE "idle", plan |-> plan,
                     digest |-> [e \in Entries |-> IF e \in DOMAIN digest THEN digest[e] ELSE 1],
                     previous |-> {}, drop |-> {}, missed |-> {}, todo |-> {}, result |-> IF result = "ok" THEN "none" ELSE result, builds |-> session.builds + 1]
  BY <1>1
<1>3. PICK digest \in [Closure(plan) -> 1..MaxDigest], result \in {"ok", "failed", "cancelled"} :
         session' = [pc |-> IF result = "ok" THEN "lock" ELSE "idle", plan |-> plan,
                     digest |-> [e \in Entries |-> IF e \in DOMAIN digest THEN digest[e] ELSE 1],
                     previous |-> {}, drop |-> {}, missed |-> {}, todo |-> {}, result |-> IF result = "ok" THEN "none" ELSE result, builds |-> session.builds + 1]
  BY <1>2
<1> DEFINE d == [e \in Entries |-> IF e \in DOMAIN digest THEN digest[e] ELSE 1]
           pc == IF result = "ok" THEN "lock" ELSE "idle"
           res == IF result = "ok" THEN "none" ELSE result
<1>4. d \in [Entries -> Nat] OBVIOUS
<1>5. plan \in Plans BY DEF Plans
<1>6. pc \in {"idle", "lock"} /\ pc \in StagePcs /\ res \in Results /\ res # "ok" BY DEF StagePcs, Results
<1>7. session.builds + 1 \in Nat BY DEF StagingInv, StagingTypeOK, Sessions
<1>8. session' = [pc |-> pc, plan |-> plan, digest |-> d, previous |-> {}, drop |-> {}, missed |-> {},
                   todo |-> {}, result |-> res, builds |-> session.builds + 1]
  BY <1>3
<1> HIDE DEF d, pc, res
<1>9. session' \in Sessions /\ session'.pc = pc /\ session'.result = res BY <1>4, <1>5, <1>6, <1>7, <1>8 DEF Sessions
<1> QED BY <1>6, <1>9, StagingRests DEF spn_dag_build_session

LEMMA LockWritten == StagingInv /\ spn_project_update_lock => StagingInv'
<1> SUFFICES ASSUME StagingInv, spn_project_update_lock PROVE StagingInv' OBVIOUS
<1>0. session \in Sessions /\ UNCHANGED <<staged, listed, stray>> BY DEF StagingInv, StagingTypeOK, spn_project_update_lock
<1>1. CASE lockfile' /\ session' = [session EXCEPT !.pc = "read"]
  <2>1. session' \in Sessions /\ session'.pc = "read" BY <1>0, <1>1 DEF Sessions, StagePcs
  <2>2. StagingTypeOK' BY <1>0, <2>1, <1>1 DEF StagingInv, StagingTypeOK, spn_project_update_lock
  <2>3. Recorded' BY <1>0 DEF StagingInv, Recorded, Names
  <2> QED BY <1>1, <2>1, <2>2, <2>3 DEF StagingInv, Dropping, Copying, Ended, In
<1>2. CASE UNCHANGED lockfile /\ session' = [session EXCEPT !.pc = "idle", !.result = "failed"]
  <2>1. session' \in Sessions /\ session'.pc = "idle" /\ session'.result = "failed" BY <1>0, <1>2 DEF Sessions, StagePcs, Results
  <2> QED BY <1>0, <1>2, <2>1, StagingRests
<1> QED BY <1>1, <1>2 DEF spn_project_update_lock, StagingInv, StagingTypeOK

LEMMA StageRuns == StagingInv /\ dag_stage => StagingInv'
<1> SUFFICES ASSUME StagingInv, dag_stage PROVE StagingInv' OBVIOUS
<1>0. session \in Sessions /\ StagingTypeOK BY DEF StagingInv, StagingTypeOK
<1>1. ASSUME In("read"), UNCHANGED <<lockfile, staged, listed, stray>>, NEW previous \in {listed, {}},
             session' = [session EXCEPT !.pc = "drop", !.previous = previous, !.drop = Names(previous) \ Live(previous)]
      PROVE  StagingInv'
  <2> DEFINE d == Names(previous) \ Live(previous)
  <2>1. previous \in SUBSET Records BY <1>0, <1>1 DEF StagingTypeOK
  <2>2. d \in SUBSET Entries BY <1>0, <2>1, LiveFacts
  <2>3. session' = [session EXCEPT !.pc = "drop", !.previous = previous, !.drop = d] BY <1>1
  <2> HIDE DEF d
  <2>4. /\ session' \in Sessions /\ session'.pc = "drop" /\ session'.drop = d /\ session'.previous = previous
        /\ session'.plan = session.plan
    BY <1>0, <2>1, <2>2, <2>3 DEF Sessions, StagePcs
  <2>5. Unwanted' = d BY <2>4 DEF Unwanted, Live, NextListed, Kept, Names, d
  <2>6. UNCHANGED Names(listed) BY <1>1 DEF Names
  <2>7. StagingTypeOK' BY <1>1, <2>4 DEF StagingInv, StagingTypeOK
  <2>8. Recorded' BY <1>1, <2>6 DEF StagingInv, Recorded
  <2>9. Dropping' BY <1>1, <2>4, <2>5 DEF Dropping
  <2> QED BY <1>1, <2>4, <2>7, <2>8, <2>9 DEF StagingInv, Copying, Ended, In
<1>2. ASSUME In("drop"), UNCHANGED <<lockfile, listed>>, NEW e \in session.drop, NEW missed \in SUBSET Entries,
             session' = [session EXCEPT !.drop = @ \ {e}, !.missed = missed], session.missed \subseteq missed,
             staged' \in [Entries -> Nat], \A x \in Entries : staged'[x] \in {staged[x], Absent},
             staged'[e] = Absent \/ e \in missed,
             stray' \subseteq Entries, \A x \in stray : x \in stray' \/ staged'[x] = Absent
      PROVE  StagingInv'
  <2>1. /\ session' \in Sessions /\ session'.pc = "drop" /\ session'.drop = session.drop \ {e}
        /\ session'.missed = missed /\ session'.previous = session.previous /\ session'.plan = session.plan
    BY <1>0, <1>2 DEF Sessions, In
  <2>2. UNCHANGED Unwanted BY <2>1 DEF Unwanted, Live, NextListed, Kept, Names
  <2>3. UNCHANGED Names(listed) BY <1>2 DEF Names
  <2>4. StagingTypeOK' BY <1>2, <2>1 DEF StagingInv, StagingTypeOK
  <2>5. Recorded' BY <1>2, <2>3 DEF StagingInv, Recorded
  <2>6. Unwanted \subseteq Entries BY <1>0, LiveFacts DEF Unwanted, Sessions
  <2>7. Dropping' BY <1>2, <2>1, <2>2, <2>6 DEF StagingInv, Dropping
  <2> QED BY <1>2, <2>1, <2>4, <2>5, <2>7 DEF StagingInv, Copying, Ended, In
<1>3. ASSUME In("drop"), UNCHANGED <<lockfile, listed>>, NEW e \in session.drop, session' = [session EXCEPT !.drop = @ \ {e}],
             staged' = [staged EXCEPT ![e] = Absent], stray' = stray \ {e}
      PROVE  StagingInv'
  <2>1. e \in Entries /\ session.missed \in SUBSET Entries /\ session' = [session EXCEPT !.drop = @ \ {e}, !.missed = session.missed]
    BY <1>0, <1>3 DEF Sessions
  <2>2. staged' \in [Entries -> Nat] /\ \A x \in Entries : staged'[x] = IF x = e THEN Absent ELSE staged[x]
    BY <1>0, <1>3, <2>1 DEF StagingTypeOK, Absent
  <2> QED BY <1>0, <1>2, <1>3, <2>1, <2>2 DEF StagingTypeOK
<1>4. ASSUME In("drop"), UNCHANGED <<lockfile, listed>>, NEW e \in session.drop, UNCHANGED <<staged, stray>>,
             session' = [session EXCEPT !.drop = @ \ {e}, !.missed = @ \cup {e}]
      PROVE  StagingInv'
  <2>1. e \in Entries /\ session.missed \in SUBSET Entries BY <1>0 DEF Sessions
  <2>2. PICK missed \in SUBSET Entries : missed = session.missed \cup {e} BY <2>1
  <2>3. session' = [session EXCEPT !.drop = @ \ {e}, !.missed = missed] BY <1>0, <1>4, <2>2 DEF Sessions
  <2> QED BY <1>0, <1>2, <1>4, <2>2, <2>3 DEF StagingTypeOK
<1>5. CASE /\ In("drop") /\ session.drop = {} /\ UNCHANGED <<lockfile, staged>>
           /\ session' = [session EXCEPT !.pc = "copy", !.previous = {}, !.missed = {}, !.todo = Closure(session.plan)]
           /\ LET live == Live(session.previous)
              IN  \/ listed' = NextListed(session.previous) /\ stray' = (stray \cup Unrecorded) \ live
                  \/ UNCHANGED listed /\ stray' = stray \cup (live \ Names(listed))
  <2>0. session.plan \in Plans /\ session.previous \in SUBSET Records /\ session.missed \in SUBSET Entries
    BY <1>0 DEF Sessions
  <2>1. PICK k \in SUBSET Entries : k = Closure(session.plan) BY <2>0, PlanFacts
  <2>2. PICK live \in SUBSET Entries : live = Live(session.previous) BY <1>0, <2>0, LiveFacts
  <2>3. k \subseteq live /\ NextListed(session.previous) \subseteq Records /\ live = Names(NextListed(session.previous))
    BY <1>0, <2>0, <2>1, <2>2, LiveFacts DEF Live
  <2>4. session' = [session EXCEPT !.pc = "copy", !.previous = {}, !.missed = {}, !.todo = k] BY <1>5, <2>1
  <2>5. session' \in Sessions /\ session'.pc = "copy" /\ session'.todo = k /\ session'.plan = session.plan
    BY <1>0, <2>4 DEF Sessions, StagePcs
  <2>6. Closure(session.plan)' = k BY <2>1, <2>5 DEF Closure
  <2>7. Names(listed) \subseteq Entries BY <1>0, LiveFacts DEF StagingTypeOK
  <2>8. /\ StagingTypeOK' /\ Recorded'
        /\ \A e \in k : e \in stray' \cup Names(listed)'
    <3>1. CASE listed' = NextListed(session.previous) /\ stray' = (stray \cup Unrecorded) \ live
      <4>1. Names(listed)' = live BY <2>3, <3>1 DEF Names
      <4>2. Unrecorded = session.missed \cup (Names(listed) \ Names(session.previous)) BY DEF Unrecorded
      <4>3. \A e \in Names(session.previous) : e \in live \/ e \in session.missed \/ staged[e] = Absent
        BY <1>5, <2>2 DEF StagingInv, Dropping, Unwanted
      <4>4. \A e \in stray \cup Names(listed) : e \in stray' \cup live \/ staged[e] = Absent BY <3>1, <4>2, <4>3
      <4>5. Recorded' BY <1>5, <4>1, <4>4 DEF StagingInv, Recorded
      <4>6. StagingTypeOK' BY <1>5, <1>0, <2>0, <2>3, <2>5, <2>7, <3>1, <4>2 DEF StagingTypeOK
      <4> QED BY <2>3, <4>1, <4>5, <4>6
    <3>2. CASE UNCHANGED listed /\ stray' = stray \cup (live \ Names(listed))
      <4>1. Names(listed)' = Names(listed) BY <3>2 DEF Names
      <4>2. Recorded' BY <1>5, <3>2, <4>1 DEF StagingInv, Recorded
      <4>3. StagingTypeOK' BY <1>5, <1>0, <2>5, <3>2 DEF StagingTypeOK
      <4> QED BY <2>3, <3>2, <4>1, <4>2, <4>3
    <3> QED BY <1>5, <2>2, <3>1, <3>2
  <2>9. Copying' BY <2>5, <2>6, <2>8 DEF Copying
  <2> QED BY <1>5, <2>5, <2>8, <2>9 DEF StagingInv, Dropping, Ended, In
<1> QED BY <1>1, <1>3, <1>4, <1>5 DEF dag_stage

LEMMA StageCopies == StagingInv /\ dag_stage_copy => StagingInv'
<1> SUFFICES ASSUME StagingInv, dag_stage_copy PROVE StagingInv' OBVIOUS
<1>0. session \in Sessions /\ StagingTypeOK /\ In("copy") /\ UNCHANGED <<lockfile, listed, stray>>
  BY DEF StagingInv, StagingTypeOK, dag_stage_copy
<1>1. ASSUME NEW e \in session.todo, staged' = [staged EXCEPT ![e] = session.digest[e]], session' = [session EXCEPT !.todo = @ \ {e}]
      PROVE  StagingInv'
  <2>1. e \in Entries BY <1>0 DEF Sessions
  <2>2. /\ session' \in Sessions /\ session'.pc = "copy" /\ session'.todo = session.todo \ {e}
        /\ session'.plan = session.plan /\ session'.digest = session.digest
    BY <1>0, <1>1 DEF Sessions, In
  <2>3. session.digest \in [Entries -> Nat] BY <1>0 DEF Sessions
  <2>4. staged' \in [Entries -> Nat] /\ \A x \in Entries : staged'[x] = IF x = e THEN session.digest[e] ELSE staged[x]
    BY <1>1, <2>1, <2>3 DEF StagingInv, StagingTypeOK
  <2>5. UNCHANGED <<Names(listed), Closure(session.plan)>> BY <1>0, <2>2 DEF Names, Closure
  <2>6. StagingTypeOK' BY <1>0, <2>2, <2>4 DEF StagingTypeOK
  <2>7. session.plan \in Plans /\ Closure(session.plan) \subseteq Entries BY <1>0, PlanFacts DEF Sessions
  <2>8. Copying' BY <1>0, <2>2, <2>4, <2>5, <2>7 DEF StagingInv, Copying
  <2>9. Recorded' BY <1>0, <1>1, <2>4, <2>5 DEF StagingInv, Recorded, Copying
  <2> QED BY <1>0, <2>2, <2>6, <2>8, <2>9 DEF StagingInv, Dropping, Ended, In
<1>2. CASE UNCHANGED staged /\ session' = [session EXCEPT !.pc = "idle", !.result = "failed"]
  <2>1. session' \in Sessions /\ session'.pc = "idle" /\ session'.result = "failed" BY <1>0, <1>2 DEF Sessions, StagePcs, Results
  <2> QED BY <1>0, <1>2, <2>1, StagingRests
<1>3. CASE session.todo = {} /\ UNCHANGED staged /\ session' = [session EXCEPT !.pc = "idle", !.result = "ok"]
  <2>1. /\ session' \in Sessions /\ session'.pc = "idle" /\ session'.plan = session.plan /\ session'.digest = session.digest
    BY <1>0, <1>3 DEF Sessions, StagePcs, Results
  <2>2. UNCHANGED <<Names(listed), Closure(session.plan)>> BY <1>0, <2>1 DEF Names, Closure
  <2>3. StagingTypeOK' BY <1>0, <1>3, <2>1 DEF StagingTypeOK
  <2>4. Recorded' BY <1>0, <1>3, <2>2 DEF StagingInv, Recorded
  <2>5. Ended' BY <1>0, <1>3, <2>1, <2>2 DEF StagingInv, Copying, Ended, In
  <2> QED BY <2>1, <2>3, <2>4, <2>5 DEF StagingInv, Dropping, Copying, In
<1> QED BY <1>1, <1>2, <1>3 DEF dag_stage_copy

LEMMA Cleaned == StagingInv /\ spn_op_clean => StagingInv'
<1> SUFFICES ASSUME StagingInv, spn_op_clean PROVE StagingInv' OBVIOUS
<1>1. PICK left \in SUBSET {e \in Entries : staged[e] # Absent}, manifest \in BOOLEAN :
        /\ staged' = [e \in Entries |-> IF e \in left THEN staged[e] ELSE Absent]
        /\ listed' = IF manifest THEN listed ELSE {}
        /\ stray' = IF manifest THEN stray \cap left ELSE left
  BY DEF spn_op_clean
<1>2. /\ session' \in Sessions /\ session'.pc = "idle" /\ session'.result = "none"
  BY DEF spn_op_clean, StagingInv, StagingTypeOK, Sessions, In, Results
<1>3. StagingTypeOK' BY <1>1, <1>2 DEF spn_op_clean, StagingInv, StagingTypeOK, Absent
<1>4. Recorded' BY <1>1 DEF StagingInv, Recorded, Names
<1> QED BY <1>2, <1>3, <1>4 DEF StagingInv, Dropping, Copying, Ended, In

LEMMA Touched == StagingInv /\ UserTouches => StagingInv'
<1> SUFFICES ASSUME StagingInv, UserTouches PROVE StagingInv' OBVIOUS
<1>1. PICK e \in Entries : staged[e] # Absent /\ \E c \in {Absent, MaxDigest + 1} : staged' = [staged EXCEPT ![e] = c]
  BY DEF UserTouches
<1>2. PICK c \in {Absent, MaxDigest + 1} : staged' = [staged EXCEPT ![e] = c] BY <1>1
<1>3. c \in Nat BY DigestAssumption DEF Absent
<1>4. session' \in Sessions /\ session'.pc = "idle" /\ session'.result = "none"
  BY DEF UserTouches, StagingInv, StagingTypeOK, Sessions, In, Results
<1>5. StagingTypeOK' BY <1>2, <1>3, <1>4 DEF UserTouches, StagingInv, StagingTypeOK
<1>6. Recorded' BY <1>1, <1>2 DEF UserTouches, StagingInv, StagingTypeOK, Recorded, Names
<1> QED BY <1>4, <1>5, <1>6 DEF StagingInv, Dropping, Copying, Ended, In

LEMMA StagingStep == StagingInv /\ [StagingNext]_stagingVars => StagingInv'
<1> SUFFICES ASSUME StagingInv, [StagingNext]_stagingVars PROVE StagingInv' OBVIOUS
<1>1. CASE UNCHANGED stagingVars
  <2>1. UNCHANGED <<Unwanted, Names(listed), Closure(session.plan)>>
    BY <1>1 DEF stagingVars, Unwanted, Live, NextListed, Kept, Names, Closure
  <2> QED BY <1>1, <2>1 DEF stagingVars, StagingInv, StagingTypeOK, Recorded, Dropping, Copying, Ended, In
<1>2. CASE CutShort
  <2>1. session' \in Sessions /\ session'.pc = "idle" /\ session'.result = "none"
    BY <1>2 DEF CutShort, StagingInv, StagingTypeOK, Sessions, StagePcs, Results
  <2> QED BY <1>2, <2>1, StagingRests DEF CutShort
<1> QED BY <1>1, <1>2, BuildStarts, LockWritten, StageRuns, StageCopies, Cleaned, Touched DEF StagingNext

-----------------------------------------------------------------------------
(* Whatever is staged is listed and can be cleaned up by a later build,     *)
(* unless the manifest could not be read or written, the entry not be       *)
(* removed (dag_stage), or spn clean was cut short; what a build drops no   *)
(* other executable needs, and a build that says OK (spn_dag_build_session) *)
(* has staged all it planned: for any executables and libraries and any     *)
(* number of builds.                                                        *)
THEOREM StagedIsListed == Spec => []StagedListed
<1>1. Init => StagingInv BY StagingStarts DEF Init
<1>2. StagingInv /\ [Next]_<<part, gitVars, storageVars, storeVars, indexVars, stagingVars>> => StagingInv'
  BY StagingStep DEF Next, OfGit, OfStorage, OfStore, OfIndex, OfStaging
<1>3. StagingInv => StagedListed
  <2> SUFFICES ASSUME StagingInv PROVE StagedListed OBVIOUS
  <2>1. \A e \in Names(listed) : \E x \in Exes : <<x, e>> \in listed
    BY DEF StagingInv, StagingTypeOK, Records, Names
  <2>2. In("drop") => \A e \in session.drop : ~\E x \in Exes \ DOMAIN session.plan : <<x, e>> \in listed
    <3>1. CASE In("drop") /\ session.previous = listed BY <3>1, LiveFacts DEF StagingInv, StagingTypeOK, Dropping, Unwanted
    <3>2. CASE In("drop") /\ session.previous = {} BY <3>2 DEF StagingInv, Dropping, Unwanted, Names
    <3> QED BY <3>1, <3>2 DEF StagingInv, Dropping
  <2> QED BY <2>1, <2>2 DEF StagingInv, Recorded, Ended, StagedListed
<1> QED BY <1>1, <1>2, <1>3, PTL DEF Spec

(* Whatever is at a checkout's path is whole, with its patches, and callers *)
(* that were told OK have it (spn_git_cache_ensure_checkout); who got past  *)
(* extract_runtime keeps a whole runtime of its version; a toolchain's      *)
(* directory is whole once it is there: for any number of processes and     *)
(* threads, wherever they are killed.                                       *)
THEOREM TreesAreWhole == Spec => []TreesWhole
<1>1. Init => GitInv /\ StorageInv BY GitStarts, StorageStarts DEF Init
<1>2. GitInv /\ StorageInv /\ [Next]_<<part, gitVars, storageVars, storeVars, indexVars, stagingVars>> => GitInv' /\ StorageInv'
  BY GitStep, StorageStep DEF Next, OfGit, OfStorage, OfStore, OfIndex, OfStaging
<1>3. GitInv /\ StorageInv => TreesWhole
  <2>1. GitInv => CheckoutsWhole
    BY DEF GitInv, Placed, Promises, CheckoutsWhole, Delivered, spn_git_cache_is_checkout_cached
  <2>2. StorageInv => StorageWhole BY DEF StorageInv, StorageWhole
  <2> QED BY <2>1, <2>2 DEF TreesWhole
<1> QED BY <1>1, <1>2, <1>3, PTL DEF Spec

-----------------------------------------------------------------------------
(* The index: publishing a release.                                        *)
(* For every set of machines and versions and any number of requests and    *)
(* of failures of file operations: retries and lost answers never publish a *)
(* version twice, and a publisher that failed leaves a replica that is      *)
(* upstream's, but for the exceptions that PublishedOnce names.             *)

LineType == [version : Versions \cup {"none", "junk"}, by : Machines \cup {"someone"}, read : BOOLEAN]
Replica == [at : {"none", "partial", "repo", "held"}, log : Seq(LineType), base : Nat,
            change : {"none", "added", "committed"}]
JobPcs == {"idle", "freshen", "change", "push", "restore"}
JobResults == {"none", "refused", "synced", "unsynced", "ok", "failed"}
JobRecord == [pc : JobPcs, version : Versions \cup {"none"}, attempt : Nat, dirtied : BOOLEAN,
              result : JobResults, wrote : BOOLEAN]

IndexTypeOK ==
  /\ upstream \in Seq(LineType)
  /\ tip \in Nat
  /\ replica \in [Machines -> Replica]
  /\ job \in [Machines -> JobRecord]

Begins(s, t) == Len(s) <= Len(t) /\ \A i \in 1..Len(s) : s[i] = t[i]
Once(log) == \A i, j \in DOMAIN log : log[i].version = log[j].version /\ i < j => ~log[j].read
Holds(log, v, m) == \E i \in DOMAIN log : log[i].version = v /\ log[i].by = m

(* What a publication that failed may leave: lines that are upstream's, a   *)
(* replica that could not be removed, or a file git was given while         *)
(* upstream had no commit.                                                  *)
Left(r, up) == Begins(r.log, up) \/ (r.base = 0 /\ r.change = "added") \/ r.at = "held"

(* A machine's replica, as it relates to upstream: one that stands on its   *)
(* tip has all its lines, and one that stands on no commit only own lines.  *)
ReplicaFits(m, r, up, t) ==
  /\ r.base <= t
  /\ r.base = t => Begins(up, r.log)
  /\ r.base = 0 => \A i \in DOMAIN r.log : r.log[i].by = m
  /\ Once(r.log)

(* A machine's job: one that is about to push has its line in the replica,  *)
(* if it wrote it; one that ended well has it upstream; one that failed, or *)
(* is about to look at the replica, left or found nothing it should not.    *)
JobFits(m, r, j, up) ==
  /\ j.pc # "idle" => j.result = "none"
  /\ j.pc = "push" /\ j.wrote => Holds(r.log, j.version, m)
  /\ j.result = "ok" /\ j.wrote => Holds(up, j.version, m)
  /\ j.pc = "change" \/ j.result = "failed" => Left(r, up)

IndexInv ==
  /\ IndexTypeOK
  /\ tip = 0 => upstream = <<>>
  /\ Once(upstream)
  /\ \A m \in Machines : ReplicaFits(m, replica[m], upstream, tip) /\ JobFits(m, replica[m], job[m], upstream)

LEMMA BeginsSelf ==
  ASSUME NEW s \in Seq(LineType)
  PROVE  Begins(s, s)
<1>1. Len(s) \in Nat OBVIOUS
<1> QED BY <1>1 DEF Begins

LEMMA BeginsAll ==
  ASSUME NEW s \in Seq(LineType), NEW t \in Seq(LineType), NEW u \in Seq(LineType), Begins(s, t), Begins(t, u)
  PROVE  Begins(s, u)
<1>1. Len(s) \in Nat /\ Len(t) \in Nat /\ Len(u) \in Nat OBVIOUS
<1>2. 1..Len(s) \subseteq 1..Len(t) BY <1>1 DEF Begins
<1> QED BY <1>1, <1>2 DEF Begins

(* What a job may rely on does not change when upstream grows.              *)
LEMMA JobFitsStill ==
  ASSUME NEW m, NEW r \in Replica, NEW j, NEW up \in Seq(LineType), NEW up2 \in Seq(LineType),
         JobFits(m, r, j, up), Begins(up, up2)
  PROVE  JobFits(m, r, j, up2)
<1>1. Begins(r.log, up) => Begins(r.log, up2) BY BeginsAll DEF Replica
<1>2. Len(up) \in Nat /\ Len(up2) \in Nat /\ DOMAIN up = 1..Len(up) /\ DOMAIN up2 = 1..Len(up2) OBVIOUS
<1>3. DOMAIN up \subseteq DOMAIN up2 /\ \A i \in DOMAIN up : up2[i] = up[i] BY <1>2 DEF Begins
<1>4. Holds(up, j.version, m) => Holds(up2, j.version, m) BY <1>3 DEF Holds
<1>5. Left(r, up) => Left(r, up2) BY <1>1 DEF Left
<1> QED BY <1>4, <1>5 DEF JobFits

(* A job that is over, or has yet to freshen or restore, relies on nothing, *)
(* unless it says OK or failed.                                             *)
LEMMA RestingFits ==
  ASSUME NEW m, NEW r, NEW j, NEW up, j.pc \in {"idle", "freshen", "restore"}, j.result \notin {"ok", "failed"},
         j.pc # "idle" => j.result = "none"
  PROVE  JobFits(m, r, j, up)
BY DEF JobFits

(* A step of one machine that leaves upstream alone.                        *)
LEMMA IndexLocal ==
  ASSUME IndexInv, NEW m \in Machines, NEW r \in Replica, NEW j \in JobRecord, UNCHANGED <<upstream, tip>>,
         replica' = [replica EXCEPT ![m] = r], job' = [job EXCEPT ![m] = j],
         ReplicaFits(m, r, upstream, tip), JobFits(m, r, j, upstream)
  PROVE  IndexInv'
<1>1. IndexTypeOK' BY DEF IndexInv, IndexTypeOK
<1>2. \A k \in Machines : /\ replica'[k] = IF k = m THEN r ELSE replica[k]
                          /\ job'[k] = IF k = m THEN j ELSE job[k]
  BY DEF IndexInv, IndexTypeOK
<1>3. \A k \in Machines : ReplicaFits(k, replica'[k], upstream, tip) /\ JobFits(k, replica'[k], job'[k], upstream)
  BY <1>2 DEF IndexInv
<1>4. \A k \in Machines : ReplicaFits(k, replica'[k], upstream', tip') /\ JobFits(k, replica'[k], job'[k], upstream')
  BY <1>3
<1>5. Once(upstream') /\ (tip' = 0 => upstream' = <<>>) BY DEF IndexInv
<1> QED BY <1>1, <1>4, <1>5 DEF IndexInv

(* The same, when the replica stays as it is.                               *)
LEMMA IndexJob ==
  ASSUME IndexInv, NEW m \in Machines, NEW j \in JobRecord, UNCHANGED <<upstream, tip, replica>>,
         job' = [job EXCEPT ![m] = j], JobFits(m, replica[m], j, upstream)
  PROVE  IndexInv'
<1>1. replica \in [Machines -> Replica] /\ ReplicaFits(m, replica[m], upstream, tip) BY DEF IndexInv, IndexTypeOK
<1>2. replica' = [replica EXCEPT ![m] = replica[m]] /\ replica[m] \in Replica BY <1>1
<1> QED BY <1>1, <1>2, IndexLocal

(* A replica that is cloned, synced or gone has nothing that is not         *)
(* upstream's.                                                              *)
LEMMA CleanReplica ==
  ASSUME IndexInv, NEW m \in Machines, NEW r \in {Missing, Partial, Synced}
  PROVE  r \in Replica /\ ReplicaFits(m, r, upstream, tip) /\ Left(r, upstream)
<1>0. /\ upstream \in Seq(LineType) /\ Len(upstream) \in Nat /\ tip \in Nat /\ Once(upstream)
      /\ tip = 0 => upstream = <<>>
  BY DEF IndexInv, IndexTypeOK
<1>1. Begins(upstream, upstream) BY <1>0, BeginsSelf
<1>2. \A log \in Seq(LineType) : Begins(<<>>, log) /\ Once(<<>>) BY DEF Begins, Once
<1>3. CASE r \in {Missing, Partial}
  <2>0. Missing \in Replica /\ Missing.log = <<>> /\ Missing.base = 0 BY DEF Missing, Replica
  <2>1. r \in Replica /\ r.log = <<>> /\ r.base = 0 BY <1>3, <2>0 DEF Partial, Replica
  <2>2. tip = 0 => Begins(upstream, <<>>) BY <1>0, <1>2
  <2> QED BY <1>0, <1>2, <2>1, <2>2 DEF ReplicaFits, Left
<1>4. CASE r = Synced
  <2>1. r \in Replica /\ r.log = upstream /\ r.base = tip BY <1>0, <1>4 DEF Synced, Replica
  <2>2. tip = 0 => \A i \in DOMAIN upstream : upstream[i].by = m BY <1>0
  <2> QED BY <1>0, <1>1, <2>1, <2>2 DEF ReplicaFits, Left
<1> QED BY <1>3, <1>4

(* However git_index_freshen ends, what it leaves is clean or an exception. *)
LEMMA FreshenLeaves ==
  ASSUME IndexInv, NEW m \in Machines, NEW ok \in BOOLEAN, git_index_freshen(m, ok)
  PROVE  \E r \in Replica : /\ replica' = [replica EXCEPT ![m] = r]
                            /\ ReplicaFits(m, r, upstream, tip) /\ Left(r, upstream)
<1>0. /\ replica \in [Machines -> Replica] /\ tip \in Nat /\ replica[m] \in Replica
      /\ ReplicaFits(m, replica[m], upstream, tip)
  BY DEF IndexInv, IndexTypeOK
<1>1. ASSUME NEW r \in {Missing, Partial, Synced}, replica' = [replica EXCEPT ![m] = r]
      PROVE  \E q \in Replica : /\ replica' = [replica EXCEPT ![m] = q]
                                /\ ReplicaFits(m, q, upstream, tip) /\ Left(q, upstream)
  BY <1>1, CleanReplica
<1>2. ASSUME NEW at \in {"repo", "held"}, replica' = [replica EXCEPT ![m].at = at],
             Left([replica[m] EXCEPT !.at = at], upstream)
      PROVE  \E q \in Replica : /\ replica' = [replica EXCEPT ![m] = q]
                                /\ ReplicaFits(m, q, upstream, tip) /\ Left(q, upstream)
  <2> DEFINE q == [replica[m] EXCEPT !.at = at]
  <2>1. q \in Replica /\ q.log = replica[m].log /\ q.base = replica[m].base BY <1>0 DEF Replica
  <2>2. replica' = [replica EXCEPT ![m] = q] BY <1>2
  <2>3. ReplicaFits(m, q, upstream, tip) BY <1>0, <2>1 DEF ReplicaFits
  <2> QED BY <1>2, <2>1, <2>2, <2>3
<1>3. CASE Stays(m) /\ replica' = [replica EXCEPT ![m].at = "repo"]
  <2>1. replica[m].base = 0 BY <1>0, <1>3 DEF Stays, ReplicaFits, Replica
  <2>2. Left([replica[m] EXCEPT !.at = "repo"], upstream) BY <1>0, <1>3, <2>1 DEF Stays, Left, Replica
  <2> QED BY <1>2, <1>3, <2>2
<1>4. CASE replica' = [replica EXCEPT ![m].at = "held"]
  <2>1. Left([replica[m] EXCEPT !.at = "held"], upstream) BY <1>0 DEF Left, Replica
  <2> QED BY <1>2, <1>4, <2>1
<1> QED BY <1>1, <1>3, <1>4 DEF git_index_freshen

(* What a change leaves in the replica: at most a line that was not there,  *)
(* or one that is marked as appended to a file that could not be read.      *)
LEMMA AppendedOnce ==
  ASSUME NEW log \in Seq(LineType), NEW line \in LineType, Once(log),
         line.read => \A i \in DOMAIN log : log[i].version # line.version
  PROVE  /\ Append(log, line) \in Seq(LineType) /\ Once(Append(log, line)) /\ Begins(log, Append(log, line))
         /\ Len(log) + 1 \in DOMAIN Append(log, line) /\ Append(log, line)[Len(log) + 1] = line
         /\ \A i \in DOMAIN Append(log, line) : i \in DOMAIN log \/ i = Len(log) + 1
<1> DEFINE new == Append(log, line)
<1>1. /\ new \in Seq(LineType) /\ Len(new) = Len(log) + 1 /\ \A i \in 1..Len(log) : new[i] = log[i]
      /\ new[Len(log) + 1] = line /\ Len(log) \in Nat /\ DOMAIN log = 1..Len(log)
  OBVIOUS
<1>2. DOMAIN new = 1..(Len(log) + 1) BY <1>1
<1> HIDE DEF new
<1>3. Begins(log, new) BY <1>1 DEF Begins
<1>4. Once(new)
  <2> SUFFICES ASSUME NEW i \in DOMAIN new, NEW j \in DOMAIN new, new[i].version = new[j].version, i < j PROVE ~new[j].read
    BY DEF Once
  <2>1. i \in DOMAIN log /\ new[i] = log[i] BY <1>1, <1>2
  <2>2. CASE j \in DOMAIN log BY <1>1, <2>1, <2>2 DEF Once
  <2>3. CASE j = Len(log) + 1 BY <1>1, <2>1, <2>3
  <2> QED BY <1>1, <1>2, <2>2, <2>3
<1>5. Len(log) + 1 \in DOMAIN new /\ \A i \in DOMAIN new : i \in DOMAIN log \/ i = Len(log) + 1 BY <1>1, <1>2
<1> QED BY <1>1, <1>3, <1>4, <1>5 DEF new

LEMMA ChangeLeaves ==
  ASSUME IndexInv, NEW m \in Machines, NEW read \in BOOLEAN, NEW log \in index_append_release(m, read),
         NEW change \in {"none", "added", "committed"}, Changed(m, read, log, change)
  PROVE  \E r \in Replica : /\ replica' = [replica EXCEPT ![m] = r]
                            /\ ReplicaFits(m, r, upstream, tip)
                            /\ log = Line(m, read) => Holds(r.log, job[m].version, m)
<1> DEFINE old == replica[m].log
           whole == [version |-> job[m].version, by |-> m, read |-> read]
           cut == [version |-> "junk", by |-> m, read |-> read]
           r == [replica[m] EXCEPT !.log = log, !.change = change]
<1>0. /\ replica \in [Machines -> Replica] /\ replica[m] \in Replica /\ job[m] \in JobRecord
      /\ upstream \in Seq(LineType) /\ ReplicaFits(m, replica[m], upstream, tip)
  BY DEF IndexInv, IndexTypeOK
<1>1. old \in Seq(LineType) /\ Once(old) /\ whole \in LineType /\ cut \in LineType
  BY <1>0 DEF Replica, ReplicaFits, JobRecord, LineType
<1>2. read => /\ \A i \in DOMAIN old : old[i].version # job[m].version
              /\ \A i \in DOMAIN old : old[i].version # "junk"
  BY DEF Changed, Refuses, spn_index_parse_pkg, index_release_exists
<1>3. /\ log \in Seq(LineType) /\ Once(log) /\ Begins(old, log)
      /\ (\A i \in DOMAIN old : old[i].by = m) => \A i \in DOMAIN log : log[i].by = m
      /\ log = Line(m, read) => Holds(log, job[m].version, m)
  <2>1. ASSUME NEW line \in {whole, cut}, log = Append(old, line)
        PROVE  /\ log \in Seq(LineType) /\ Once(log) /\ Begins(old, log)
               /\ (\A i \in DOMAIN old : old[i].by = m) => \A i \in DOMAIN log : log[i].by = m
               /\ line = whole => Holds(log, job[m].version, m)
    <3>1. line \in LineType /\ line.by = m /\ line.read = read /\ line.version \in {job[m].version, "junk"}
          /\ (line = whole => line.version = job[m].version)
      BY <1>1
    <3>2. line.read => \A i \in DOMAIN old : old[i].version # line.version BY <1>2, <3>1
    <3> HIDE DEF old, whole, cut
    <3>3. /\ log \in Seq(LineType) /\ Once(log) /\ Begins(old, log)
          /\ Len(old) + 1 \in DOMAIN log /\ log[Len(old) + 1] = line
          /\ \A i \in DOMAIN log : i \in DOMAIN old \/ i = Len(old) + 1
      BY <1>1, <2>1, <3>1, <3>2, AppendedOnce
    <3>4. \A i \in DOMAIN old : log[i] = old[i]
      <4>1. DOMAIN old = 1..Len(old) BY <1>1
      <4> QED BY <3>3, <4>1 DEF Begins
    <3> QED BY <3>1, <3>3, <3>4 DEF Holds
  <2>2. CASE log = old /\ log # Line(m, read) BY <1>1, <2>2, BeginsSelf
  <2>3. log = Append(old, whole) \/ log = Append(old, cut) \/ log = old BY DEF index_append_release, Line, Cut
  <2>4. CASE log = Append(old, whole) BY <2>1, <2>4
  <2>5. CASE log = Append(old, cut) /\ log # Line(m, read) BY <2>1, <2>5
  <2> QED BY <2>2, <2>3, <2>4, <2>5 DEF Line
<1>4. replica' = [replica EXCEPT ![m] = r] BY <1>0 DEF Changed
<1>5. r \in Replica /\ r.log = log /\ r.base = replica[m].base BY <1>0, <1>3 DEF Replica
<1>6. Begins(upstream, old) => Begins(upstream, log) BY <1>0, <1>1, <1>3, BeginsAll
<1> HIDE DEF r
<1>7. ReplicaFits(m, r, upstream, tip) BY <1>0, <1>3, <1>5, <1>6 DEF ReplicaFits
<1> QED BY <1>3, <1>4, <1>5, <1>7

LEMMA IndexStarts == IndexInit => IndexInv
<1> SUFFICES ASSUME IndexInit PROVE IndexInv OBVIOUS
<1>1. Junk \in LineType BY DEF Junk, LineType
<1>2. upstream \in Seq(LineType) /\ Once(upstream) /\ tip \in Nat /\ (tip = 0 => upstream = <<>>)
  <2>1. CASE upstream = <<>> BY <2>1 DEF IndexInit, Once
  <2>2. CASE upstream = <<Junk>>
    <3>1. <<Junk>> \in Seq(LineType) /\ DOMAIN <<Junk>> = 1..1 BY <1>1
    <3>2. Once(<<Junk>>) BY <3>1 DEF Once
    <3> QED BY <2>2, <3>1, <3>2 DEF IndexInit
  <2> QED BY <2>1, <2>2 DEF IndexInit
<1>3. Missing \in Replica /\ Missing.log = <<>> /\ Missing.base = 0 BY DEF Missing, Replica
<1>4. Resting \in JobRecord /\ Resting.pc = "idle" /\ Resting.result = "none" BY DEF Resting, JobRecord, JobPcs, JobResults
<1>5. IndexTypeOK BY <1>2, <1>3, <1>4 DEF IndexInit, IndexTypeOK
<1>6. Once(<<>>) /\ Begins(<<>>, <<>>) BY DEF Once, Begins
<1>7. \A m \in Machines : ReplicaFits(m, Missing, upstream, tip) BY <1>2, <1>3, <1>6 DEF ReplicaFits
<1>8. \A m \in Machines : JobFits(m, Missing, Resting, upstream) BY <1>4 DEF JobFits
<1> QED BY <1>2, <1>5, <1>7, <1>8 DEF IndexInit, IndexInv

(* Where Returns leads.                                                     *)
LEMMA ReturnsFacts ==
  ASSUME NEW m \in Machines, NEW result \in JobResults, Returns(m, result)
  PROVE  \E j \in JobRecord : job' = [job EXCEPT ![m] = j] /\ j.pc = "idle" /\ j.result = result
<1> DEFINE j == [Resting EXCEPT !.result = result]
<1>1. Resting \in JobRecord /\ Resting.pc = "idle" BY DEF Resting, JobRecord, JobPcs, JobResults
<1>2. j \in JobRecord /\ j.pc = "idle" /\ j.result = result BY <1>1 DEF JobRecord
<1>3. job' = [job EXCEPT ![m] = j] BY DEF Returns
<1> HIDE DEF j
<1> QED BY <1>2, <1>3

(* A job that returns, with a replica that it left as it should.            *)
LEMMA ReturnsFits ==
  ASSUME IndexInv, NEW m \in Machines, NEW result \in JobResults \ {"ok"}, Returns(m, result), UNCHANGED <<upstream, tip>>,
         NEW r \in Replica, replica' = [replica EXCEPT ![m] = r], ReplicaFits(m, r, upstream, tip),
         result = "failed" => Left(r, upstream)
  PROVE  IndexInv'
<1>1. PICK j \in JobRecord : job' = [job EXCEPT ![m] = j] /\ j.pc = "idle" /\ j.result = result BY ReturnsFacts
<1>2. JobFits(m, r, j, upstream) BY <1>1 DEF JobFits
<1> QED BY <1>1, <1>2, IndexLocal

(* The same, for a job that only moves to where it relies on no replica.    *)
LEMMA MovesFits ==
  ASSUME IndexInv, NEW m \in Machines, Fails(m), job[m].pc # "idle", UNCHANGED <<upstream, tip>>,
         NEW r \in Replica, replica' = [replica EXCEPT ![m] = r], ReplicaFits(m, r, upstream, tip)
  PROVE  IndexInv'
<1> DEFINE j == [job[m] EXCEPT !.pc = "restore"]
<1>0. job \in [Machines -> JobRecord] /\ job[m].result = "none" BY DEF IndexInv, IndexTypeOK, JobFits
<1>1. job' = [job EXCEPT ![m] = j] BY <1>0 DEF Fails
<1>2. j \in JobRecord /\ j.pc = "restore" /\ j.result = "none" BY <1>0 DEF JobRecord, JobPcs
<1> HIDE DEF j
<1>3. JobFits(m, r, j, upstream) BY <1>2, RestingFits
<1> QED BY <1>1, <1>2, <1>3, IndexLocal

LEMMA EndsFits ==
  ASSUME IndexInv, NEW m \in Machines, Ends(m), job[m].pc # "idle", UNCHANGED <<upstream, tip>>,
         NEW r \in Replica, replica' = [replica EXCEPT ![m] = r], ReplicaFits(m, r, upstream, tip), Left(r, upstream)
  PROVE  IndexInv'
<1>1. CASE Fails(m) BY <1>1, MovesFits
<1>2. CASE Returns(m, "failed")
  <2>1. "failed" \in JobResults \ {"ok"} BY DEF JobResults
  <2> QED BY <1>2, <2>1, ReturnsFits
<1> QED BY <1>1, <1>2 DEF Ends

LEMMA IndexStays ==
  ASSUME IndexInv, NEW m \in Machines
  PROVE  replica[m] \in Replica /\ replica = [replica EXCEPT ![m] = replica[m]] /\ ReplicaFits(m, replica[m], upstream, tip)
<1>1. replica \in [Machines -> Replica] BY DEF IndexInv, IndexTypeOK
<1> QED BY <1>1 DEF IndexInv

LEMMA PublishBegins ==
  ASSUME IndexInv, NEW m \in Machines, spn_op_publish(m)
  PROVE  IndexInv'
<1>0. UNCHANGED <<upstream, tip, replica>> BY DEF spn_op_publish
<1>1. PICK v \in Versions : \/ Returns(m, "refused")
                            \/ job' = [job EXCEPT ![m] = [Resting EXCEPT !.pc = "freshen", !.version = v]]
  BY DEF spn_op_publish
<1>2. CASE Returns(m, "refused")
  <2>1. "refused" \in JobResults \ {"ok"} BY DEF JobResults
  <2> QED BY <1>0, <1>2, <2>1, IndexStays, ReturnsFits
<1>3. CASE job' = [job EXCEPT ![m] = [Resting EXCEPT !.pc = "freshen", !.version = v]]
  <2> DEFINE j == [Resting EXCEPT !.pc = "freshen", !.version = v]
  <2>1. Resting \in JobRecord /\ Resting.result = "none" BY DEF Resting, JobRecord, JobPcs, JobResults
  <2>2. j \in JobRecord /\ j.pc = "freshen" /\ j.result = "none" BY <2>1 DEF JobRecord, JobPcs
  <2>3. job' = [job EXCEPT ![m] = j] BY <1>3
  <2> HIDE DEF j
  <2>4. JobFits(m, replica[m], j, upstream) BY <2>2, RestingFits
  <2> QED BY <1>0, <2>2, <2>3, <2>4, IndexJob
<1> QED BY <1>1, <1>2, <1>3

LEMMA Freshens ==
  ASSUME IndexInv, NEW m \in Machines, freshen_step(m)
  PROVE  IndexInv'
<1>0. job \in [Machines -> JobRecord] /\ job[m].pc = "freshen" /\ job[m].result = "none" /\ UNCHANGED <<upstream, tip>>
  BY DEF IndexInv, IndexTypeOK, JobFits, freshen_step, Job
<1>1. CASE git_index_freshen(m, TRUE) /\ job' = [job EXCEPT ![m].pc = "change", ![m].dirtied = FALSE]
  <2> DEFINE j == [job[m] EXCEPT !.pc = "change", !.dirtied = FALSE]
  <2>1. PICK r \in Replica : replica' = [replica EXCEPT ![m] = r] /\ ReplicaFits(m, r, upstream, tip) /\ Left(r, upstream)
    BY <1>1, FreshenLeaves
  <2>2. job' = [job EXCEPT ![m] = j] BY <1>0, <1>1
  <2>3. j \in JobRecord /\ j.pc = "change" /\ j.result = "none" BY <1>0 DEF JobRecord, JobPcs
  <2> HIDE DEF j
  <2>4. JobFits(m, r, j, upstream) BY <2>1, <2>3 DEF JobFits
  <2> QED BY <1>0, <2>1, <2>2, <2>3, <2>4, IndexLocal
<1>2. CASE git_index_freshen(m, FALSE) /\ Ends(m)
  <2>1. PICK r \in Replica : replica' = [replica EXCEPT ![m] = r] /\ ReplicaFits(m, r, upstream, tip) /\ Left(r, upstream)
    BY <1>2, FreshenLeaves
  <2> QED BY <1>0, <1>2, <2>1, EndsFits
<1> QED BY <1>1, <1>2 DEF freshen_step

LEMMA Changes ==
  ASSUME IndexInv, NEW m \in Machines, change_step(m)
  PROVE  IndexInv'
<1>0. /\ job \in [Machines -> JobRecord] /\ job[m].pc = "change" /\ job[m].result = "none"
      /\ Left(replica[m], upstream) /\ UNCHANGED <<upstream, tip>>
  BY DEF IndexInv, IndexTypeOK, JobFits, change_step, Job
<1>1. CASE Ends(m) /\ UNCHANGED replica BY <1>0, <1>1, IndexStays, EndsFits
<1>2. ASSUME NEW read \in BOOLEAN, NEW log \in index_append_release(m, read), Changed(m, read, log, "committed"),
             job' = [job EXCEPT ![m].pc = "push", ![m].dirtied = TRUE, ![m].wrote = (log = Line(m, read))]
      PROVE  IndexInv'
  <2>1. PICK w \in BOOLEAN : w = (log = Line(m, read)) OBVIOUS
  <2> DEFINE j == [job[m] EXCEPT !.pc = "push", !.dirtied = TRUE, !.wrote = w]
  <2>2. PICK r \in Replica : /\ replica' = [replica EXCEPT ![m] = r] /\ ReplicaFits(m, r, upstream, tip)
                             /\ log = Line(m, read) => Holds(r.log, job[m].version, m)
    BY <1>2, ChangeLeaves
  <2>3. job' = [job EXCEPT ![m] = j] BY <1>0, <1>2, <2>1
  <2>4. j \in JobRecord /\ j.pc = "push" /\ j.result = "none" /\ j.wrote = w /\ j.version = job[m].version
    BY <1>0 DEF JobRecord, JobPcs
  <2> HIDE DEF j
  <2>5. JobFits(m, r, j, upstream) BY <2>1, <2>2, <2>4 DEF JobFits
  <2> QED BY <1>0, <2>2, <2>3, <2>4, <2>5, IndexLocal
<1>3. ASSUME NEW read \in BOOLEAN, NEW log \in index_append_release(m, read), NEW change \in {"none", "added"},
             Changed(m, read, log, change), job' = [job EXCEPT ![m].pc = "restore", ![m].dirtied = TRUE]
      PROVE  IndexInv'
  <2> DEFINE j == [job[m] EXCEPT !.pc = "restore", !.dirtied = TRUE]
  <2>1. PICK r \in Replica : replica' = [replica EXCEPT ![m] = r] /\ ReplicaFits(m, r, upstream, tip) BY <1>3, ChangeLeaves
  <2>2. job' = [job EXCEPT ![m] = j] BY <1>0, <1>3
  <2>3. j \in JobRecord /\ j.pc = "restore" /\ j.result = "none" BY <1>0 DEF JobRecord, JobPcs
  <2> HIDE DEF j
  <2>4. JobFits(m, r, j, upstream) BY <2>3, RestingFits
  <2> QED BY <1>0, <2>1, <2>2, <2>3, <2>4, IndexLocal
<1> QED BY <1>1, <1>2, <1>3 DEF change_step

(* Where Retry leads.                                                       *)
LEMMA RetryFacts ==
  ASSUME IndexInv, NEW m \in Machines, Job(m, "push"), Retry(m)
  PROVE  \E j \in JobRecord : job' = [job EXCEPT ![m] = j] /\ j.pc \in {"freshen", "restore"} /\ j.result = "none"
<1>1. job \in [Machines -> JobRecord] /\ job[m].result = "none" BY DEF IndexInv, IndexTypeOK, JobFits, Job
<1>2. CASE job' = [job EXCEPT ![m].pc = "freshen", ![m].attempt = @ + 1]
  <2>0. PICK n \in Nat : n = job[m].attempt + 1 BY <1>1 DEF JobRecord
  <2> DEFINE j == [job[m] EXCEPT !.pc = "freshen", !.attempt = n]
  <2>1. job' = [job EXCEPT ![m] = j] BY <1>1, <1>2, <2>0
  <2>2. j \in JobRecord /\ j.pc = "freshen" /\ j.result = "none" BY <1>1 DEF JobRecord, JobPcs
  <2> HIDE DEF j
  <2> QED BY <2>1, <2>2
<1>3. CASE Fails(m)
  <2> DEFINE j == [job[m] EXCEPT !.pc = "restore"]
  <2>1. job' = [job EXCEPT ![m] = j] BY <1>1, <1>3 DEF Fails
  <2>2. j \in JobRecord /\ j.pc = "restore" /\ j.result = "none" BY <1>1 DEF JobRecord, JobPcs
  <2> HIDE DEF j
  <2> QED BY <2>1, <2>2
<1> QED BY <1>2, <1>3 DEF Retry

(* A push that is accepted only adds to what is upstream, and leaves every  *)
(* replica behind, whether or not the publisher hears of it.                *)
LEMMA PushLands ==
  ASSUME IndexInv, NEW m \in Machines, Job(m, "push"), FastForward(m), upstream' = replica[m].log, tip' = tip + 1,
         UNCHANGED replica, NEW j \in JobRecord, job' = [job EXCEPT ![m] = j],
         \/ j.pc \in {"freshen", "restore"} /\ j.result = "none"
         \/ j.pc = "idle" /\ j.result = "ok" /\ j.version = job[m].version /\ j.wrote = job[m].wrote
  PROVE  IndexInv'
<1> DEFINE r == replica[m]
<1>0. /\ upstream \in Seq(LineType) /\ tip \in Nat /\ job \in [Machines -> JobRecord] /\ replica \in [Machines -> Replica]
      /\ job[m].pc = "push" /\ ReplicaFits(m, r, upstream, tip) /\ JobFits(m, r, job[m], upstream)
  BY DEF IndexInv, IndexTypeOK, Job
<1>1. r \in Replica /\ r.log \in Seq(LineType) /\ Begins(upstream, r.log) /\ Once(r.log)
  BY <1>0 DEF Replica, ReplicaFits, FastForward
<1>2. IndexTypeOK' BY <1>0, <1>1 DEF IndexTypeOK
<1>3. \A k \in Machines : ReplicaFits(k, replica[k], r.log, tip + 1)
  BY <1>0 DEF IndexInv, ReplicaFits, Replica
<1>4. \A k \in Machines : JobFits(k, replica[k], job[k], r.log) BY <1>0, <1>1, JobFitsStill DEF IndexInv
<1>5. JobFits(m, r, j, r.log) BY <1>0 DEF JobFits
<1>6. \A k \in Machines : job'[k] = IF k = m THEN j ELSE job[k] BY <1>0
<1>7. \A k \in Machines : ReplicaFits(k, replica'[k], upstream', tip') /\ JobFits(k, replica'[k], job'[k], upstream')
  BY <1>3, <1>4, <1>5, <1>6
<1>8. Once(upstream') /\ tip' # 0 BY <1>0, <1>1
<1> QED BY <1>2, <1>7, <1>8 DEF IndexInv

LEMMA Pushes ==
  ASSUME IndexInv, NEW m \in Machines, push_step(m)
  PROVE  IndexInv'
<1>0. job \in [Machines -> JobRecord] /\ Job(m, "push") /\ UNCHANGED replica /\ job[m] \in JobRecord
  BY DEF IndexInv, IndexTypeOK, push_step
<1>1. CASE /\ FastForward(m) /\ upstream' = replica[m].log /\ tip' = tip + 1
           /\ job' = [job EXCEPT ![m] = [Resting EXCEPT !.result = "ok", !.version = job[m].version, !.wrote = job[m].wrote]]
  <2> DEFINE j == [Resting EXCEPT !.result = "ok", !.version = job[m].version, !.wrote = job[m].wrote]
  <2>1. job' = [job EXCEPT ![m] = j] BY <1>1
  <2>2. Resting \in JobRecord /\ Resting.pc = "idle" BY DEF Resting, JobRecord, JobPcs, JobResults
  <2>3. j \in JobRecord /\ j.pc = "idle" /\ j.result = "ok" /\ j.version = job[m].version /\ j.wrote = job[m].wrote
    BY <1>0, <2>2 DEF JobRecord, JobResults
  <2> HIDE DEF j
  <2> QED BY <1>0, <1>1, <2>1, <2>3, PushLands
<1>2. CASE Retry(m)
  <2>1. PICK j \in JobRecord : job' = [job EXCEPT ![m] = j] /\ j.pc \in {"freshen", "restore"} /\ j.result = "none"
    BY <1>0, <1>2, RetryFacts
  <2>2. CASE FastForward(m) /\ upstream' = replica[m].log /\ tip' = tip + 1 BY <1>0, <2>1, <2>2, PushLands
  <2>3. CASE UNCHANGED <<upstream, tip>>
    <3>1. JobFits(m, replica[m], j, upstream) BY <2>1, RestingFits
    <3> QED BY <1>0, <2>1, <2>3, <3>1, IndexJob
  <2> QED BY <1>0, <1>2, <2>2, <2>3 DEF push_step
<1> QED BY <1>1, <1>2 DEF push_step

(* Another package's first commit moves no one's replica.                   *)
LEMMA OthersCommit == IndexInv /\ other_package => IndexInv'
<1> SUFFICES ASSUME IndexInv, other_package PROVE IndexInv' OBVIOUS
<1>1. tip = 0 /\ tip' = 1 /\ UNCHANGED <<upstream, replica, job>> BY DEF other_package
<1>2. \A k \in Machines : replica[k] \in Replica BY DEF IndexInv, IndexTypeOK
<1>3. \A k \in Machines : ReplicaFits(k, replica[k], upstream, 1)
  BY <1>1, <1>2 DEF IndexInv, ReplicaFits, Replica
<1>4. IndexTypeOK' BY <1>1 DEF IndexInv, IndexTypeOK
<1> QED BY <1>1, <1>3, <1>4 DEF IndexInv

LEMMA Restores ==
  ASSUME IndexInv, NEW m \in Machines, restore(m)
  PROVE  IndexInv'
<1>1. PICK ok \in BOOLEAN : git_index_freshen(m, ok) BY DEF restore
<1>2. PICK r \in Replica : replica' = [replica EXCEPT ![m] = r] /\ ReplicaFits(m, r, upstream, tip) /\ Left(r, upstream)
  BY <1>1, FreshenLeaves
<1>3. "failed" \in JobResults \ {"ok"} BY DEF JobResults
<1> QED BY <1>2, <1>3, ReturnsFits DEF restore

LEMMA Syncs ==
  ASSUME IndexInv, NEW m \in Machines, spn_index_sync(m)
  PROVE  IndexInv'
<1>1. \E r \in Replica : replica' = [replica EXCEPT ![m] = r] /\ ReplicaFits(m, r, upstream, tip)
  <2>1. CASE UNCHANGED replica BY <2>1, IndexStays
  <2>2. ASSUME NEW r \in {Partial, Synced}, replica' = [replica EXCEPT ![m] = r]
        PROVE  \E q \in Replica : replica' = [replica EXCEPT ![m] = q] /\ ReplicaFits(m, q, upstream, tip)
    BY <2>2, CleanReplica
  <2>3. ASSUME NEW ok \in BOOLEAN, git_index_freshen(m, ok)
        PROVE  \E q \in Replica : replica' = [replica EXCEPT ![m] = q] /\ ReplicaFits(m, q, upstream, tip)
    BY <2>3, FreshenLeaves
  <2> QED BY <2>1, <2>2, <2>3 DEF spn_index_sync
<1>2. \E result \in {"synced", "unsynced", "none"} : Returns(m, result) BY DEF spn_index_sync
<1>3. {"synced", "unsynced", "none"} \subseteq JobResults \ {"ok", "failed"} BY DEF JobResults
<1> QED BY <1>1, <1>2, <1>3, ReturnsFits DEF spn_index_sync

LEMMA Stopped ==
  ASSUME IndexInv, NEW m \in Machines, Stops(m)
  PROVE  IndexInv'
<1>1. \E r \in Replica : replica' = [replica EXCEPT ![m] = r] /\ ReplicaFits(m, r, upstream, tip)
  <2>1. CASE UNCHANGED replica BY <2>1, IndexStays
  <2>2. ASSUME NEW r \in {Missing, Partial}, replica' = [replica EXCEPT ![m] = r]
        PROVE  \E q \in Replica : replica' = [replica EXCEPT ![m] = q] /\ ReplicaFits(m, q, upstream, tip)
    BY <2>2, CleanReplica
  <2>3. ASSUME NEW ok \in BOOLEAN, git_index_freshen(m, ok)
        PROVE  \E q \in Replica : replica' = [replica EXCEPT ![m] = q] /\ ReplicaFits(m, q, upstream, tip)
    BY <2>3, FreshenLeaves
  <2>4. ASSUME NEW read \in BOOLEAN, NEW log \in index_append_release(m, read),
               NEW change \in {"none", "added", "committed"}, Changed(m, read, log, change)
        PROVE  \E q \in Replica : replica' = [replica EXCEPT ![m] = q] /\ ReplicaFits(m, q, upstream, tip)
    BY <2>4, ChangeLeaves
  <2> QED BY <2>1, <2>2, <2>3, <2>4 DEF Stops
<1>2. Returns(m, "none") /\ "none" \in JobResults \ {"ok"} BY DEF Stops, JobResults
<1> QED BY <1>1, <1>2, ReturnsFits DEF Stops

LEMMA IndexStep == IndexInv /\ [IndexNext]_indexVars => IndexInv'
<1> SUFFICES ASSUME IndexInv, [IndexNext]_indexVars PROVE IndexInv' OBVIOUS
<1>1. CASE UNCHANGED indexVars BY <1>1 DEF indexVars, IndexInv, IndexTypeOK
<1>2. ASSUME NEW m \in Machines, spn_op_publish(m) PROVE IndexInv' BY <1>2, PublishBegins
<1>3. ASSUME NEW m \in Machines, freshen_step(m) PROVE IndexInv' BY <1>3, Freshens
<1>4. ASSUME NEW m \in Machines, change_step(m) PROVE IndexInv' BY <1>4, Changes
<1>5. ASSUME NEW m \in Machines, push_step(m) PROVE IndexInv' BY <1>5, Pushes
<1>6. ASSUME NEW m \in Machines, restore(m) PROVE IndexInv' BY <1>6, Restores
<1>7. ASSUME NEW m \in Machines, spn_index_sync(m) PROVE IndexInv' BY <1>7, Syncs
<1>8. ASSUME NEW m \in Machines, Stops(m) PROVE IndexInv' BY <1>8, Stopped
<1> QED BY <1>1, <1>2, <1>3, <1>4, <1>5, <1>6, <1>7, <1>8, OthersCommit DEF IndexNext

LEMMA BeginsIsSubSeq ==
  ASSUME NEW s \in Seq(LineType), NEW t \in Seq(LineType), Begins(s, t)
  PROVE  Len(s) <= Len(t) /\ s = SubSeq(t, 1, Len(s))
<1>1. Len(s) \in Nat /\ Len(t) \in Nat /\ Len(s) <= Len(t) BY DEF Begins
<1>2. /\ SubSeq(t, 1, Len(s)) \in Seq(LineType) /\ Len(SubSeq(t, 1, Len(s))) = Len(s)
      /\ \A i \in 1..Len(s) : SubSeq(t, 1, Len(s))[i] = t[i]
  BY <1>1
<1> QED BY <1>1, <1>2, SeqEqual DEF Begins

(* However pushes race, are retried, or are accepted with the answer lost   *)
(* (publish_git), no version is upstream twice unless the file could not be *)
(* read (spn_index_jsonl_get_package); who was told OK has its release      *)
(* upstream, if its line could be written; who failed leaves no line that   *)
(* is not upstream's, unless the replica could not be removed               *)
(* (git_index_freshen), or git holds own lines of a file it was given while *)
(* upstream had no commit.                                                  *)
THEOREM VersionsPublishedOnce == Spec => []PublishedOnce
<1>1. Init => IndexInv BY IndexStarts DEF Init
<1>2. IndexInv /\ [Next]_<<part, gitVars, storageVars, storeVars, indexVars, stagingVars>> => IndexInv'
  BY IndexStep DEF Next, OfGit, OfStorage, OfStore, OfIndex, OfStaging
<1>3. IndexInv => PublishedOnce
  <2> SUFFICES ASSUME IndexInv PROVE PublishedOnce OBVIOUS
  <2>1. \A m \in Machines : replica[m].log \in Seq(LineType) /\ upstream \in Seq(LineType) BY DEF IndexInv, IndexTypeOK, Replica
  <2>2. \A m \in Machines : Begins(replica[m].log, upstream) => LeftClean(m) BY <2>1, BeginsIsSubSeq DEF LeftClean
  <2>3. \A m \in Machines : Left(replica[m], upstream) => LeftClean(m) \/ LeftAdded(m) \/ replica[m].at = "held"
    BY <2>2 DEF IndexInv, ReplicaFits, Left, LeftAdded
  <2>4. \A m \in Machines :
       /\ job[m].result = "ok" /\ job[m].wrote =>
            \E i \in DOMAIN upstream : upstream[i].version = job[m].version /\ upstream[i].by = m
       /\ job[m].result = "failed" => Left(replica[m], upstream)
    BY DEF IndexInv, JobFits, Holds
  <2>5. Once(upstream) BY DEF IndexInv
  <2> QED BY <2>3, <2>4, <2>5 DEF PublishedOnce, Once
<1> QED BY <1>1, <1>2, <1>3, PTL DEF Spec

-----------------------------------------------------------------------------
(* Blobs.                                                                  *)
(* For every set of builds and keys and any number of runs, kills and       *)
(* edits: blobs are what their digests say, and builds get them so, except  *)
(* where the window between linking a blob and write-protecting it was hit. *)

Name == Inodes \cup {None}
Data == Keys \cup {"blank", "edited"}
File == [data : Data, ro : BOOLEAN, torn : BOOLEAN]
StorePcs == {"idle", "execute", "settle", "link", "rename", "put", "protect", "record"}
BuildRecord == [pc : StorePcs, key : Keys \cup {"none"}, hit : BOOLEAN, got : Data \cup {"none", "torn"}]

StoreTypeOK ==
  /\ file \in [Inodes -> File]
  /\ blob \in [Keys -> Name]
  /\ out \in [Builds -> Name] /\ tmp \in [Builds -> Name] /\ scratch \in [Builds -> Name]
  /\ build \in [Builds -> BuildRecord]
  /\ \A b \in Builds : build[b].pc # "idle" => Key(b) \in Keys

(* An inode that may pass for the content of k: it is, or is marked; and no *)
(* one can change it without marking it.                                    *)
Guarded(i) == file[i].ro \/ file[i].torn \/ \E c \in Builds : i \in Unguarded(c)
Passes(i, k) == (file[i].data = k \/ file[i].torn) /\ Guarded(i)

BlobsGood == \A k \in Keys : blob[k] # None => Passes(blob[k], k)

(* A link that is about to be renamed is as good as the blob it was made    *)
(* from, even if that was dropped since.                                    *)
LinksGood == \A b \in Builds : Is(b, "rename") => tmp[b] # None /\ Passes(tmp[b], Key(b))

(* What a tool has just written no one else has a name for.                 *)
Private(b) ==
  /\ \A k \in Keys : blob[k] # scratch[b]
  /\ \A c \in Builds : out[c] # scratch[b] /\ tmp[c] # scratch[b] /\ (c # b => scratch[c] # scratch[b])
ScratchGood == \A b \in Builds : Is(b, "put") => scratch[b] # None /\ file[scratch[b]].data = Key(b) /\ Private(b)

StoreInv == StoreTypeOK /\ BlobsGood /\ LinksGood /\ ScratchGood /\ ServedTrue

-----------------------------------------------------------------------------
(* Names and inodes                                                        *)

LEMMA UsedIs ==
  ASSUME NEW bl \in [Keys -> Name], NEW o \in [Builds -> Name], NEW t \in [Builds -> Name], NEW s \in [Builds -> Name]
  PROVE  Used(<<bl, o, t, s>>) =
           {bl[k] : k \in Keys} \cup {o[c] : c \in Builds} \cup {t[c] : c \in Builds} \cup {s[c] : c \in Builds}
<1> DEFINE n == <<bl, o, t, s>>
<1>1. n[1] = bl /\ n[2] = o /\ n[3] = t /\ n[4] = s OBVIOUS
<1>2. DOMAIN bl = Keys /\ DOMAIN o = Builds /\ DOMAIN t = Builds /\ DOMAIN s = Builds OBVIOUS
<1>3. \A i \in 1..4 : i = 1 \/ i = 2 \/ i = 3 \/ i = 4 OBVIOUS
<1>4. 1 \in 1..4 /\ 2 \in 1..4 /\ 3 \in 1..4 /\ 4 \in 1..4 OBVIOUS
<1> HIDE DEF n
<1>5. Used(n) \subseteq {bl[k] : k \in Keys} \cup {o[c] : c \in Builds} \cup {t[c] : c \in Builds} \cup {s[c] : c \in Builds}
  BY <1>1, <1>2, <1>3 DEF Used
<1>6. \A i \in 1..4 : \A x \in DOMAIN n[i] : n[i][x] \in Used(n) BY DEF Used
<1>7. {bl[k] : k \in Keys} \cup {o[c] : c \in Builds} \cup {t[c] : c \in Builds} \cup {s[c] : c \in Builds} \subseteq Used(n)
  BY <1>1, <1>2, <1>4, <1>6
<1> QED BY <1>5, <1>7 DEF n

LEMMA ImageSmall ==
  ASSUME NEW S, IsFiniteSet(S), NEW T, NEW f \in [S -> T]
  PROVE  IsFiniteSet({f[x] : x \in S}) /\ Cardinality({f[x] : x \in S}) <= Cardinality(S)
         /\ Cardinality({f[x] : x \in S}) \in Nat
<1>1. f \in Surjection(S, {f[x] : x \in S}) BY DEF Surjection
<1>2. IsFiniteSet({f[x] : x \in S}) /\ Cardinality({f[x] : x \in S}) <= Cardinality(S) BY <1>1, FS_Surjection
<1> QED BY <1>2, FS_CardinalityType

LEMMA UnionSmall ==
  ASSUME NEW S, NEW T, IsFiniteSet(S), IsFiniteSet(T)
  PROVE  IsFiniteSet(S \cup T) /\ Cardinality(S \cup T) <= Cardinality(S) + Cardinality(T)
         /\ Cardinality(S \cup T) \in Nat
<1>1. IsFiniteSet(S \cup T) /\ IsFiniteSet(S \cap T)
      /\ Cardinality(S \cup T) = Cardinality(S) + Cardinality(T) - Cardinality(S \cap T)
  BY FS_Union, FS_Intersection
<1>2. Cardinality(S) \in Nat /\ Cardinality(T) \in Nat /\ Cardinality(S \cap T) \in Nat /\ Cardinality(S \cup T) \in Nat
  BY <1>1, FS_CardinalityType
<1> QED BY <1>1, <1>2

(* There is always an inode without a name, and New is one.                 *)
LEMMA NewIsFree ==
  ASSUME StoreTypeOK
  PROVE  New \in Inodes /\ New \notin Used(names)
<1> DEFINE A == {blob[k] : k \in Keys}
           B == {out[c] : c \in Builds}
           C == {tmp[c] : c \in Builds}
           D == {scratch[c] : c \in Builds}
<1>1. Used(names) = A \cup B \cup C \cup D BY UsedIs DEF StoreTypeOK, names
<1>2. /\ IsFiniteSet(A) /\ Cardinality(A) <= Cardinality(Keys) /\ Cardinality(A) \in Nat
      /\ IsFiniteSet(B) /\ Cardinality(B) <= Cardinality(Builds) /\ Cardinality(B) \in Nat
      /\ IsFiniteSet(C) /\ Cardinality(C) <= Cardinality(Builds) /\ Cardinality(C) \in Nat
      /\ IsFiniteSet(D) /\ Cardinality(D) <= Cardinality(Builds) /\ Cardinality(D) \in Nat
  <2>1. IsFiniteSet(A) /\ Cardinality(A) <= Cardinality(Keys) /\ Cardinality(A) \in Nat
    <3>1. IsFiniteSet(Keys) /\ blob \in [Keys -> Name] BY EnoughInodes DEF StoreTypeOK
    <3> QED BY <3>1, ImageSmall, Zenon
  <2>2. IsFiniteSet(B) /\ Cardinality(B) <= Cardinality(Builds) /\ Cardinality(B) \in Nat
    <3>1. IsFiniteSet(Builds) /\ out \in [Builds -> Name] BY EnoughInodes DEF StoreTypeOK
    <3> QED BY <3>1, ImageSmall, Zenon
  <2>3. IsFiniteSet(C) /\ Cardinality(C) <= Cardinality(Builds) /\ Cardinality(C) \in Nat
    <3>1. IsFiniteSet(Builds) /\ tmp \in [Builds -> Name] BY EnoughInodes DEF StoreTypeOK
    <3> QED BY <3>1, ImageSmall, Zenon
  <2>4. IsFiniteSet(D) /\ Cardinality(D) <= Cardinality(Builds) /\ Cardinality(D) \in Nat
    <3>1. IsFiniteSet(Builds) /\ scratch \in [Builds -> Name] BY EnoughInodes DEF StoreTypeOK
    <3> QED BY <3>1, ImageSmall, Zenon
  <2> HIDE DEF A, B, C, D
  <2> QED BY <2>1, <2>2, <2>3, <2>4
<1> HIDE DEF A, B, C, D
<1>3. /\ IsFiniteSet(A \cup B) /\ Cardinality(A \cup B) <= Cardinality(A) + Cardinality(B) /\ Cardinality(A \cup B) \in Nat
      /\ IsFiniteSet(C \cup D) /\ Cardinality(C \cup D) <= Cardinality(C) + Cardinality(D) /\ Cardinality(C \cup D) \in Nat
  BY <1>2, UnionSmall
<1>4. PICK U : U = (A \cup B) \cup (C \cup D) OBVIOUS
<1>5. IsFiniteSet(U) /\ Cardinality(U) <= Cardinality(A \cup B) + Cardinality(C \cup D) /\ Cardinality(U) \in Nat
  BY <1>3, <1>4, UnionSmall
<1>6. Cardinality(Keys) \in Nat /\ Cardinality(Builds) \in Nat /\ Cardinality(Inodes) \in Nat
  BY EnoughInodes, FS_CardinalityType
<1>7. Cardinality(U) < Cardinality(Inodes) BY <1>2, <1>3, <1>5, <1>6, EnoughInodes
<1>8. ~(Inodes \subseteq U)
  <2> SUFFICES ASSUME Inodes \subseteq U PROVE FALSE OBVIOUS
  <2>1. Cardinality(Inodes) <= Cardinality(U) BY <1>5, FS_Subset
  <2> QED BY <1>5, <1>6, <1>7, <2>1
<1>9. U = Used(names) BY <1>1, <1>4
<1>10. \E i \in Inodes : i \notin Used(names) BY <1>8, <1>9
<1> QED BY <1>10 DEF New

LEMMA UsedHas ==
  ASSUME NEW bl \in [Keys -> Name], NEW o \in [Builds -> Name], NEW t \in [Builds -> Name], NEW s \in [Builds -> Name]
  PROVE  /\ \A k \in Keys : bl[k] \in Used(<<bl, o, t, s>>)
         /\ \A c \in Builds : /\ o[c] \in Used(<<bl, o, t, s>>) /\ t[c] \in Used(<<bl, o, t, s>>)
                              /\ s[c] \in Used(<<bl, o, t, s>>)
<1>1. PICK u : u = Used(<<bl, o, t, s>>) OBVIOUS
<1>2. u = {bl[k] : k \in Keys} \cup {o[c] : c \in Builds} \cup {t[c] : c \in Builds} \cup {s[c] : c \in Builds}
  BY <1>1, UsedIs
<1>3. /\ \A k \in Keys : bl[k] \in u
      /\ \A c \in Builds : o[c] \in u /\ t[c] \in u /\ s[c] \in u
  BY <1>2
<1> QED BY <1>1, <1>3

(* What Files makes of the files, without and with a new one.               *)
LEMMA FilesKept ==
  ASSUME StoreTypeOK, Files(file)
  PROVE  file' \in [Inodes -> File] /\ \A i \in Inodes : i \in Used(names') => file'[i] = file[i]
<1>1. Blank \in File BY DEF Blank, File, Data
<1> QED BY <1>1 DEF Files, StoreTypeOK

LEMMA FilesWritten ==
  ASSUME StoreTypeOK, NEW d \in Data, Files(Written(d))
  PROVE  /\ file' \in [Inodes -> File]
         /\ \A i \in Inodes : i \in Used(names') /\ i # New => file'[i] = file[i]
         /\ New \in Used(names') => file'[New] = [data |-> d, ro |-> FALSE, torn |-> FALSE]
<1>1. Blank \in File BY DEF Blank, File, Data
<1>2. PICK n \in Inodes : n = New BY NewIsFree
<1>3. [data |-> d, ro |-> FALSE, torn |-> FALSE] \in File BY DEF File
<1> DEFINE f == [file EXCEPT ![n] = [data |-> d, ro |-> FALSE, torn |-> FALSE]]
<1>4. f \in [Inodes -> File] /\ f[n] = [data |-> d, ro |-> FALSE, torn |-> FALSE] /\ \A i \in Inodes : i # n => f[i] = file[i]
  BY <1>3 DEF StoreTypeOK
<1>5. file' = [i \in Inodes |-> IF i \in Used(names') THEN f[i] ELSE Blank] BY <1>2 DEF Files, Written
<1> HIDE DEF f
<1> QED BY <1>1, <1>2, <1>4, <1>5

-----------------------------------------------------------------------------
(* The build that steps                                                    *)

(* Build b goes on with its key to one of the places pcs; the others stay.  *)
Moves(b, pcs) ==
  /\ build' \in [Builds -> BuildRecord]
  /\ \A c \in Builds : c # b => build'[c] = build[c]
  /\ build'[b].key = build[b].key
  /\ build'[b].pc \in pcs

LEMMA StepMoves ==
  ASSUME StoreTypeOK, NEW b \in Builds, NEW pc \in StorePcs, Step(b, pc)
  PROVE  Moves(b, {pc}) /\ build'[b].got = build[b].got
<1>1. build \in [Builds -> BuildRecord] BY DEF StoreTypeOK
<1> QED BY <1>1 DEF Step, Moves, BuildRecord

LEMMA SettlesMoves ==
  ASSUME StoreTypeOK, NEW b \in Builds, NEW i \in Inodes, Settles(b, i)
  PROVE  /\ Moves(b, {"idle", "record"})
         /\ build'[b].got = IF file[i].torn THEN "torn" ELSE file[i].data
<1> DEFINE pc == IF build[b].hit THEN "idle" ELSE "record"
           got == IF file[i].torn THEN "torn" ELSE file[i].data
<1>1. build \in [Builds -> BuildRecord] BY DEF StoreTypeOK
<1>2. file[i] \in File BY DEF StoreTypeOK
<1>3. got \in Data \cup {"none", "torn"} BY <1>2 DEF File
<1>4. pc \in {"idle", "record"} /\ pc \in StorePcs BY DEF StorePcs
<1>5. build' = [build EXCEPT ![b].pc = pc, ![b].got = got] BY DEF Settles
<1> HIDE DEF pc, got
<1>6. Moves(b, {"idle", "record"}) /\ build'[b].got = got BY <1>1, <1>3, <1>4, <1>5 DEF Moves, BuildRecord
<1> QED BY <1>6 DEF got

LEMMA FailMoves ==
  ASSUME StoreTypeOK, NEW b \in Builds, Fail(b)
  PROVE  Moves(b, {"execute", "idle"}) /\ build'[b].got = build[b].got
<1>1. build \in [Builds -> BuildRecord] BY DEF StoreTypeOK
<1>2. CASE build' = [build EXCEPT ![b].pc = "execute", ![b].hit = FALSE]
  <2>1. "execute" \in StorePcs BY DEF StorePcs
  <2> QED BY <1>1, <1>2, <2>1 DEF Moves, BuildRecord
<1>3. CASE Step(b, "idle") BY <1>3, StepMoves DEF StorePcs, Moves
<1> QED BY <1>2, <1>3 DEF Fail

-----------------------------------------------------------------------------
(* What preserves the invariant                                            *)

(* The names a step of b may hand on: none of them is what another build's  *)
(* tool has just written.                                                   *)
Known(b) == {None, New, scratch[b]} \cup {blob[k] : k \in Keys} \cup {out[c] : c \in Builds} \cup {tmp[c] : c \in Builds}

LEMMA PrivateStays ==
  ASSUME StoreInv, NEW b \in Builds, NEW c \in Builds, c # b, Is(c, "put"), NEW x \in Known(b)
  PROVE  x # scratch[c]
<1>1. scratch[c] # None /\ Private(c) BY DEF StoreInv, ScratchGood
<1>2. scratch[c] \in Used(names) BY UsedHas DEF StoreInv, StoreTypeOK, names
<1>3. New # scratch[c] BY <1>2, NewIsFree DEF StoreInv
<1> QED BY <1>1, <1>3 DEF Known, Private

LEMMA StoreSteps ==
  ASSUME StoreInv, NEW b \in Builds, StoreTypeOK',
         \A c \in Builds : c # b => /\ build'[c] = build[c] /\ out'[c] = out[c]
                                    /\ tmp'[c] = tmp[c] /\ scratch'[c] = scratch[c],
         out'[b] \in Known(b), tmp'[b] \in Known(b), scratch'[b] \in Known(b),
         \A k \in Keys : blob'[k] \in Known(b) /\ (blob'[k] \in {None, blob[k]} \/ Passes(blob[k], k)'),
         \A i \in Inodes : \A k \in Keys : i \in Used(names) /\ i \in Used(names') /\ Passes(i, k) => Passes(i, k)',
         \A c \in Builds : c # b /\ Is(c, "put") => file'[scratch[c]].data = file[scratch[c]].data,
         Is(b, "rename")' => (tmp[b] # None /\ Passes(tmp[b], Key(b)))',
         Is(b, "put")' => (scratch[b] # None /\ file[scratch[b]].data = Key(b) /\ Private(b))',
         build'[b].got \in {"none", "torn", build'[b].key}
  PROVE  StoreInv'
<1>0. StoreTypeOK /\ names' = <<blob', out', tmp', scratch'>> BY DEF StoreInv, names
<1>1. /\ \A k \in Keys : blob[k] \in Used(names)
      /\ \A c \in Builds : tmp[c] \in Used(names)
  BY <1>0, UsedHas DEF StoreTypeOK, names
<1>2. /\ \A k \in Keys : blob'[k] \in Used(names')
      /\ \A c \in Builds : tmp'[c] \in Used(names')
  BY <1>0, UsedHas DEF StoreTypeOK
<1>3. BlobsGood'
  <2> SUFFICES ASSUME NEW k \in Keys, blob'[k] # None PROVE Passes(blob[k], k)' BY DEF BlobsGood
  <2>1. CASE blob'[k] = blob[k]
    <3>1. blob[k] \in Inodes BY <1>0, <2>1 DEF StoreTypeOK, Name
    <3>2. PICK i \in Inodes : i = blob[k] BY <3>1
    <3>3. Passes(i, k) BY <2>1, <3>2 DEF StoreInv, BlobsGood
    <3>4. Passes(i, k)' BY <1>1, <1>2, <2>1, <3>2, <3>3
    <3> QED BY <2>1, <3>2, <3>4 DEF Passes, Guarded
  <2> QED BY <2>1
<1>4. LinksGood'
  <2> SUFFICES ASSUME NEW c \in Builds, Is(c, "rename")' PROVE (tmp[c] # None /\ Passes(tmp[c], Key(c)))' BY DEF LinksGood
  <2>1. CASE c # b
    <3>1. Is(c, "rename") /\ Key(c)' = Key(c) /\ tmp'[c] = tmp[c] BY <2>1 DEF Is, Key
    <3>2. tmp[c] # None /\ Passes(tmp[c], Key(c)) BY <3>1 DEF StoreInv, LinksGood
    <3>3. PICK i \in Inodes : i = tmp[c] BY <1>0, <3>2 DEF StoreTypeOK, Name
    <3>4. PICK k \in Keys : k = Key(c) BY <1>0, <3>1 DEF StoreTypeOK, Is
    <3>5. Passes(i, k) BY <3>2, <3>3, <3>4
    <3>6. Passes(i, k)' BY <1>1, <1>2, <3>1, <3>3, <3>5
    <3> QED BY <3>1, <3>2, <3>3, <3>4, <3>6 DEF Passes, Guarded
  <2> QED BY <2>1
<1>5. ScratchGood'
  <2> SUFFICES ASSUME NEW c \in Builds, Is(c, "put")'
               PROVE (scratch[c] # None /\ file[scratch[c]].data = Key(c) /\ Private(c))'
    BY DEF ScratchGood
  <2>1. CASE c # b
    <3>1. Is(c, "put") /\ Key(c)' = Key(c) /\ scratch'[c] = scratch[c] BY <2>1 DEF Is, Key
    <3>2. scratch[c] # None /\ file[scratch[c]].data = Key(c) /\ Private(c) BY <3>1 DEF StoreInv, ScratchGood
    <3>3. \A x \in Known(b) : x # scratch[c] BY <2>1, <3>1, PrivateStays
    <3>4. Private(c)' BY <2>1, <3>1, <3>2, <3>3 DEF Private
    <3> QED BY <2>1, <3>1, <3>2, <3>4
  <2> QED BY <2>1
<1>6. ServedTrue' BY DEF StoreInv, ServedTrue, Key
<1> QED BY <1>3, <1>4, <1>5, <1>6 DEF StoreInv

LEMMA PassesStill ==
  ASSUME StoreTypeOK, NEW b \in Builds, Unguarded(b) = {},
         \A c \in Builds : c # b => build'[c] = build[c],
         \A k \in Keys : blob[k] \in {None, blob'[k]} \/ file[blob[k]].torn,
         NEW i, NEW k, file'[i] = file[i], Passes(i, k)
  PROVE  Passes(i, k)'
<1>1. ASSUME NEW c \in Builds, i \in Unguarded(c) PROVE file[i].torn \/ i \in Unguarded(c)'
  <2>1. c # b /\ Is(c, "protect") /\ i = blob[Key(c)] /\ i # None BY <1>1 DEF Unguarded
  <2>2. Is(c, "protect")' /\ Key(c)' = Key(c) BY <2>1 DEF Is, Key
  <2>3. PICK q \in Keys : q = Key(c) BY <2>1 DEF StoreTypeOK, Is
  <2>4. blob'[q] = i \/ file[i].torn BY <2>1, <2>3
  <2> QED BY <2>1, <2>2, <2>3, <2>4 DEF Unguarded
<1> QED BY <1>1 DEF Passes, Guarded

(* A step that leaves the files it keeps as they are, and drops no blob     *)
(* that is not marked.                                                      *)
LEMMA StoreKeeps ==
  ASSUME StoreInv, NEW b \in Builds, Unguarded(b) = {}, StoreTypeOK',
         \A c \in Builds : c # b => /\ build'[c] = build[c] /\ out'[c] = out[c]
                                    /\ tmp'[c] = tmp[c] /\ scratch'[c] = scratch[c],
         out'[b] \in Known(b), tmp'[b] \in Known(b), scratch'[b] \in Known(b),
         \A k \in Keys : blob'[k] \in Known(b) /\ (blob'[k] \in {None, blob[k]} \/ Passes(blob[k], k)'),
         \A k \in Keys : blob[k] \in {None, blob'[k]} \/ file[blob[k]].torn,
         \A i \in Inodes : i \in Used(names) /\ i \in Used(names') => file'[i] = file[i],
         Is(b, "rename")' => (tmp[b] # None /\ Passes(tmp[b], Key(b)))',
         Is(b, "put")' => (scratch[b] # None /\ file[scratch[b]].data = Key(b) /\ Private(b))',
         build'[b].got \in {"none", "torn", build'[b].key}
  PROVE  StoreInv'
<1>0. StoreTypeOK /\ names' = <<blob', out', tmp', scratch'>> BY DEF StoreInv, names
<1>1. ASSUME NEW i \in Inodes, NEW k \in Keys, i \in Used(names), i \in Used(names'), Passes(i, k)
      PROVE  Passes(i, k)'
  <2>1. file'[i] = file[i] BY <1>1
  <2> QED BY <1>0, <1>1, <2>1, PassesStill
<1>2. ASSUME NEW c \in Builds, c # b, Is(c, "put") PROVE file'[scratch[c]].data = file[scratch[c]].data
  <2>1. scratch[c] # None /\ scratch[c] \in Inodes BY <1>0, <1>2 DEF StoreInv, ScratchGood, StoreTypeOK, Name
  <2>2. scratch[c] \in Used(names) BY <1>0, UsedHas DEF StoreTypeOK, names
  <2>3. scratch'[c] \in Used(names') BY <1>0, UsedHas DEF StoreTypeOK
  <2> QED BY <1>2, <2>1, <2>2, <2>3
<1> QED BY <1>1, <1>2, StoreSteps

LEMMA KnownHas ==
  ASSUME StoreTypeOK, NEW b \in Builds
  PROVE  /\ out[b] \in Known(b) /\ tmp[b] \in Known(b) /\ scratch[b] \in Known(b)
         /\ New \in Known(b) /\ None \in Known(b) /\ \A k \in Keys : blob[k] \in Known(b)
BY DEF Known

(* A step that changes nothing but where b is.                              *)
LEMMA StoreQuiet ==
  ASSUME StoreInv, NEW b \in Builds, Unguarded(b) = {}, UNCHANGED <<file, names>>,
         build' \in [Builds -> BuildRecord], \A c \in Builds : c # b => build'[c] = build[c],
         build'[b].pc \notin {"rename", "put"}, build'[b].pc # "idle" => build'[b].key \in Keys,
         build'[b].got \in {"none", "torn", build'[b].key}
  PROVE  StoreInv'
<1>0. StoreTypeOK /\ UNCHANGED <<blob, out, tmp, scratch>> BY DEF StoreInv, names
<1>1. StoreTypeOK' BY <1>0 DEF StoreTypeOK, Key
<1>2. ~Is(b, "rename")' /\ ~Is(b, "put")' BY DEF Is
<1>3. /\ out'[b] \in Known(b) /\ tmp'[b] \in Known(b) /\ scratch'[b] \in Known(b)
      /\ \A k \in Keys : blob'[k] \in Known(b)
  BY <1>0, KnownHas
<1> QED BY <1>0, <1>1, <1>2, <1>3, StoreKeeps

LEMMA MovesQuietly ==
  ASSUME StoreInv, NEW b \in Builds, Unguarded(b) = {}, UNCHANGED <<file, names>>, ~Is(b, "idle"),
         NEW pcs, Moves(b, pcs), pcs \cap {"rename", "put"} = {},
         build'[b].got \in {build[b].got, "torn", build[b].key}
  PROVE  StoreInv'
<1>1. build[b].key \in Keys BY DEF StoreInv, StoreTypeOK, Is, Key
<1>2. build[b].got \in {"none", "torn", build[b].key} BY DEF StoreInv, ServedTrue, Key
<1> QED BY <1>1, <1>2, StoreQuiet DEF Moves

LEMMA StoreStarts == StoreInit => StoreInv
<1> SUFFICES ASSUME StoreInit PROVE StoreInv OBVIOUS
<1>1. Blank \in File BY DEF Blank, File, Data
<1>2. Quiet \in BuildRecord /\ Quiet.pc = "idle" /\ Quiet.got = "none" BY DEF Quiet, BuildRecord, StorePcs
<1>3. None \in Name BY DEF Name
<1>4. StoreTypeOK BY <1>1, <1>2, <1>3 DEF StoreInit, StoreTypeOK
<1>5. \A b \in Builds : build[b].pc = "idle" /\ build[b].got = "none" BY <1>2 DEF StoreInit
<1>6. BlobsGood BY DEF StoreInit, BlobsGood
<1> QED BY <1>4, <1>5, <1>6 DEF StoreInv, LinksGood, ScratchGood, ServedTrue, Is

LEMMA CacheLooked ==
  ASSUME StoreInv, NEW b \in Builds, spn_dag_action_cache_get(b)
  PROVE  StoreInv'
<1>0. PICK k \in Keys : \E found :
        build' = [build EXCEPT ![b] = [pc |-> IF found = "none" THEN "execute" ELSE "settle",
                                       key |-> k, hit |-> found # "none", got |-> "none"]]
  BY DEF spn_dag_action_cache_get
<1>1. PICK found :
        build' = [build EXCEPT ![b] = [pc |-> IF found = "none" THEN "execute" ELSE "settle",
                                       key |-> k, hit |-> found # "none", got |-> "none"]]
  BY <1>0
<1> DEFINE r == [pc |-> IF found = "none" THEN "execute" ELSE "settle", key |-> k, hit |-> found # "none", got |-> "none"]
<1>2. r \in BuildRecord /\ r.pc \in {"execute", "settle"} /\ r.key = k /\ r.got = "none" BY DEF BuildRecord, StorePcs
<1>3. build' = [build EXCEPT ![b] = r] BY <1>1
<1> HIDE DEF r
<1>4. build \in [Builds -> BuildRecord] BY DEF StoreInv, StoreTypeOK
<1>5. build' \in [Builds -> BuildRecord] /\ build'[b] = r /\ \A c \in Builds : c # b => build'[c] = build[c]
  BY <1>2, <1>3, <1>4
<1>6. Unguarded(b) = {} BY DEF spn_dag_action_cache_get, Is, Unguarded
<1> QED BY <1>2, <1>5, <1>6, StoreQuiet DEF spn_dag_action_cache_get

LEMMA FileSettled ==
  ASSUME StoreInv, NEW b \in Builds, settle_file(b)
  PROVE  StoreInv'
<1>0. StoreTypeOK /\ Is(b, "settle") /\ ~Is(b, "idle") /\ Unguarded(b) = {} BY DEF StoreInv, settle_file, Is, Unguarded
<1>1. PICK k \in Keys : k = Key(b) BY <1>0 DEF StoreTypeOK, Is
<1>2. CASE target_state(b) = "settled" /\ Settles(b, out[b]) /\ UNCHANGED <<file, names>>
  <2>1. out[b] # None /\ file[out[b]].data = Key(b) BY <1>2 DEF target_state
  <2>2. out[b] \in Inodes BY <1>0, <2>1 DEF StoreTypeOK, Name
  <2>3. /\ Moves(b, {"idle", "record"}) /\ build'[b].got \in {"torn", Key(b)} BY <1>0, <1>2, <2>1, <2>2, SettlesMoves
  <2> QED BY <1>0, <1>2, <2>3, MovesQuietly DEF Key
<1>3. CASE target_state(b) = "stale" /\ Step(b, "link") /\ UNCHANGED <<file, names>>
  <2>1. "link" \in StorePcs BY DEF StorePcs
  <2> QED BY <1>0, <1>3, <2>1, StepMoves, MovesQuietly
<1>4. CASE /\ target_state(b) = "poisoned" /\ blob' = [blob EXCEPT ![Key(b)] = None] /\ UNCHANGED <<out, tmp, scratch>>
           /\ Files(file) /\ Fail(b)
  <2>1. out[b] # None /\ out[b] = blob[k] /\ file[out[b]].data # k BY <1>1, <1>4 DEF target_state
  <2>2. file[blob[k]].torn BY <2>1 DEF StoreInv, BlobsGood, Passes
  <2>3. file' \in [Inodes -> File] /\ \A i \in Inodes : i \in Used(names') => file'[i] = file[i] BY <1>0, <1>4, FilesKept
  <2>4. /\ blob' \in [Keys -> Name] /\ blob'[k] = None /\ \A q \in Keys : q # k => blob'[q] = blob[q]
    BY <1>0, <1>1, <1>4 DEF StoreTypeOK, Name
  <2>5. Moves(b, {"execute", "idle"}) /\ build'[b].got = build[b].got BY <1>0, <1>4, FailMoves
  <2>6. StoreTypeOK' BY <1>0, <1>1, <1>4, <2>3, <2>4, <2>5 DEF StoreTypeOK, Moves, Key
  <2>7. ~Is(b, "rename")' /\ ~Is(b, "put")' BY <2>5 DEF Is, Moves
  <2>8. build'[b].got \in {"none", "torn", build'[b].key} BY <2>5 DEF Moves, StoreInv, ServedTrue, Key
  <2>9. /\ out'[b] \in Known(b) /\ tmp'[b] \in Known(b) /\ scratch'[b] \in Known(b)
        /\ \A q \in Keys : blob'[q] \in Known(b) /\ blob'[q] \in {None, blob[q]}
    BY <1>0, <1>4, <2>4, KnownHas
  <2>10. \A q \in Keys : blob[q] \in {None, blob'[q]} \/ file[blob[q]].torn BY <2>2, <2>4
  <2> QED BY <1>0, <1>4, <2>3, <2>5, <2>6, <2>7, <2>8, <2>9, <2>10, StoreKeeps DEF Moves
<1> QED BY <1>2, <1>3, <1>4 DEF settle_file

(* A step of b that renames, removes or makes b's own names, with the blobs *)
(* as they are.                                                             *)
LEMMA StoreRenames ==
  ASSUME StoreInv, NEW b \in Builds, ~Is(b, "idle"), Unguarded(b) = {}, UNCHANGED blob,
         file' \in [Inodes -> File], \A i \in Inodes : i \in Used(names) /\ i \in Used(names') => file'[i] = file[i],
         out' \in [Builds -> Name], tmp' \in [Builds -> Name], scratch' \in [Builds -> Name],
         \A c \in Builds : c # b => out'[c] = out[c] /\ tmp'[c] = tmp[c] /\ scratch'[c] = scratch[c],
         out'[b] \in Known(b), tmp'[b] \in Known(b), scratch'[b] \in Known(b),
         NEW pcs, Moves(b, pcs),
         Is(b, "rename")' => (tmp[b] # None /\ Passes(tmp[b], Key(b)))',
         Is(b, "put")' => (scratch[b] # None /\ file[scratch[b]].data = Key(b) /\ Private(b))',
         build'[b].got \in {build[b].got, "torn", build[b].key}
  PROVE  StoreInv'
<1>1. StoreTypeOK /\ Key(b) \in Keys BY DEF StoreInv, StoreTypeOK, Is
<1>2. StoreTypeOK' BY <1>1 DEF StoreTypeOK, Moves, Key
<1>3. build'[b].got \in {"none", "torn", build'[b].key} BY DEF Moves, StoreInv, ServedTrue, Key
<1>4. \A k \in Keys : blob'[k] \in Known(b) BY <1>1, KnownHas
<1> QED BY <1>1, <1>2, <1>3, <1>4, StoreKeeps DEF Moves

LEMMA Materialized ==
  ASSUME StoreInv, NEW b \in Builds, spn_dag_store_materialize(b)
  PROVE  StoreInv'
<1>0. StoreTypeOK /\ ~Is(b, "idle") /\ Unguarded(b) = {} BY DEF StoreInv, spn_dag_store_materialize, Is, Unguarded
<1>1. PICK k \in Keys : k = Key(b) BY <1>0 DEF StoreTypeOK, Is
<1>2. PICK i \in Name : i = blob[k] BY <1>0 DEF StoreTypeOK
<1>3. i # None => i \in Inodes /\ Passes(i, k) BY <1>2 DEF Name, StoreInv, BlobsGood
<1>4. CASE i = None /\ Fail(b) /\ UNCHANGED <<file, names>>
  BY <1>0, <1>4, FailMoves, MovesQuietly
<1>5. CASE i # None /\ tmp' = [tmp EXCEPT ![b] = i] /\ Step(b, "rename") /\ UNCHANGED <<file, blob, out, scratch>>
  <2>1. "rename" \in StorePcs BY DEF StorePcs
  <2>2. Moves(b, {"rename"}) /\ build'[b].got = build[b].got BY <1>0, <1>5, <2>1, StepMoves
  <2>3. Passes(i, k)' BY <1>0, <1>3, <1>5, <2>2, PassesStill DEF Moves
  <2>4. tmp' \in [Builds -> Name] /\ tmp'[b] = i /\ \A c \in Builds : c # b => tmp'[c] = tmp[c]
    BY <1>0, <1>5 DEF StoreTypeOK
  <2>5. (tmp[b] # None /\ Passes(tmp[b], Key(b)))' BY <1>1, <1>5, <2>2, <2>3, <2>4 DEF Moves, Key, Passes, Guarded
  <2>6. ~Is(b, "put")' BY <2>2 DEF Moves, Is
  <2>7. out'[b] \in Known(b) /\ tmp'[b] \in Known(b) /\ scratch'[b] \in Known(b) BY <1>0, <1>2, <1>5, <2>4, KnownHas
  <2>8. file' \in [Inodes -> File] /\ out' \in [Builds -> Name] /\ scratch' \in [Builds -> Name] BY <1>0, <1>5 DEF StoreTypeOK
  <2> QED BY <1>0, <1>5, <2>2, <2>4, <2>5, <2>6, <2>7, <2>8, StoreRenames
<1>6. CASE /\ i # None /\ out' = [out EXCEPT ![b] = New] /\ UNCHANGED <<blob, tmp, scratch>>
           /\ Files(Written(file[i].data)) /\ Settles(b, i)
  <2>1. file[i].data \in Data /\ file[i].torn \in BOOLEAN BY <1>0, <1>3, <1>6 DEF StoreTypeOK, File
  <2>2. New \in Inodes /\ New \notin Used(names) BY <1>0, NewIsFree
  <2>3. file' \in [Inodes -> File] /\ \A j \in Inodes : j \in Used(names') /\ j # New => file'[j] = file[j]
    BY <1>0, <1>6, <2>1, FilesWritten
  <2>4. Moves(b, {"idle", "record"}) /\ build'[b].got = IF file[i].torn THEN "torn" ELSE file[i].data
    BY <1>0, <1>3, <1>6, SettlesMoves
  <2>5. build'[b].got \in {"torn", build[b].key} BY <1>1, <1>3, <1>6, <2>4 DEF Passes, Key
  <2>6. out' \in [Builds -> Name] /\ out'[b] = New /\ \A c \in Builds : c # b => out'[c] = out[c]
    BY <1>0, <1>6, <2>2 DEF StoreTypeOK, Name
  <2>7. ~Is(b, "put")' /\ ~Is(b, "rename")' BY <2>4 DEF Moves, Is
  <2>8. out'[b] \in Known(b) /\ tmp'[b] \in Known(b) /\ scratch'[b] \in Known(b) BY <1>0, <1>6, <2>6, KnownHas
  <2>9. tmp' \in [Builds -> Name] /\ scratch' \in [Builds -> Name] BY <1>0, <1>6 DEF StoreTypeOK
  <2> QED BY <1>0, <1>6, <2>2, <2>3, <2>4, <2>5, <2>6, <2>7, <2>8, <2>9, StoreRenames
<1>7. CASE /\ Is(b, "rename") /\ out' = [out EXCEPT ![b] = tmp[b]]
           /\ tmp' = IF out[b] = tmp[b] THEN tmp ELSE [tmp EXCEPT ![b] = None]
           /\ UNCHANGED <<blob, scratch>> /\ Files(file) /\ Settles(b, tmp[b])
  <2>1. tmp[b] # None /\ Passes(tmp[b], Key(b)) /\ tmp[b] \in Inodes
    BY <1>0, <1>7 DEF StoreInv, LinksGood, StoreTypeOK, Name
  <2>2. file' \in [Inodes -> File] /\ \A j \in Inodes : j \in Used(names') => file'[j] = file[j] BY <1>0, <1>7, FilesKept
  <2>3. Moves(b, {"idle", "record"}) /\ build'[b].got = IF file[tmp[b]].torn THEN "torn" ELSE file[tmp[b]].data
    BY <1>0, <1>7, <2>1, SettlesMoves
  <2>4. build'[b].got \in {"torn", build[b].key} BY <2>1, <2>3 DEF Passes, Key
  <2>5. out' \in [Builds -> Name] /\ out'[b] = tmp[b] /\ \A c \in Builds : c # b => out'[c] = out[c]
    BY <1>0, <1>7 DEF StoreTypeOK
  <2>6. tmp' \in [Builds -> Name] /\ tmp'[b] \in {None, tmp[b]} /\ \A c \in Builds : c # b => tmp'[c] = tmp[c]
    BY <1>0, <1>7 DEF StoreTypeOK, Name
  <2>7. ~Is(b, "put")' /\ ~Is(b, "rename")' BY <2>3 DEF Moves, Is
  <2>8. out'[b] \in Known(b) /\ tmp'[b] \in Known(b) /\ scratch'[b] \in Known(b) BY <1>0, <1>7, <2>5, <2>6, KnownHas
  <2>9. scratch' \in [Builds -> Name] BY <1>0, <1>7 DEF StoreTypeOK
  <2> QED BY <1>0, <1>7, <2>2, <2>3, <2>4, <2>5, <2>6, <2>7, <2>8, <2>9, StoreRenames
<1>8. CASE Is(b, "rename") /\ tmp' = [tmp EXCEPT ![b] = None] /\ UNCHANGED <<blob, out, scratch>> /\ Files(file) /\ Fail(b)
  <2>1. file' \in [Inodes -> File] /\ \A j \in Inodes : j \in Used(names') => file'[j] = file[j] BY <1>0, <1>8, FilesKept
  <2>2. Moves(b, {"execute", "idle"}) /\ build'[b].got = build[b].got BY <1>0, <1>8, FailMoves
  <2>3. tmp' \in [Builds -> Name] /\ tmp'[b] = None /\ \A c \in Builds : c # b => tmp'[c] = tmp[c]
    BY <1>0, <1>8 DEF StoreTypeOK, Name
  <2>4. ~Is(b, "put")' /\ ~Is(b, "rename")' BY <2>2 DEF Moves, Is
  <2>5. out'[b] \in Known(b) /\ tmp'[b] \in Known(b) /\ scratch'[b] \in Known(b) BY <1>0, <1>8, <2>3, KnownHas
  <2>6. out' \in [Builds -> Name] /\ scratch' \in [Builds -> Name] BY <1>0, <1>8 DEF StoreTypeOK
  <2> QED BY <1>0, <1>8, <2>1, <2>2, <2>3, <2>4, <2>5, <2>6, StoreRenames
<1> QED BY <1>1, <1>2, <1>4, <1>5, <1>6, <1>7, <1>8 DEF spn_dag_store_materialize

LEMMA ScratchGone ==
  ASSUME StoreInv, NEW b \in Builds, ~Is(b, "idle"), Unguarded(b) = {}, Moves(b, {"idle"}), build'[b].got = build[b].got,
         scratch' = [scratch EXCEPT ![b] = None], UNCHANGED <<blob, out, tmp>>, Files(file)
  PROVE  StoreInv'
<1>0. StoreTypeOK BY DEF StoreInv
<1>1. file' \in [Inodes -> File] /\ \A j \in Inodes : j \in Used(names') => file'[j] = file[j] BY <1>0, FilesKept
<1>2. scratch' \in [Builds -> Name] /\ scratch'[b] = None /\ \A c \in Builds : c # b => scratch'[c] = scratch[c]
  BY <1>0 DEF StoreTypeOK, Name
<1>3. ~Is(b, "put")' /\ ~Is(b, "rename")' BY DEF Moves, Is
<1>4. out'[b] \in Known(b) /\ tmp'[b] \in Known(b) /\ scratch'[b] \in Known(b) BY <1>0, <1>2, KnownHas
<1>5. out' \in [Builds -> Name] /\ tmp' \in [Builds -> Name] BY <1>0 DEF StoreTypeOK
<1> QED BY <1>1, <1>2, <1>3, <1>4, <1>5, StoreRenames

(* A step that changes files and no names.                                  *)
LEMMA FilesOnly ==
  ASSUME StoreInv, NEW b \in Builds, UNCHANGED <<blob, out, tmp, scratch>>,
         file' \in [Inodes -> File], build' \in [Builds -> BuildRecord],
         \A c \in Builds : c # b => build'[c] = build[c],
         build'[b].pc # "idle" => build'[b].key \in Keys,
         build' = build \/ build'[b].pc \notin {"rename", "put"},
         build'[b].got \in {"none", "torn", build'[b].key},
         \A c \in Builds : Is(c, "put") => file'[scratch[c]] = file[scratch[c]],
         \A i \in Inodes : \A k \in Keys : Passes(i, k) => Passes(i, k)'
  PROVE  StoreInv'
<1>0. StoreTypeOK BY DEF StoreInv
<1>1. StoreTypeOK' BY <1>0 DEF StoreTypeOK, Key
<1>2. ASSUME Is(b, "rename")' PROVE (tmp[b] # None /\ Passes(tmp[b], Key(b)))'
  <2>1. build' = build /\ Is(b, "rename") BY <1>2 DEF Is
  <2>2. tmp[b] # None /\ Passes(tmp[b], Key(b)) BY <2>1 DEF StoreInv, LinksGood
  <2>3. PICK i \in Inodes : i = tmp[b] BY <1>0, <2>2 DEF StoreTypeOK, Name
  <2>4. PICK k \in Keys : k = Key(b) BY <1>0, <2>1 DEF StoreTypeOK, Is
  <2>5. Passes(i, k)' BY <2>2, <2>3, <2>4
  <2> QED BY <2>1, <2>2, <2>3, <2>4, <2>5 DEF Passes, Guarded, Key
<1>3. ASSUME Is(b, "put")' PROVE (scratch[b] # None /\ file[scratch[b]].data = Key(b) /\ Private(b))'
  <2>1. build' = build /\ Is(b, "put") BY <1>3 DEF Is
  <2>2. scratch[b] # None /\ file[scratch[b]].data = Key(b) /\ Private(b) BY <2>1 DEF StoreInv, ScratchGood
  <2> QED BY <2>1, <2>2 DEF Private, Key
<1>4. /\ out'[b] \in Known(b) /\ tmp'[b] \in Known(b) /\ scratch'[b] \in Known(b)
      /\ \A k \in Keys : blob'[k] \in Known(b)
  BY <1>0, KnownHas
<1> QED BY <1>0, <1>1, <1>2, <1>3, <1>4, StoreSteps

LEMMA Executed ==
  ASSUME StoreInv, NEW b \in Builds, execute_attempt(b)
  PROVE  StoreInv'
<1>0. StoreTypeOK /\ ~Is(b, "idle") /\ Unguarded(b) = {} BY DEF StoreInv, execute_attempt, Is, Unguarded
<1>1. PICK k \in Keys : k = Key(b) BY <1>0 DEF StoreTypeOK, Is
<1>2. PICK n \in Inodes : n = New /\ n \notin Used(names) BY <1>0, NewIsFree
<1>3. CASE scratch' = [scratch EXCEPT ![b] = New] /\ UNCHANGED <<blob, out, tmp>> /\ Files(Written(Key(b))) /\ Step(b, "put")
  <2>1. "put" \in StorePcs /\ k \in Data BY DEF StorePcs, Data
  <2>2. Moves(b, {"put"}) /\ build'[b].got = build[b].got BY <1>0, <1>3, <2>1, StepMoves
  <2>3. scratch' \in [Builds -> Name] /\ scratch'[b] = n /\ \A c \in Builds : c # b => scratch'[c] = scratch[c]
    BY <1>0, <1>2, <1>3 DEF StoreTypeOK, Name
  <2>4. /\ file' \in [Inodes -> File]
        /\ \A j \in Inodes : j \in Used(names') /\ j # n => file'[j] = file[j]
        /\ n \in Used(names') => file'[n] = [data |-> k, ro |-> FALSE, torn |-> FALSE]
    BY <1>0, <1>1, <1>2, <1>3, <2>1, FilesWritten
  <2>5. blob' \in [Keys -> Name] /\ out' \in [Builds -> Name] /\ tmp' \in [Builds -> Name] BY <1>0, <1>3 DEF StoreTypeOK
  <2>6. n \in Used(names') BY <2>3, <2>5, UsedHas DEF names
  <2>7. /\ \A q \in Keys : blob[q] # n
        /\ \A c \in Builds : out[c] # n /\ tmp[c] # n /\ scratch[c] # n
    BY <1>0, <1>2, UsedHas DEF StoreTypeOK, names
  <2>8. Private(b)' BY <1>3, <2>3, <2>7 DEF Private
  <2>9. n # None BY InodesAssumption
  <2>10. (scratch[b] # None /\ file[scratch[b]].data = Key(b) /\ Private(b))'
    BY <1>1, <2>2, <2>3, <2>4, <2>6, <2>8, <2>9 DEF Moves, Key
  <2>11. ~Is(b, "rename")' BY <2>2 DEF Moves, Is
  <2>12. out'[b] \in Known(b) /\ tmp'[b] \in Known(b) /\ scratch'[b] \in Known(b) BY <1>0, <1>2, <1>3, <2>3, KnownHas
  <2> QED BY <1>0, <1>2, <1>3, <2>2, <2>3, <2>4, <2>5, <2>10, <2>11, <2>12, StoreRenames
<1>4. CASE scratch' = [scratch EXCEPT ![b] = None] /\ UNCHANGED <<blob, out, tmp>> /\ Files(file) /\ Step(b, "idle")
  <2>1. "idle" \in StorePcs BY DEF StorePcs
  <2>2. Moves(b, {"idle"}) /\ build'[b].got = build[b].got BY <1>0, <1>4, <2>1, StepMoves
  <2> QED BY <1>0, <1>4, <2>2, ScratchGone
<1> QED BY <1>3, <1>4 DEF execute_attempt

LEMMA ActionRecorded ==
  ASSUME StoreInv, NEW b \in Builds, record(b)
  PROVE  StoreInv'
<1>0. StoreTypeOK /\ ~Is(b, "idle") /\ Unguarded(b) = {} BY DEF StoreInv, record, Is, Unguarded
<1>1. "idle" \in StorePcs BY DEF StorePcs
<1>2. Moves(b, {"idle"}) /\ build'[b].got = build[b].got BY <1>0, <1>1, StepMoves DEF record
<1> QED BY <1>0, <1>2, ScratchGone DEF record

LEMMA FilePut ==
  ASSUME StoreInv, NEW b \in Builds, spn_dag_store_put_file(b)
  PROVE  StoreInv'
<1>0. StoreTypeOK /\ ~Is(b, "idle") BY DEF StoreInv, spn_dag_store_put_file, Is
<1>1. PICK k \in Keys : k = Key(b) BY <1>0 DEF StoreTypeOK, Is
<1>2. CASE Is(b, "put") /\ Step(b, "settle") /\ UNCHANGED <<file, names>>
  <2>1. "settle" \in StorePcs BY DEF StorePcs
  <2>2. Unguarded(b) = {} BY <1>2 DEF Unguarded, Is
  <2> QED BY <1>0, <1>2, <2>1, <2>2, StepMoves, MovesQuietly
<1>3. CASE (Is(b, "put") \/ (Is(b, "protect") /\ blob[Key(b)] = None)) /\ Step(b, "idle") /\ UNCHANGED <<file, names>>
  <2>1. "idle" \in StorePcs BY DEF StorePcs
  <2>2. Unguarded(b) = {} BY <1>3 DEF Unguarded, Is
  <2> QED BY <1>0, <1>3, <2>1, <2>2, StepMoves, MovesQuietly
<1>4. CASE /\ Is(b, "put") /\ blob[Key(b)] = None /\ Step(b, "protect") /\ UNCHANGED <<out, tmp, scratch>>
           /\ \/ blob' = [blob EXCEPT ![Key(b)] = scratch[b]] /\ Files(file)
              \/ blob' = [blob EXCEPT ![Key(b)] = New] /\ Files(Written(file[scratch[b]].data))
  <2>1. "protect" \in StorePcs BY DEF StorePcs
  <2>2. Moves(b, {"protect"}) /\ build'[b].got = build[b].got BY <1>0, <1>4, <2>1, StepMoves
  <2>3. Unguarded(b) = {} BY <1>4 DEF Unguarded, Is
  <2>4. scratch[b] # None /\ scratch[b] \in Inodes /\ file[scratch[b]].data = k
    BY <1>0, <1>1, <1>4 DEF StoreInv, ScratchGood, StoreTypeOK, Name
  <2>5. k \in Data BY DEF Data
  <2>6. New \in Inodes /\ New \notin Used(names) BY <1>0, NewIsFree
  <2>7. PICK n \in Inodes :
          /\ n \in {scratch[b], New} /\ blob' = [blob EXCEPT ![k] = n]
          /\ (n = scratch[b] /\ Files(file)) \/ (n = New /\ Files(Written(k)))
    BY <1>1, <1>4, <2>4, <2>6
  <2>8. /\ blob' \in [Keys -> Name] /\ blob'[k] = n /\ \A q \in Keys : q # k => blob'[q] = blob[q]
    BY <1>0, <2>7 DEF StoreTypeOK, Name
  <2>9. out' \in [Builds -> Name] /\ tmp' \in [Builds -> Name] /\ scratch' \in [Builds -> Name] BY <1>0, <1>4 DEF StoreTypeOK
  <2>10. n \in Used(names') BY <2>8, <2>9, UsedHas DEF names
  <2>11. file' \in [Inodes -> File] /\ file'[n].data = k /\ \A j \in Inodes : j \in Used(names) /\ j \in Used(names') => file'[j] = file[j]
    <3>1. CASE n = scratch[b] /\ Files(file) BY <1>0, <2>4, <2>10, <3>1, FilesKept
    <3>2. CASE n = New /\ Files(Written(k))
      <4>1. /\ file' \in [Inodes -> File]
            /\ \A i \in Inodes : i \in Used(names') /\ i # New => file'[i] = file[i]
            /\ New \in Used(names') => file'[New] = [data |-> k, ro |-> FALSE, torn |-> FALSE]
        BY <1>0, <2>5, <3>2, FilesWritten
      <4>2. file'[n].data = k BY <2>10, <3>2, <4>1
      <4> QED BY <2>6, <4>1, <4>2
    <3> QED BY <2>7, <3>1, <3>2
  <2>12. StoreTypeOK' BY <1>0, <1>1, <2>2, <2>8, <2>9, <2>11 DEF StoreTypeOK, Moves, Key
  <2>13. n # None BY InodesAssumption
  <2>14. n \in Unguarded(b)' BY <1>1, <2>2, <2>8, <2>13 DEF Unguarded, Is, Key, Moves
  <2>15. Passes(n, k)' BY <2>11, <2>14 DEF Passes, Guarded
  <2>16. \A q \in Keys : blob'[q] \in Known(b) /\ (blob'[q] \in {None, blob[q]} \/ Passes(blob[q], q)')
    <3>1. Passes(blob[k], k)' BY <2>8, <2>15 DEF Passes, Guarded
    <3>2. n \in Known(b) BY <1>0, <2>7, KnownHas
    <3> QED BY <1>0, <2>8, <3>1, <3>2, KnownHas
  <2>17. \A q \in Keys : blob[q] \in {None, blob'[q]} BY <1>1, <1>4, <2>8
  <2>18. ~Is(b, "rename")' /\ ~Is(b, "put")' BY <2>2 DEF Moves, Is
  <2>19. build'[b].got \in {"none", "torn", build'[b].key} BY <2>2 DEF Moves, StoreInv, ServedTrue, Key
  <2>20. out'[b] \in Known(b) /\ tmp'[b] \in Known(b) /\ scratch'[b] \in Known(b) BY <1>0, <1>4, KnownHas
  <2> QED BY <1>4, <2>2, <2>3, <2>11, <2>12, <2>16, <2>17, <2>18, <2>19, <2>20, StoreKeeps DEF Moves
<1>5. CASE Is(b, "protect") /\ blob[Key(b)] # None /\ file' = Protected(blob[Key(b)]) /\ Step(b, "settle") /\ UNCHANGED names
  <2>1. "settle" \in StorePcs BY DEF StorePcs
  <2>2. Moves(b, {"settle"}) /\ build'[b].got = build[b].got BY <1>0, <1>5, <2>1, StepMoves
  <2>3. PICK n \in Inodes : n = blob[k] BY <1>0, <1>1, <1>5 DEF StoreTypeOK, Name
  <2>4. file' = [file EXCEPT ![n].ro = TRUE] BY <1>1, <1>5, <2>3 DEF Protected
  <2>5. /\ file' \in [Inodes -> File] /\ \A i \in Inodes : i # n => file'[i] = file[i]
        /\ file'[n].ro /\ file'[n].data = file[n].data /\ file'[n].torn = file[n].torn
    BY <1>0, <2>4 DEF StoreTypeOK, File
  <2>6. UNCHANGED <<blob, out, tmp, scratch>> BY <1>5 DEF names
  <2>7. ASSUME NEW i \in Inodes, NEW q \in Keys, Passes(i, q) PROVE Passes(i, q)'
    <3>1. CASE i = n BY <2>5, <2>7, <3>1 DEF Passes, Guarded
    <3>2. CASE i # n
      <4>1. \A c \in Builds : i \in Unguarded(c) => i \in Unguarded(c)'
        BY <1>1, <2>2, <2>3, <2>6, <3>2 DEF Unguarded, Is, Key, Moves
      <4> QED BY <2>5, <2>7, <3>2, <4>1 DEF Passes, Guarded
    <3> QED BY <3>1, <3>2
  <2>8. ASSUME NEW c \in Builds, Is(c, "put") PROVE file'[scratch[c]] = file[scratch[c]]
    <3>1. scratch[c] \in Inodes /\ scratch[c] # n
      BY <1>0, <2>3, <2>8 DEF StoreInv, ScratchGood, Private, StoreTypeOK, Name
    <3> QED BY <2>5, <3>1
  <2>9. build'[b].got \in {"none", "torn", build'[b].key} BY <2>2 DEF Moves, StoreInv, ServedTrue, Key
  <2>10. build'[b].key \in Keys /\ build'[b].pc = "settle" BY <1>1, <2>2 DEF Moves, Key
  <2> QED BY <2>2, <2>5, <2>6, <2>7, <2>8, <2>9, <2>10, FilesOnly DEF Moves
<1> QED BY <1>2, <1>3, <1>4, <1>5 DEF spn_dag_store_put_file

LEMMA Killed ==
  ASSUME StoreInv, NEW b \in Builds, BuildKilled(b)
  PROVE  StoreInv'
<1>0. StoreTypeOK /\ UNCHANGED <<blob, out, tmp, scratch>> BY DEF StoreInv, BuildKilled, names
<1>1. Quiet \in BuildRecord /\ Quiet.pc = "idle" /\ Quiet.got = "none" BY DEF Quiet, BuildRecord, StorePcs
<1>2. /\ build' \in [Builds -> BuildRecord] /\ build'[b] = Quiet /\ \A c \in Builds : c # b => build'[c] = build[c]
  BY <1>0, <1>1 DEF BuildKilled, StoreTypeOK
<1>3. \A i \in Inodes : file'[i] = IF i \in Unguarded(b) THEN [file[i] EXCEPT !.torn = TRUE] ELSE file[i]
  BY DEF BuildKilled
<1>4. \A i \in Inodes : file[i] \in File BY <1>0 DEF StoreTypeOK
<1>5. file' \in [Inodes -> File]
  <2>1. \A i \in Inodes : [file[i] EXCEPT !.torn = TRUE] \in File BY <1>4 DEF File
  <2> QED BY <1>4, <2>1 DEF BuildKilled
<1>6. \A i \in Inodes : i \in Unguarded(b) => file'[i].torn BY <1>3, <1>4 DEF File
<1>7. ASSUME NEW i \in Inodes, NEW k \in Keys, Passes(i, k) PROVE Passes(i, k)'
  <2>1. CASE i \in Unguarded(b) BY <1>6, <2>1 DEF Passes, Guarded
  <2>2. CASE i \notin Unguarded(b)
    <3>1. \A c \in Builds : i \in Unguarded(c) => i \in Unguarded(c)'
      BY <1>0, <1>2, <2>2 DEF Unguarded, Is, Key
    <3>2. file'[i] = file[i] BY <1>3, <2>2
    <3> QED BY <1>7, <3>1, <3>2 DEF Passes, Guarded
  <2> QED BY <2>1, <2>2
<1>8. ASSUME NEW c \in Builds, Is(c, "put") PROVE file'[scratch[c]] = file[scratch[c]]
  <2>1. scratch[c] \in Inodes /\ \A k \in Keys : scratch[c] # blob[k]
    BY <1>0, <1>8 DEF StoreInv, ScratchGood, Private, StoreTypeOK, Name
  <2>2. scratch[c] \notin Unguarded(b)
    BY <1>0, <2>1 DEF Unguarded, StoreTypeOK, Is
  <2> QED BY <1>3, <2>1, <2>2
<1> QED BY <1>0, <1>1, <1>2, <1>5, <1>7, <1>8, FilesOnly

LEMMA Edited ==
  ASSUME StoreInv, NEW b \in Builds, UserEdits(b)
  PROVE  StoreInv'
<1>0. StoreTypeOK /\ UNCHANGED build /\ out[b] # None BY DEF StoreInv, UserEdits
<1>1. out[b] \in Inodes BY <1>0 DEF StoreTypeOK, Name
<1>2. /\ \A c \in Builds : build[c].got \in {"none", "torn", build[c].key}
      /\ \A c \in Builds : build[c].pc # "idle" => build[c].key \in Keys
      /\ build \in [Builds -> BuildRecord]
  BY <1>0 DEF StoreInv, ServedTrue, Key, StoreTypeOK
<1>3. CASE /\ ~file[out[b]].ro /\ UNCHANGED names
           /\ file' = [file EXCEPT ![out[b]] = [data |-> "edited", ro |-> FALSE,
                         torn |-> @.torn \/ \E c \in Builds : out[b] \in Unguarded(c)]]
  <2>0. UNCHANGED <<blob, out, tmp, scratch>> BY <1>3 DEF names
  <2>1. PICK n \in Inodes : n = out[b] BY <1>1
  <2> DEFINE open == \E c \in Builds : n \in Unguarded(c)
             torn == file[n].torn \/ open
             r == [data |-> "edited", ro |-> FALSE, torn |-> torn]
  <2>2. file[n] \in File BY <1>0 DEF StoreTypeOK
  <2>3. torn \in BOOLEAN OBVIOUS
  <2>4. file' = [file EXCEPT ![n] = r] BY <1>3, <2>1
  <2> HIDE DEF torn
  <2>5. r \in File /\ r.torn = torn BY <2>3 DEF File, Data
  <2> HIDE DEF r
  <2>6. file' \in [Inodes -> File] /\ file'[n].torn = torn /\ \A i \in Inodes : i # n => file'[i] = file[i]
    BY <1>0, <2>4, <2>5 DEF StoreTypeOK
  <2>7. \A c \in Builds : Unguarded(c)' = Unguarded(c) BY <1>0, <2>0 DEF Unguarded, Is, Key
  <2>8. ASSUME NEW i \in Inodes, NEW k \in Keys, Passes(i, k) PROVE Passes(i, k)'
    <3>1. CASE i = n
      <4>1. torn BY <1>3, <2>1, <2>8, <3>1 DEF Passes, Guarded, torn
      <4>2. file'[i].torn BY <2>6, <3>1, <4>1
      <4> QED BY <4>2 DEF Passes, Guarded
    <3>2. CASE i # n BY <2>6, <2>7, <2>8, <3>2 DEF Passes, Guarded
    <3> QED BY <3>1, <3>2
  <2>9. ASSUME NEW c \in Builds, Is(c, "put") PROVE file'[scratch[c]] = file[scratch[c]]
    <3>1. scratch[c] \in Inodes /\ scratch[c] # n
      BY <1>0, <2>1, <2>9 DEF StoreInv, ScratchGood, Private, StoreTypeOK, Name
    <3> QED BY <2>6, <3>1
  <2> QED BY <1>0, <1>2, <2>0, <2>6, <2>8, <2>9, FilesOnly
<1>4. ASSUME NEW n \in {New, None}, out' = [out EXCEPT ![b] = n], UNCHANGED <<blob, tmp, scratch>>,
             file' \in [Inodes -> File], \A i \in Inodes : i \in Used(names) /\ i \in Used(names') => file'[i] = file[i]
      PROVE  StoreInv'
  <2>1. n \in Name /\ n \in Known(b) BY <1>0, NewIsFree, KnownHas DEF Name
  <2>2. out' \in [Builds -> Name] /\ out'[b] = n /\ \A c \in Builds : c # b => out'[c] = out[c]
    BY <1>0, <1>4, <2>1 DEF StoreTypeOK
  <2>3. StoreTypeOK' BY <1>0, <1>4, <2>2 DEF StoreTypeOK, Key
  <2>4. /\ \A c \in Builds : out[c] \in Used(names) /\ tmp[c] \in Used(names) /\ scratch[c] \in Used(names)
        /\ \A c \in Builds : tmp[c] \in Used(names') /\ scratch[c] \in Used(names')
    BY <1>0, <1>4, <2>2, <2>3, UsedHas DEF StoreTypeOK, names
  <2>5. \A c \in Builds : Unguarded(c)' = Unguarded(c) BY <1>0, <1>4 DEF Unguarded, Is, Key
  <2>6. ASSUME NEW i \in Inodes, NEW k \in Keys, i \in Used(names), i \in Used(names'), Passes(i, k) PROVE Passes(i, k)'
    <3>1. file'[i] = file[i] BY <1>4, <2>6
    <3> QED BY <2>5, <2>6, <3>1 DEF Passes, Guarded
  <2>7. ASSUME NEW c \in Builds, Is(c, "put") PROVE file'[scratch[c]].data = file[scratch[c]].data
    <3>1. scratch[c] \in Inodes BY <1>0, <2>7 DEF StoreInv, ScratchGood, StoreTypeOK, Name
    <3> QED BY <1>4, <2>4, <3>1
  <2>8. ASSUME Is(b, "rename")' PROVE (tmp[b] # None /\ Passes(tmp[b], Key(b)))'
    <3>1. Is(b, "rename") BY <1>0, <2>8 DEF Is
    <3>2. tmp[b] # None /\ Passes(tmp[b], Key(b)) BY <3>1 DEF StoreInv, LinksGood
    <3>3. PICK i \in Inodes : i = tmp[b] BY <1>0, <3>2 DEF StoreTypeOK, Name
    <3>4. PICK k \in Keys : k = Key(b) BY <1>0, <3>1 DEF StoreTypeOK, Is
    <3>5. Passes(i, k)' BY <2>4, <2>6, <3>2, <3>3, <3>4
    <3> QED BY <1>0, <1>4, <3>2, <3>3, <3>4, <3>5 DEF Passes, Guarded, Key
  <2>9. ASSUME Is(b, "put")' PROVE (scratch[b] # None /\ file[scratch[b]].data = Key(b) /\ Private(b))'
    <3>1. Is(b, "put") BY <1>0, <2>9 DEF Is
    <3>2. scratch[b] # None /\ file[scratch[b]].data = Key(b) /\ Private(b) BY <3>1 DEF StoreInv, ScratchGood
    <3>3. n # scratch[b] BY <1>0, <2>4, <3>2, NewIsFree
    <3>4. Private(b)' BY <1>4, <2>2, <3>2, <3>3 DEF Private
    <3> QED BY <1>0, <1>4, <2>7, <3>1, <3>2, <3>4 DEF Key
  <2>10. /\ tmp'[b] \in Known(b) /\ scratch'[b] \in Known(b) /\ \A k \in Keys : blob'[k] \in Known(b)
    BY <1>0, <1>4, KnownHas
  <2> QED BY <1>0, <1>2, <1>4, <2>1, <2>2, <2>3, <2>6, <2>7, <2>8, <2>9, <2>10, StoreSteps
<1>5. CASE out' = [out EXCEPT ![b] = New] /\ UNCHANGED <<blob, tmp, scratch>> /\ Files(Written("edited"))
  <2>1. "edited" \in Data BY DEF Data
  <2>2. file' \in [Inodes -> File] /\ \A i \in Inodes : i \in Used(names') /\ i # New => file'[i] = file[i]
    BY <1>0, <1>5, <2>1, FilesWritten
  <2>3. New \notin Used(names) BY <1>0, NewIsFree
  <2> QED BY <1>4, <1>5, <2>2, <2>3
<1>6. CASE out' = [out EXCEPT ![b] = None] /\ UNCHANGED <<blob, tmp, scratch>> /\ Files(file)
  <2>1. file' \in [Inodes -> File] /\ \A i \in Inodes : i \in Used(names') => file'[i] = file[i] BY <1>0, <1>6, FilesKept
  <2> QED BY <1>4, <1>6, <2>1
<1> QED BY <1>3, <1>5, <1>6 DEF UserEdits

LEMMA StoreStep == StoreInv /\ [StoreNext]_storeVars => StoreInv'
<1> SUFFICES ASSUME StoreInv, [StoreNext]_storeVars PROVE StoreInv' OBVIOUS
<1>1. CASE UNCHANGED storeVars
  <2>1. \A c \in Builds : Unguarded(c)' = Unguarded(c) BY <1>1 DEF storeVars, names, Unguarded, Is, Key
  <2> QED BY <1>1, <2>1 DEF storeVars, names, StoreInv, StoreTypeOK, BlobsGood, LinksGood, ScratchGood, ServedTrue,
                            Passes, Guarded, Private, Is, Key
<1> QED BY <1>1, CacheLooked, Killed, Edited, FileSettled, Materialized, Executed, FilePut, ActionRecorded DEF StoreNext

(* A blob has the content its digest names and a build is served that       *)
(* content, whatever users do to outputs that are hard links to it and      *)
(* wherever builds are killed, unless someone wrote, or a build was killed, *)
(* between the link and the change of mode (spn_dag_store_put_file).        *)
THEOREM StoreIsTrue == Spec => []StoreTrue
<1>1. Init => StoreInv BY StoreStarts DEF Init
<1>2. StoreInv /\ [Next]_<<part, gitVars, storageVars, storeVars, indexVars, stagingVars>> => StoreInv'
  BY StoreStep DEF Next, OfGit, OfStorage, OfStore, OfIndex, OfStaging
<1>3. StoreInv => StoreTrue BY DEF StoreInv, StoreTrue, BlobsGood, BlobsTrue, Passes
<1> QED BY <1>1, <1>2, <1>3, PTL DEF Spec
=============================================================================
