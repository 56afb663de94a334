------------------------------ MODULE GitCache ------------------------------
(***************************************************************************)
(* The git cache (core/git/cache.c): one bare database per repository and  *)
(* one checkout per (rev, directory, patches), on a disk that several      *)
(* processes share.  Threads of one process share its entries and their    *)
(* mutexes; nothing but the file system relates two processes.  Any git    *)
(* command may fail and any process may be killed between two steps.       *)
(* Repositories never meet, so one is modelled.                            *)
(***************************************************************************)
EXTENDS Naturals, FiniteSets, TLC

CONSTANTS
  Threads,  \* <<process, number>>
  Ids,      \* checkout ids: [rev, dir, patches], patches being a number of files
  HeadRev,  \* the revision a fresh clone checks out
  Later,    \* revisions the remote gains after it was first cloned
  Dirs      \* <<rev, dir>>: the subdirectories of the revisions

ASSUME IdsAssumption == Ids # {}

VARIABLES
  remote,   \* the revisions the remote has
  db,       \* the bare clone: [dir, revs]
  tree,     \* what is at the path of each checkout: [rev, patched]
  dbs,      \* each process's entry of the database: [ready, err, held]
  entries,  \* each process's entries of the checkouts: [ready, err, held]
  thread    \* [pc, id, work, result]

gitVars == <<remote, db, tree, dbs, entries, thread>>

Processes == {t[1] : t \in Threads}
Revs == {HeadRev} \cup Later
NoTree == [rev |-> "none", patched |-> 0]
Unready == [ready |-> FALSE, err |-> FALSE, held |-> FALSE]
Idle == [pc |-> "idle", id |-> CHOOSE i \in Ids : TRUE, work |-> NoTree, result |-> "none"]

GitInit ==
  /\ remote = {HeadRev}
  /\ db = [dir |-> FALSE, revs |-> {}]
  /\ tree = [i \in Ids |-> NoTree]
  /\ dbs = [p \in Processes |-> Unready]
  /\ entries = [p \in Processes |-> [i \in Ids |-> Unready]]
  /\ thread = [t \in Threads |-> Idle]

At(t, pc) == thread[t].pc = pc
To(t, pc) == thread' = [thread EXCEPT ![t].pc = pc]

(* The remote gains a revision.                                            *)
RemoteMoves == \E r \in Later \ remote : remote' = remote \cup {r} /\ UNCHANGED <<db, tree, dbs, entries, thread>>

(* Returning from materialize_checkout: the entry keeps the error, its     *)
(* mutex is released.                                                      *)
Return(t, err) ==
  /\ entries' = [entries EXCEPT ![t[1]][thread[t].id] = [ready |-> TRUE, err |-> err, held |-> FALSE]]
  /\ thread' = [thread EXCEPT ![t] = [@ EXCEPT !.pc = "idle", !.work = NoTree, !.result = IF err THEN "error" ELSE "ok"]]

(* spn_git_cache_ensure_checkout: the entry under the cache's mutex, then  *)
(* the entry's own mutex; only its first holder materializes.              *)
spn_git_cache_ensure_checkout(t) ==
  \/ /\ At(t, "idle") /\ \E i \in Ids : thread' = [thread EXCEPT ![t] = [Idle EXCEPT !.pc = "entry", !.id = i]]
     /\ UNCHANGED <<remote, db, tree, dbs, entries>>
  \/ LET e == entries[t[1]][thread[t].id] IN
     /\ At(t, "entry") /\ ~e.held
     /\ \/ e.ready /\ Return(t, e.err)
        \/ /\ ~e.ready
           /\ entries' = [entries EXCEPT ![t[1]][thread[t].id] = [ready |-> TRUE, err |-> FALSE, held |-> TRUE]]
           /\ To(t, "db")
     /\ UNCHANGED <<remote, db, tree, dbs>>

(* spn_git_cache_ensure_db: once per process; a directory that is there is *)
(* taken for a finished clone.                                             *)
spn_git_cache_ensure_db(t) ==
  LET e == dbs[t[1]] IN
  /\ At(t, "db") /\ ~e.held
  /\ \/ e.ready /\ ~e.err /\ To(t, "rev") /\ UNCHANGED <<dbs, entries>>
     \/ e.ready /\ e.err /\ Return(t, TRUE) /\ UNCHANGED dbs
     \/ /\ ~e.ready /\ UNCHANGED entries
        /\ dbs' = [dbs EXCEPT ![t[1]] = [ready |-> TRUE, err |-> FALSE, held |-> ~db.dir]]
        /\ To(t, IF db.dir THEN "rev" ELSE "clone")
  /\ UNCHANGED <<remote, db, tree>>

(* git clone --bare: it makes the directory, fills it, and takes it away   *)
(* again when it fails; it refuses a directory that is already there.      *)
CloneRefused(t) == db.dir
CloneBare(t) ==
  /\ \/ At(t, "clone") /\ ~CloneRefused(t) /\ db' = [dir |-> TRUE, revs |-> {}]
        /\ To(t, "cloning") /\ UNCHANGED <<dbs, entries>>
     \/ At(t, "cloning") /\ db' = [dir |-> TRUE, revs |-> db.revs \cup remote]
        /\ dbs' = [dbs EXCEPT ![t[1]].held = FALSE] /\ To(t, "rev") /\ UNCHANGED entries
     \/ /\ At(t, "cloning") \/ (At(t, "clone") /\ CloneRefused(t))
        /\ db' = IF At(t, "cloning") THEN [dir |-> FALSE, revs |-> {}] ELSE db
        /\ dbs' = [dbs EXCEPT ![t[1]] = [ready |-> TRUE, err |-> TRUE, held |-> FALSE]]
        /\ Return(t, TRUE)
  /\ UNCHANGED <<remote, tree>>

(* spn_git_db_ensure_rev: look, fetch the revision, else all heads and     *)
(* tags, look again; under the database's mutex.                           *)
spn_git_db_ensure_rev(t) ==
  LET has == thread[t].id.rev \in db.revs IN
  /\ \/ At(t, "rev") /\ ~dbs[t[1]].held
        /\ \/ has /\ To(t, "dest") /\ UNCHANGED dbs
           \/ ~has /\ To(t, "fetch") /\ dbs' = [dbs EXCEPT ![t[1]].held = TRUE]
        /\ UNCHANGED <<db, entries>>
     \/ At(t, "fetch")
        /\ \/ db' = [db EXCEPT !.revs = @ \cup (IF db.dir THEN {thread[t].id.rev} \cap remote ELSE {})]
           \/ db' = [db EXCEPT !.revs = @ \cup (IF db.dir THEN remote ELSE {})]
           \/ UNCHANGED db
        /\ dbs' = [dbs EXCEPT ![t[1]].held = FALSE]
        /\ IF thread[t].id.rev \in db'.revs THEN To(t, "dest") /\ UNCHANGED entries ELSE Return(t, TRUE)
  /\ UNCHANGED <<remote, tree>>

(* The staging directory, claimed under a name no one else has             *)
(* (spn_path_stage_dir), is filled: cloned, checked out, patched.          *)
Work(t) == thread[t].work
WithWork(t, pc, w) == thread' = [thread EXCEPT ![t].pc = pc, ![t].work = w] /\ UNCHANGED tree
(* As WithWork, on the checkout's own path: for a mutant.                  *)
InPlace(t, pc, w) ==
  /\ thread' = [thread EXCEPT ![t].pc = pc, ![t].work = w]
  /\ tree' = [tree EXCEPT ![thread[t].id] = w]
Stage(t, pc, w) == WithWork(t, pc, w)
spn_git_cache_fill_checkout(t) ==
  /\ \/ At(t, "stage") /\ db.dir /\ Stage(t, "checkout", [rev |-> HeadRev, patched |-> 0])
     \/ At(t, "checkout") /\ thread[t].id.rev \in db.revs
        /\ Stage(t, "patch", [Work(t) EXCEPT !.rev = thread[t].id.rev])
     \/ At(t, "patch") /\ Work(t).patched < thread[t].id.patches
        /\ Stage(t, "patch", [Work(t) EXCEPT !.patched = @ + 1])
     \/ At(t, "patch") /\ Work(t).patched = thread[t].id.patches /\ To(t, "place") /\ UNCHANGED tree
  /\ UNCHANGED <<remote, db, dbs, entries>>

(* spn_git_cache_materialize_checkout, from the test of the destination.   *)
(* A command that fails takes the staging directory with it; a rename      *)
(* loses against another process that was first, which is no error.        *)
spn_git_cache_materialize_checkout(t) ==
  LET id == thread[t].id IN
  /\ \/ At(t, "dest") /\ To(t, IF tree[id] = NoTree THEN "stage" ELSE "sub") /\ UNCHANGED <<tree, entries>>
     \/ thread[t].pc \in {"stage", "checkout", "patch"} /\ Return(t, TRUE) /\ UNCHANGED tree
     \/ At(t, "place") /\ tree[id] = NoTree /\ tree' = [tree EXCEPT ![id] = Work(t)]
        /\ To(t, "sub") /\ UNCHANGED entries
     \/ At(t, "place") /\ tree[id] # NoTree /\ To(t, "sub") /\ UNCHANGED <<tree, entries>>
     \/ At(t, "sub") /\ Return(t, id.dir # "" /\ <<tree[id].rev, id.dir>> \notin Dirs) /\ UNCHANGED tree
  /\ UNCHANGED <<remote, db, dbs>>

(* A process is killed: its tables go, the disk stays as it is.            *)
GitKilled(p) ==
  /\ dbs' = [dbs EXCEPT ![p] = Unready]
  /\ entries' = [entries EXCEPT ![p] = [i \in Ids |-> Unready]]
  /\ thread' = [t \in Threads |-> IF t[1] = p THEN Idle ELSE thread[t]]
  /\ UNCHANGED <<remote, db, tree>>

GitNext ==
  \/ RemoteMoves
  \/ \E t \in Threads :
       \/ spn_git_cache_ensure_checkout(t) \/ spn_git_cache_ensure_db(t) \/ CloneBare(t)
       \/ spn_git_db_ensure_rev(t) \/ spn_git_cache_fill_checkout(t) \/ spn_git_cache_materialize_checkout(t)
  \/ \E p \in Processes : GitKilled(p)

-----------------------------------------------------------------------------
(* spn_git_cache_is_checkout_cached.                                       *)
spn_git_cache_is_checkout_cached(id) == tree[id] # NoTree
Whole(id) == tree[id] = [rev |-> id.rev, patched |-> id.patches]

(* Whatever is at a checkout's path is the whole revision with all of its  *)
(* patches, whoever was killed when ("so a crash never leaves a partial    *)
(* tree that later runs mistake for a finished checkout"), and a caller    *)
(* that was told OK has it, with the subdirectory it asked for.            *)
CheckoutsWhole ==
  /\ \A i \in Ids : spn_git_cache_is_checkout_cached(i) => Whole(i)
  /\ \A t \in Threads : thread[t].result = "ok" =>
       LET id == thread[t].id IN Whole(id) /\ (id.dir = "" \/ <<id.rev, id.dir>> \in Dirs)
=============================================================================
