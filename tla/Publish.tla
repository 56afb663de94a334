------------------------------ MODULE Publish ------------------------------
(***************************************************************************)
(* Publishing a release to a git index (core/index/index.c, publish.c,     *)
(* core/op/publish.c) and syncing replicas of it (core/op/index.c).  Every *)
(* machine has a replica of its own; the machines meet only at the         *)
(* upstream repository, whose history is the sequence of the lines of one  *)
(* package's file.  Any git command may fail, a push may be accepted and   *)
(* its answer lost, a file may fail to be read, written or removed (which  *)
(* the code does not look at), and a machine may stop at any time.         *)
(***************************************************************************)
EXTENDS Naturals, Sequences

CONSTANTS
  Machines,
  Versions,
  MaxPublish,  \* bound: publish requests
  MaxSlips     \* bound: failures of file operations whose results are not looked at

VARIABLES
  pinned,    \* the machines whose index names a revision
  upstream,  \* the lines upstream: [version, by, read]; read: the publisher could read the file it appended to
  tip,       \* the commits upstream has: none when the repository is new
  replica,   \* machine -> [at, log, base, change]
  job,       \* machine -> [pc, version, attempt, dirtied, result, wrote]; wrote: the line appended last is whole
  requests,  \* publish requests so far
  slips      \* failures of file operations so far

(* A replica's directory (at): none, half cloned, a repository, or one that*)
(* could not be removed; the lines in it; the commit of upstream's that it *)
(* stands on; and what git holds of the lines put on top of that: none, the*)
(* added file, or a commit.                                                *)
indexVars == <<pinned, upstream, tip, replica, job, requests, slips>>

SPN_INDEX_PUBLISH_ATTEMPTS == 3
Junk == [version |-> "junk", by |-> "someone", read |-> TRUE]
Missing == [at |-> "none", log |-> <<>>, base |-> 0, change |-> "none"]
Partial == [Missing EXCEPT !.at = "partial"]
Resting == [pc |-> "idle", version |-> "none", attempt |-> 0, dirtied |-> FALSE, result |-> "none", wrote |-> TRUE]
Synced == [at |-> "repo", log |-> upstream, base |-> tip, change |-> "none"]

IndexInit ==
  /\ pinned \in SUBSET Machines
  /\ upstream \in {<<>>, <<Junk>>} /\ tip \in {0, 1} /\ (tip = 0 => upstream = <<>>)
  /\ replica = [m \in Machines |-> Missing]
  /\ job = [m \in Machines |-> Resting]
  /\ requests = 0 /\ slips = 0

Job(m, pc) == job[m].pc = pc
Returns(m, result) == job' = [job EXCEPT ![m] = [Resting EXCEPT !.result = result]]
Fails(m) == job' = [job EXCEPT ![m].pc = "restore"]
Ends(m) == IF job[m].dirtied THEN Fails(m) ELSE Returns(m, "failed")
Slips(n) == slips + n <= MaxSlips /\ slips' = slips + n

(* spn_index_parse_pkg on the file spn_index_jsonl_get_package reads: every*)
(* line a release, no version twice.                                       *)
spn_index_parse_pkg(log) ==
  /\ \A i \in DOMAIN log : log[i].version # "junk"
  /\ \A i, j \in DOMAIN log : log[i].version = log[j].version => i = j

(* git_index_freshen: fetch and reset, or remove and clone.  It ends as    *)
(* upstream is; or the clone failed and it is gone, or could not be removed*)
(* (which is not looked at); or a command after the clone failed.  While   *)
(* upstream has no commit there is no branch to reset to, and "git clean"  *)
(* leaves a file that git was given and that no commit holds.              *)
Stays(m) == tip = 0 /\ replica[m].at \in {"repo", "held"} /\ replica[m].change = "added"
git_index_freshen(m, ok) ==
  \/ replica' = [replica EXCEPT ![m] = Synced] /\ Slips(0)
  \/ ok /\ Stays(m) /\ replica' = [replica EXCEPT ![m].at = "repo"] /\ Slips(0)
  \/ ~ok /\ replica' = [replica EXCEPT ![m] = Missing] /\ Slips(0)
  \/ ~ok /\ replica[m].at # "none" /\ replica' = [replica EXCEPT ![m].at = "held"] /\ Slips(1)

(* spn_publish_build: what is refused before the index is looked at.  A    *)
(* project: [loads, repo, origin, dirty, head, pushed, pathdep]; a request:*)
(* [url, rev, allow].                                                      *)
spn_publish_build(p, q) ==
  CASE ~p.loads -> "manifest"
    [] ~p.repo -> "not_git"
    [] ~q.url /\ ~p.origin -> "no_remote"
    [] ~q.rev /\ ~q.allow /\ p.dirty -> "dirty"
    [] ~q.rev /\ ~p.head -> "no_commit"
    [] ~q.rev /\ ~q.url /\ ~p.pushed -> "unpushed"
    [] p.pathdep -> "path_dep"
    [] OTHER -> "built"
Good == [loads |-> TRUE, repo |-> TRUE, origin |-> TRUE, dirty |-> FALSE, head |-> TRUE, pushed |-> TRUE, pathdep |-> FALSE]
Projects == {Good} \cup {[Good EXCEPT ![f] = ~@] : f \in DOMAIN Good}
Requests == [url : BOOLEAN, rev : BOOLEAN, allow : BOOLEAN]
Built == {spn_publish_build(p, q) : p \in Projects, q \in Requests}

(* spn_op_publish and spn_index_publish, up to the first attempt: a dry    *)
(* run ends here, an index with a revision refuses.                        *)
spn_op_publish(m) ==
  /\ Job(m, "idle") /\ requests < MaxPublish /\ requests' = requests + 1
  /\ \E v \in Versions, built \in Built, dry \in BOOLEAN :
       IF built # "built" \/ dry \/ m \in pinned THEN Returns(m, "refused")
       ELSE job' = [job EXCEPT ![m] = [Resting EXCEPT !.pc = "freshen", !.version = v]]
  /\ UNCHANGED <<upstream, tip, replica, slips>>

(* publish_git, one attempt: freshen; refuse a version that is there;      *)
(* append, add and commit; push.                                           *)
(* As index_release_exists, looking only once: for a mutant.               *)
CheckedOnce(m) == job[m].attempt = 0 /\ \E i \in DOMAIN replica[m].log : replica[m].log[i].version = job[m].version
index_release_exists(m) == \E i \in DOMAIN replica[m].log : replica[m].log[i].version = job[m].version

(* A file that is there and cannot be read counts as an empty one.         *)
Refuses(m, read) == read /\ (~spn_index_parse_pkg(replica[m].log) \/ index_release_exists(m))

(* The line is written whole, in part, or not at all.                      *)
Line(m, read) == Append(replica[m].log, [version |-> job[m].version, by |-> m, read |-> read])
Cut(m, read) == Append(replica[m].log, [version |-> "junk", by |-> m, read |-> read])
index_append_release(m, read) == {Line(m, read), Cut(m, read), replica[m].log}

(* Then git holds what it did, or the added file, or a commit, which it    *)
(* refuses to make when there is nothing new in it.                        *)
Changed(m, read, log, change) ==
  /\ ~Refuses(m, read)
  /\ CASE change = "none" -> replica[m].change = "none"
       [] change = "added" -> TRUE
       [] change = "committed" -> log # replica[m].log \/ log = <<>> \/ replica[m].change = "added"
  /\ replica' = [replica EXCEPT ![m].log = log, ![m].change = change]
  /\ Slips((IF read THEN 0 ELSE 1) + (IF log = Line(m, read) THEN 0 ELSE 1))

freshen_step(m) ==
  /\ Job(m, "freshen") /\ UNCHANGED <<upstream, tip, requests>>
  /\ \/ git_index_freshen(m, TRUE) /\ job' = [job EXCEPT ![m].pc = "change", ![m].dirtied = FALSE]
     \/ git_index_freshen(m, FALSE) /\ Ends(m)
change_step(m) ==
  /\ Job(m, "change") /\ UNCHANGED <<upstream, tip, requests>>
  /\ \/ ~spn_index_parse_pkg(replica[m].log) /\ Ends(m) /\ UNCHANGED <<replica, slips>>
     \/ spn_index_parse_pkg(replica[m].log) /\ index_release_exists(m) /\ Ends(m) /\ UNCHANGED <<replica, slips>>
     \/ \E read \in BOOLEAN : \E log \in index_append_release(m, read) :
          \/ /\ Changed(m, read, log, "committed")
             /\ job' = [job EXCEPT ![m].pc = "push", ![m].dirtied = TRUE, ![m].wrote = (log = Line(m, read))]
          \/ /\ \E change \in {"none", "added"} : Changed(m, read, log, change)
             /\ job' = [job EXCEPT ![m].pc = "restore", ![m].dirtied = TRUE]

(* git push: refused unless HEAD's parent is upstream's tip.               *)
FastForward(m) == replica[m].base = tip
Retry(m) ==
  IF job[m].attempt + 1 < SPN_INDEX_PUBLISH_ATTEMPTS
  THEN job' = [job EXCEPT ![m].pc = "freshen", ![m].attempt = @ + 1]
  ELSE Fails(m)
push_step(m) ==
  /\ Job(m, "push") /\ UNCHANGED <<replica, requests, slips>>
  /\ \/ /\ FastForward(m) /\ upstream' = replica[m].log /\ tip' = tip + 1
        /\ \/ job' = [job EXCEPT ![m] = [Resting EXCEPT !.result = "ok", !.version = job[m].version, !.wrote = job[m].wrote]]
           \/ Retry(m)
     \/ Retry(m) /\ UNCHANGED <<upstream, tip>>

(* The first commit upstream may be another package's.  Its later ones only*)
(* make pushes be refused, as they may be anyhow.                          *)
other_package == tip = 0 /\ tip' = 1 /\ UNCHANGED <<upstream, replica, job, requests, slips>>

(* spn_index_publish, on its way out: a replica that was changed is        *)
(* freshened once more, and the outcome of that is not looked at.          *)
restore(m) ==
  /\ Job(m, "restore") /\ UNCHANGED <<upstream, tip, requests>>
  /\ \E ok \in BOOLEAN : git_index_freshen(m, ok)
  /\ Returns(m, "failed")

(* spn_index_sync for a request of sync_indexes: a replica that is neither *)
(* old nor forced is left as it is; a failure is an error if it was forced *)
(* or there is no replica, and else only makes the replica stale.          *)
Tolerated(m, force) == ~force /\ replica'[m].at # "none"
spn_index_sync(m) ==
  /\ Job(m, "idle") /\ UNCHANGED <<upstream, tip, requests>>
  /\ \E force, old \in BOOLEAN :
       LET There == replica[m].at # "none"
           Old == old \/ replica[m].at = "partial"   \* no FETCH_HEAD yet: stale since 1970
           Refused == Returns(m, IF Tolerated(m, force) THEN "synced" ELSE "unsynced")
           Cloned == replica' = [replica EXCEPT ![m] = Synced]
       IN  \/ /\ ~There /\ Slips(0)
              /\ \/ Cloned /\ Returns(m, "synced")
                 \/ (UNCHANGED replica \/ Cloned) /\ Refused
                 \/ replica' = [replica EXCEPT ![m] = Partial] /\ Returns(m, "none")   \* the machine stops while it clones
           \/ There /\ m \notin pinned /\ ~force /\ ~Old /\ UNCHANGED <<replica, slips>> /\ Returns(m, "synced")
           \/ /\ There /\ m \notin pinned /\ (force \/ Old)
              /\ \/ git_index_freshen(m, TRUE) /\ Returns(m, "synced")
                 \/ git_index_freshen(m, FALSE) /\ Refused
           \/ There /\ m \in pinned /\ replica[m].at = "repo" /\ UNCHANGED <<replica, slips>> /\ Returns(m, "synced")
           \/ There /\ m \in pinned /\ UNCHANGED <<replica, slips>> /\ Refused

(* A machine stops: while it clones, the directory may be left half made;  *)
(* while it changes the replica, with any part of that done.               *)
Stops(m) ==
  /\ job[m].pc # "idle" /\ UNCHANGED <<upstream, tip, requests>>
  /\ \/ UNCHANGED <<replica, slips>>
     \/ /\ job[m].pc \in {"freshen", "restore"}
        /\ \/ replica' \in {[replica EXCEPT ![m] = r] : r \in {Missing, Partial}} /\ Slips(0)
           \/ \E ok \in BOOLEAN : git_index_freshen(m, ok)
     \/ /\ job[m].pc = "change"
        /\ \E read \in BOOLEAN : \E log \in index_append_release(m, read), change \in {"none", "added", "committed"} :
             Changed(m, read, log, change)
  /\ Returns(m, "none")

IndexNext ==
  /\ UNCHANGED pinned
  /\ \E m \in Machines :
    \/ spn_op_publish(m) \/ freshen_step(m) \/ change_step(m) \/ push_step(m) \/ restore(m)
    \/ spn_index_sync(m) \/ Stops(m) \/ other_package

-----------------------------------------------------------------------------
(* No version is ever upstream twice, which would make every reader reject *)
(* the package ("corrupt"), unless the file was there and could not be read*)
(* when the later one was appended; a publisher that was told OK has its   *)
(* release upstream, unless its line could not be written; and a           *)
(* publication that was begun and failed leaves no line in the replica that*)
(* is not upstream's ("Leave the replica clean when the transaction died   *)
(* after mutating it"), unless the replica could not be removed, or git was*)
(* given the file while upstream had no commit: then only own lines stay.  *)
LeftClean(m) ==
  /\ Len(replica[m].log) <= Len(upstream)
  /\ replica[m].log = SubSeq(upstream, 1, Len(replica[m].log))
LeftAdded(m) ==
  /\ replica[m].base = 0 /\ replica[m].change = "added"
  /\ \A i \in DOMAIN replica[m].log : replica[m].log[i].by = m
PublishedOnce ==
  /\ \A i, j \in DOMAIN upstream : upstream[i].version = upstream[j].version /\ i < j => ~upstream[j].read
  /\ \A m \in Machines :
       /\ job[m].result = "ok" /\ job[m].wrote =>
            \E i \in DOMAIN upstream : upstream[i].version = job[m].version /\ upstream[i].by = m
       /\ job[m].pc = "idle" /\ job[m].result = "failed" =>
            LeftClean(m) \/ LeftAdded(m) \/ replica[m].at = "held"
=============================================================================
