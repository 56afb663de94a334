----------------------------- MODULE Provision -----------------------------
(***************************************************************************)
(* What a process puts under the storage directory before it builds: the   *)
(* runtime headers embedded in spn (core/ctx/init.c) and downloaded        *)
(* toolchains (core/toolchain/provision.c).  Both are filled in a staging  *)
(* directory and renamed into place under a lock file, which the system    *)
(* releases when its holder is killed.  All processes are of one version   *)
(* of spn; the runtime an earlier version left may be there at the start.  *)
(***************************************************************************)
EXTENDS Naturals, TLC

CONSTANTS
  Users,   \* processes
  Mirror   \* those that have SPN_MIRROR set

ASSUME UsersAssumption == "free" \notin Users

VARIABLES
  runtime,   \* the runtime directory: [stamp, whole], or Gone
  artifact,  \* the toolchain's directory: "none", "whole" or anything worse
  lock,      \* lock file -> its holder, or "free"
  user       \* [pc, file, dir]: the download and the staging directory of a process

storageVars == <<runtime, artifact, lock, user>>

Gone == [stamp |-> "none", whole |-> FALSE]
Current == [stamp |-> "new", whole |-> TRUE]
Fresh == [pc |-> "closed", file |-> "none", dir |-> "none"]

StorageInit ==
  /\ runtime \in {Gone, [stamp |-> "old", whole |-> TRUE]}
  /\ artifact = "none"
  /\ lock = [f \in {"runtime", "artifact"} |-> "free"]
  /\ user = [u \in Users |-> Fresh]

Pc(u, pc) == user[u].pc = pc
Go(u, pc) == user' = [user EXCEPT ![u].pc = pc]
Acquire(u, f) == lock[f] = "free" /\ lock' = [lock EXCEPT ![f] = u]
Release(u, f) == lock' = [lock EXCEPT ![f] = IF @ = u THEN "free" ELSE @]

(* open_ctx up to the runtime: the roots are created or opening fails.     *)
open_roots(u) ==
  /\ Pc(u, "closed") /\ (Go(u, "stamp") \/ Go(u, "failed"))
  /\ UNCHANGED <<runtime, artifact, lock>>

(* extract_runtime: the stamp is read without the lock and, when it is not *)
(* this version's, once more under it.                                     *)
read_stamp == runtime.stamp
Reread(u) == read_stamp # Current.stamp
extract_runtime(u) ==
  /\ \/ Pc(u, "stamp") /\ Go(u, IF read_stamp = Current.stamp THEN "open" ELSE "lock") /\ UNCHANGED lock
     \/ Pc(u, "lock") /\ Acquire(u, "runtime") /\ Go(u, "locked")
     \/ Pc(u, "lock") /\ Go(u, "failed") /\ UNCHANGED lock
     \/ /\ Pc(u, "locked")
        /\ IF Reread(u) THEN Go(u, "extract") /\ UNCHANGED lock
                        ELSE Go(u, "open") /\ Release(u, "runtime")
  /\ UNCHANGED <<runtime, artifact>>

(* extract: the headers and, last, the stamp go to a staging directory;    *)
(* the old directory is removed, file by file in no certain order, and the *)
(* new one renamed.  A failure removes the staging directory.              *)
extract(u) ==
  /\ \/ Pc(u, "extract") /\ Go(u, "remove") /\ UNCHANGED <<runtime, lock>>
     \/ Pc(u, "extract") /\ Go(u, "failed") /\ Release(u, "runtime") /\ UNCHANGED runtime
     \/ /\ Pc(u, "remove") /\ Go(u, "removing") /\ UNCHANGED lock
        /\ runtime' \in {Gone, [runtime EXCEPT !.whole = FALSE], [runtime EXCEPT !.stamp = "none"]}
     \/ Pc(u, "removing") /\ Go(u, "swap") /\ runtime' = Gone /\ UNCHANGED lock
     \/ Pc(u, "swap") /\ runtime' = Current /\ Go(u, "open") /\ Release(u, "runtime")
     \/ Pc(u, "swap") /\ Go(u, "failed") /\ Release(u, "runtime") /\ UNCHANGED runtime
  /\ UNCHANGED artifact

(* spn_toolchain_provision: a process that cannot take the lock fills the  *)
(* directory all the same.                                                 *)
spn_toolchain_provision(u) ==
  /\ \/ Pc(u, "open") /\ Go(u, "wait") /\ UNCHANGED lock
     \/ Pc(u, "wait") /\ Acquire(u, "artifact") /\ Go(u, IF artifact = "none" THEN "fetch" ELSE "unlock")
     \/ Pc(u, "wait") /\ Go(u, "fetch") /\ UNCHANGED lock
     \/ Pc(u, "unlock") /\ Go(u, "ready") /\ Release(u, "artifact")
  /\ UNCHANGED <<runtime, artifact>>

(* fetch: the mirror first, if there is one, then the origin.  Either may  *)
(* fail, break off, or serve something else.                               *)
Served == {"right", "wrong"}
fetch(u) ==
  /\ \/ /\ Pc(u, "fetch") /\ u \in Mirror
        /\ \/ \E c \in Served : user' = [user EXCEPT ![u].file = c, ![u].pc = "digest"]
           \/ Go(u, "origin")
     \/ Pc(u, "fetch") /\ u \notin Mirror /\ Go(u, "origin")
     \/ Pc(u, "origin") /\ \/ \E c \in Served : user' = [user EXCEPT ![u].file = c, ![u].pc = "digest"]
                           \/ Go(u, "refused")
  /\ UNCHANGED <<runtime, artifact, lock>>

(* fill: the digest is checked, the archive unpacked in a staging          *)
(* directory that tar may leave incomplete, and renamed; losing the rename *)
(* to another process is no error.                                         *)
Digest(u) == user[u].file = "right"
Extracted(u) == user[u].dir = "whole"
fill(u) ==
  /\ \/ Pc(u, "digest") /\ Go(u, IF Digest(u) THEN "unpack" ELSE "refused") /\ UNCHANGED artifact
     \/ Pc(u, "unpack") /\ \/ \E d \in {"empty", "part", "whole"} : user' = [user EXCEPT ![u].dir = d, ![u].pc = "place"]
                           \/ Go(u, "refused")
        /\ UNCHANGED artifact
     \/ Pc(u, "place") /\ ~Extracted(u) /\ Go(u, "refused") /\ UNCHANGED artifact
     \/ Pc(u, "place") /\ Extracted(u) /\ artifact = "none" /\ artifact' = user[u].dir /\ Go(u, "unlock")
     \/ Pc(u, "place") /\ Extracted(u) /\ artifact # "none" /\ Go(u, "unlock") /\ UNCHANGED artifact
  /\ UNCHANGED <<runtime, lock>>
refused(u) == Pc(u, "refused") /\ Go(u, "failed") /\ Release(u, "artifact") /\ UNCHANGED <<runtime, artifact>>

(* The process ends, or is killed wherever it is.                          *)
Leave(u) ==
  /\ user' = [user EXCEPT ![u] = Fresh]
  /\ lock' = [f \in DOMAIN lock |-> IF lock[f] = u THEN "free" ELSE lock[f]]
  /\ UNCHANGED <<runtime, artifact>>

StorageNext ==
  \E u \in Users :
    \/ open_roots(u) \/ extract_runtime(u) \/ extract(u) \/ spn_toolchain_provision(u)
    \/ fetch(u) \/ fill(u) \/ refused(u) \/ Leave(u)

-----------------------------------------------------------------------------
Opened == {"open", "wait", "fetch", "origin", "digest", "unpack", "place", "refused", "unlock", "ready"}
(* A process that got past extract_runtime keeps a whole runtime of its    *)
(* version under it, whoever opens next to it or was killed before; a      *)
(* toolchain's directory is whole from the moment it is there, and is      *)
(* there for everyone who was told OK.                                     *)
StorageWhole ==
  /\ \A u \in Users : user[u].pc \in Opened => runtime = Current
  /\ artifact \in {"none", "whole"}
  /\ \A u \in Users : user[u].pc = "ready" => artifact = "whole"
=============================================================================
