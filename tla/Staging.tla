------------------------------ MODULE Staging ------------------------------
(***************************************************************************)
(* The end of a build (core/graph/dag.c, spn_dag_build_session): the       *)
(* project's lock file is written if there is none, and executables with   *)
(* their shared libraries are copied to the build directory (dag_stage),   *)
(* with a manifest of what was staged for which executable.  Builds of one *)
(* profile come one after the other, each for some of the executables;     *)
(* each may be killed at any step, and spn clean may come in between.      *)
(***************************************************************************)
EXTENDS Naturals, FiniteSets

CONSTANTS
  Exes, Libs,
  MaxBuilds,  \* bound: builds
  MaxDigest   \* bound: contents of an artifact

ASSUME DigestAssumption == MaxDigest \in Nat

VARIABLES
  lockfile,  \* does spn.lock exist
  staged,    \* entry -> its content: 0 (absent), a digest, or "edited"
  listed,    \* the manifest .spn/staged: {<<exe, entry>>}
  stray,     \* a history: entries whose record was lost (see dag_stage and spn_op_clean)
  session    \* [pc, plan, digest, previous, drop, missed, todo, result, builds]

stagingVars == <<lockfile, staged, listed, stray, session>>

Entries == Exes \cup Libs
Absent == 0
Rest == [pc |-> "idle", plan |-> <<>>, digest |-> [e \in Entries |-> 1],
         previous |-> {}, drop |-> {}, missed |-> {}, todo |-> {}, result |-> "none", builds |-> 0]

StagingInit ==
  /\ lockfile = FALSE /\ staged = [e \in Entries |-> Absent]
  /\ listed = {} /\ stray = {} /\ session = Rest

In(pc) == session.pc = pc
Closure(plan) == DOMAIN plan \cup UNION {plan[x] : x \in DOMAIN plan}

(* spn_dag_build_session: the graph runs; only when it succeeded is        *)
(* anything staged.  The plan is a function from executables to libraries. *)
spn_dag_build_session ==
  /\ In("idle") /\ session.builds < MaxBuilds
  /\ \E exes \in (SUBSET Exes) \ {{}} : \E plan \in [exes -> SUBSET Libs] :
       \E digest \in [Closure(plan) -> 1..MaxDigest], result \in {"ok", "failed", "cancelled"} :
         session' = [pc |-> IF result = "ok" THEN "lock" ELSE "idle", plan |-> plan,
                     digest |-> [e \in Entries |-> IF e \in DOMAIN digest THEN digest[e] ELSE 1],
                     previous |-> {}, drop |-> {}, missed |-> {}, todo |-> {},
                     result |-> IF result = "ok" THEN "none" ELSE result, builds |-> session.builds + 1]
  /\ UNCHANGED <<lockfile, staged, listed, stray>>

(* spn_project_update_lock, if the project had no lock file.               *)
spn_project_update_lock ==
  /\ In("lock") /\ UNCHANGED <<staged, listed, stray>>
  /\ \/ lockfile /\ UNCHANGED lockfile /\ session' = [session EXCEPT !.pc = "read"]
     \/ ~lockfile /\ lockfile' = TRUE /\ session' = [session EXCEPT !.pc = "read"]
     \/ ~lockfile /\ UNCHANGED lockfile /\ session' = [session EXCEPT !.pc = "idle", !.result = "failed"]

(* dag_stage: the records of the executables of this plan are replaced,    *)
(* those of others kept; an entry no record names any more is removed, the *)
(* new manifest written, and then the closures copied.  Of the manifest's  *)
(* read, the removals and the write no result is looked at: a manifest that*)
(* cannot be read counts as empty, and an entry that could not be removed  *)
(* (missed) is left out of the new one all the same.                       *)
(* As Kept, for a stage that forgets the others: for a mutant.             *)
Forgotten(previous) == {}
Kept(previous) == {r \in previous : r[1] \notin DOMAIN session.plan}
NextListed(previous) == Kept(previous) \cup {<<x, x>> : x \in DOMAIN session.plan}
  \cup {r \in (DOMAIN session.plan) \X Libs : r[2] \in session.plan[r[1]]}
Names(records) == {r[2] : r \in records}
Live(previous) == Names(NextListed(previous))
Unrecorded == session.missed \cup (Names(listed) \ Names(session.previous))
dag_stage ==
  \/ /\ In("read") /\ UNCHANGED <<lockfile, staged, listed, stray>>
     /\ \E previous \in {listed, {}} :
          session' = [session EXCEPT !.pc = "drop", !.previous = previous, !.drop = Names(previous) \ Live(previous)]
  \/ /\ In("drop") /\ session.drop # {} /\ UNCHANGED <<lockfile, listed>>
     /\ \E e \in session.drop :
          \/ /\ session' = [session EXCEPT !.drop = @ \ {e}]
             /\ staged' = [staged EXCEPT ![e] = Absent] /\ stray' = stray \ {e}
          \/ /\ staged[e] # Absent /\ UNCHANGED <<staged, stray>>
             /\ session' = [session EXCEPT !.drop = @ \ {e}, !.missed = @ \cup {e}]
  \/ /\ In("drop") /\ session.drop = {} /\ UNCHANGED <<lockfile, staged>>
     /\ session' = [session EXCEPT !.pc = "copy", !.previous = {}, !.missed = {}, !.todo = Closure(session.plan)]
     /\ LET live == Live(session.previous)
        IN  \/ listed' = NextListed(session.previous) /\ stray' = (stray \cup Unrecorded) \ live
            \/ UNCHANGED listed /\ stray' = stray \cup (live \ Names(listed))

(* dag_stage_copy: an entry that has the artifact's digest, and is not a   *)
(* link, is left alone; else it is replaced by a copy.                     *)
dag_stage_copy ==
  /\ In("copy") /\ UNCHANGED <<lockfile, listed, stray>>
  /\ \/ \E e \in session.todo :
          /\ staged' = [staged EXCEPT ![e] = session.digest[e]]
          /\ session' = [session EXCEPT !.todo = @ \ {e}]
     \/ \E e \in session.todo : staged[e] # session.digest[e] /\ UNCHANGED staged
                                /\ session' = [session EXCEPT !.pc = "idle", !.result = "failed"]
     \/ session.todo = {} /\ UNCHANGED staged /\ session' = [session EXCEPT !.pc = "idle", !.result = "ok"]

(* spn_op_clean and spn_op_clean_profile: the tree goes, in no certain     *)
(* order, or part of it when that fails or is cut short.                   *)
spn_op_clean ==
  /\ In("idle") /\ UNCHANGED lockfile
  /\ \E left \in SUBSET {e \in Entries : staged[e] # Absent}, manifest \in BOOLEAN :
       /\ staged' = [e \in Entries |-> IF e \in left THEN staged[e] ELSE Absent]
       /\ listed' = IF manifest THEN listed ELSE {}
       /\ stray' = IF manifest THEN stray \cap left ELSE left
  /\ session' = [session EXCEPT !.result = "none"]

CutShort == ~In("idle") /\ session' = [session EXCEPT !.pc = "idle", !.result = "none"] /\ UNCHANGED <<lockfile, staged, listed, stray>>
UserTouches ==
  /\ In("idle") /\ \E e \in Entries : staged[e] # Absent /\ \E c \in {Absent, MaxDigest + 1} : staged' = [staged EXCEPT ![e] = c]
  /\ session' = [session EXCEPT !.result = "none"] /\ UNCHANGED <<lockfile, listed, stray>>

StagingNext ==
  \/ spn_dag_build_session \/ spn_project_update_lock \/ dag_stage \/ dag_stage_copy
  \/ spn_op_clean \/ CutShort \/ UserTouches

-----------------------------------------------------------------------------
(* Whatever is staged is listed, so that a later build removes it once no  *)
(* executable needs it, unless its record was lost: the manifest could not *)
(* be read or written, the entry not be removed, or spn clean was cut      *)
(* short; what one build drops is needed by no executable that another     *)
(* build staged; and after a build that succeeded everything it planned is *)
(* there, as it was built, with a lock file.                               *)
StagedListed ==
  /\ \A e \in Entries : staged[e] # Absent => e \in stray \/ \E x \in Exes : <<x, e>> \in listed
  /\ In("drop") => \A e \in session.drop : ~\E x \in Exes \ DOMAIN session.plan : <<x, e>> \in listed
  /\ In("idle") /\ session.result = "ok" =>
       lockfile /\ \A e \in Closure(session.plan) : staged[e] = session.digest[e]
=============================================================================
