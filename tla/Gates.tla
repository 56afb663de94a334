------------------------------- MODULE Gates -------------------------------
(***************************************************************************)
(* The loop of Model around the search of Resolver (core/model): a round   *)
(* starts the solver with the seeds of the one before and takes its        *)
(* instances.                                                              *)
(***************************************************************************)
EXTENDS Resolver

solveVars == <<modelVars, resolverVars>>

InitGates ==
  /\ ModelInit
  /\ scopes = << >> /\ at = 1 /\ edges = {} /\ picks = 0 /\ forced = NoPin /\ result = {}
  /\ instances = {} /\ retries = << >> /\ err = Ok /\ phase = "idle"

(* resolve(): start the solver with the seeds of the last round.           *)
ResolveStart ==
  /\ phase = "idle" /\ Shuffled
  /\ FreshSolve(NoPin) /\ retries' = << >> /\ err' = Ok
  /\ UNCHANGED <<world, seeds, options, resolves>>

ResolveEnd ==
  /\ phase = "done" /\ phase' = "idle"
  /\ IF err # Ok THEN Unresolved ELSE Resolved(instances)
  /\ UNCHANGED <<world, seeds, options, resolves, scopes, at, edges, picks, forced, result,
                 instances, retries, err>>

Solve == (Turn \/ Finish \/ Retry) /\ UNCHANGED modelVars
NextGates == ResolveStart \/ Solve \/ ResolveEnd
             \/ ((Sync \/ spn_session_apply_options) /\ UNCHANGED resolverVars)

-----------------------------------------------------------------------------
(* What one scope promises.                                                *)
Meets(s, d) == d.name \in DOMAIN scopes[s].named /\
               (d.source = "index" => InRange(scopes[s].named[d.name].ver, d))
ScopeDeps(node) == {node.deps[i] : i \in {j \in DOMAIN node.deps :
                                            classify_dep(node, node.deps[j]) = "scope"}}
RECURSIVE InScope(_, _)
InScope(s, S) ==
  LET T == S \cup UNION {{d.name : d \in ScopeDeps(scopes[s].named[n])} : n \in S}
  IN  IF T = S THEN S ELSE InScope(s, T)
Openers(s) == {g \in Group : \E e \in GroupEdges(g) : e.scope = s /\ e.edge # "scope"}
ScopeSound(s) ==
  LET sc == scopes[s] IN
  /\ \A i \in DOMAIN sc.reqs : Meets(s, sc.reqs[i])
  /\ \A n \in DOMAIN sc.named : \A d \in ScopeDeps(sc.named[n]) : Meets(s, d)
  /\ DOMAIN sc.named = InScope(s, {sc.reqs[i].name : i \in DOMAIN sc.reqs})
  /\ \A n \in DOMAIN sc.named :
       Cardinality(collect_node_edges(s, sc.named[n])) =
       Cardinality({i \in DOMAIN sc.named[n].deps :
                      classify_dep(sc.named[n], sc.named[n].deps[i]) # "pruned"})
  /\ s > 1 => Openers(s) # {}

(* Every scope of a solved group is sound: its requests, and the in-scope  *)
(* dependencies of each package in it, are met by the version the scope    *)
(* holds; dependencies that leave it are met by the scope they lead to; it *)
(* holds nothing that its requests do not reach (a candidate that failed   *)
(* leaves no package and no boundary behind); no process loads two builds  *)
(* of one shared library; and the instances are what Model expects of the  *)
(* resolver: no edge leads nowhere and no instance is out of the root's    *)
(* reach.                                                                  *)
(* (solve_node's and attempt_reqs' undo, resolve_scope's witness.)         *)
Sound ==
  (phase = "done" /\ err = Ok) =>
    /\ \A s \in DOMAIN scopes : ScopeSound(s)
    /\ \A p \in DOMAIN scopes : \A g, h \in Group :
         (/\ p \in compute_processes[g[1]] \cap compute_processes[h[1]] /\ g[2] = h[2]
          /\ node_is_shared(scopes[g[1]].named[g[2]]) /\ node_is_shared(scopes[h[1]].named[h[2]]))
         => hash_group_node(g[1], g[2]) = hash_group_node(h[1], h[2])
    /\ Rooted(instances)

(* "Re-entered scopes ... only duplicate what [they] hold": solving the    *)
(* requests a scope receives after its first turn picks nothing new.       *)
ReentryAddsNothing ==
  [][\A s \in DOMAIN scopes :
       (scopes' # scopes /\ s \in DOMAIN scopes' /\ scopes[s].cursor > 0 /\ phase' = phase)
       => scopes'[s].named = scopes[s].named]_solveVars
=============================================================================
