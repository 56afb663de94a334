------------------------------- MODULE Model -------------------------------
(***************************************************************************)
(* The loop that establishes the model of a build (spn_model_establish):   *)
(* resolve, load the packages, settle every package's options, and drop    *)
(* or ask for the dependencies those options gate.                         *)
(*                                                                         *)
(* Options and dependencies define each other: what a consumer asks of a   *)
(* package travels along an edge, and whether an edge exists depends on    *)
(* the options of the package it starts from.  A pass settles the options  *)
(* under the edges there are and prunes the edges whose gate is closed;    *)
(* when nothing is pruned but an open gate has no edge, the requests seen  *)
(* so far seed another resolve, at most MaxResolves times.                 *)
(*                                                                         *)
(* The resolver appears here only with what it promises (Rooted); Gates    *)
(* puts the search of Resolver in its place.  An instance is               *)
(*   [id, name, source, pkg, edges]                                        *)
(* with edges a set of [id, name, kind, edge, private].                    *)
(***************************************************************************)
EXTENDS Options, Reachability

CONSTANTS Worlds,             \* the worlds to build in (see Resolver)
          Ties,               \* the option values a hash order may favour
          MaxResolves         \* SPN_GATE_MAX_RESOLVES

VARIABLES
  world,      \* the inputs
  seeds,      \* options asked of each name by an earlier round (session gates)
  tie,        \* which of two conflicting option values the hash order favours
  resolve,    \* session->resolve: the instances, their edges pruned
  options,    \* session->options: the settled options of each instance
  resolves,   \* session->gates.resolves
  stage       \* "resolve", "sync", "apply", "units", "failed"

settledVars == <<world, seeds, tie, resolve, options, resolves>>
modelVars == <<settledVars, stage>>

KindOrder == [package |-> 0, build |-> 1, test |-> 2]     \* spn_dep_kind_t

Descriptor(name, source, pkg) ==
  [name |-> name, root |-> source = "root", options |-> pkg.options]

(* A local override under the project's patches directory replaces the     *)
(* manifest (and with it the options) of an indexed package.               *)
Loaded(inst) ==
  IF inst.source = "index" /\ inst.name \in DOMAIN world.patched
  THEN world.patched[inst.name] ELSE inst.pkg

-----------------------------------------------------------------------------
(* What is reachable from the root package.                                *)

Links(insts) == UNION {{<<i.id, e.id>> : e \in i.edges} : i \in insts}
sweep_unreachable(insts) ==
  LET kept == Reach(Links(insts), {i.id : i \in {j \in insts : j.source = "root"}})
  IN  {i \in insts : i.id \in kept}

(* What the resolver answers: instances with an id each and finitely many  *)
(* edges to one another, one of them the root package, which reaches all.  *)
Rooted(insts) ==
  /\ \A i \in insts : DOMAIN i = {"id", "name", "source", "pkg", "edges"}
  /\ IsFiniteSet(Links(insts))
  /\ \A i, j \in insts : i.id = j.id => i = j
  /\ \A i \in insts : \A e \in i.edges : \E to \in insts : to.id = e.id
  /\ \E i \in insts : \A j \in insts : j.source = "root" <=> j = i
  /\ sweep_unreachable(insts) = insts

ModelInit ==
  /\ world \in Worlds /\ tie = None /\ seeds = << >>
  /\ resolve = {} /\ options = << >> /\ resolves = 0 /\ stage = "resolve"

(* The hash order of a round, and the answer of its search.                *)
Shuffled == stage = "resolve" /\ tie' \in Ties /\ UNCHANGED <<resolve, stage>>
Resolved(insts) == stage = "resolve" /\ resolve' = insts /\ stage' = "sync" /\ UNCHANGED tie
Unresolved == stage = "resolve" /\ stage' = "failed" /\ UNCHANGED <<resolve, tie>>
resolve_dependencies ==
  /\ Shuffled \/ Unresolved \/ \E insts : Rooted(insts) /\ Resolved(insts)
  /\ UNCHANGED <<world, seeds, options, resolves>>

(* sync_packages(): every package is fetched and loaded on the pool before *)
(* the options are looked at; one failure fails the operation.             *)
Sync ==
  /\ stage = "sync"
  /\ stage' = IF \E inst \in resolve : inst.name \in world.unfetchable THEN "failed" ELSE "apply"
  /\ UNCHANGED <<world, seeds, tie, resolve, options, resolves>>

-----------------------------------------------------------------------------
(* spn_session_apply_options, one round of its loop.                       *)

node_find_edge(inst, dep) == {e \in inst.edges : e.name = dep.name /\ e.kind = dep.kind}

Instance(id) == CHOOSE inst \in resolve : inst.id = id
DepsOf(inst) == {Loaded(inst).deps[i] : i \in DOMAIN Loaded(inst).deps}

(* What the consumers ask, along the edges that exist.                     *)
Requests == UNION {UNION {{[to |-> e.id, name |-> e.name, options |-> d.options] :
                             e \in node_find_edge(inst, d)} :
                           d \in {x \in DepsOf(inst) : x.options # {}}} : inst \in resolve}
RequestsOf(id) == {r.options : r \in {q \in Requests : q.to = id}}
Seeds == [n \in {r.name : r \in Requests} |-> {r.options : r \in {q \in Requests : q.name = n}}]

Merged(inst) ==
  spn_pkg_options_merge(Descriptor(inst.name, inst.source, Loaded(inst)), world.profile,
                        world.config, RequestsOf(inst.id), tie)

(* A dependency is expected under the options just settled.                *)
Expected(inst, dep) ==
  \E set \in {Merged(inst).options} :
    spn_when_eval(dep.when, [o \in {x \in DOMAIN set : set[x] # None} |-> set[o]] @@ spn_when_env_from_profile(world.profile))

Gated(inst) == {d \in DepsOf(inst) : d.when # {}}
Missing == \E inst \in resolve : \E d \in Gated(inst) :
             Expected(inst, d) /\ node_find_edge(inst, d) = {}
(* As Prune, taking only edges to configured packages: for a mutant.       *)
PruneUnconfigured(inst) ==
  [inst EXCEPT !.edges = @ \ {e \in UNION {node_find_edge(inst, d) :
     d \in {x \in Gated(inst) : ~Expected(inst, x)}} : e.name \in DOMAIN world.config}]
Prune(inst) ==
  [inst EXCEPT !.edges = @ \ UNION {node_find_edge(inst, d) :
                                      d \in {x \in Gated(inst) : ~Expected(inst, x)}}]

(* Every package the root manifest configures is in the build or is a      *)
(* dependency some package of the build could have.                        *)
validate_config_keys ==
  \A n \in DOMAIN world.config :
    \E inst \in resolve : inst.name = n \/ \E d \in DepsOf(inst) : d.name = n

spn_session_apply_options ==
  /\ stage = "apply"
  /\ LET bad == \E inst \in resolve : Merged(inst).violations # {}
     IN  \E pruned \in {{Prune(inst) : inst \in resolve}} :
           \/ bad /\ stage' = "failed" /\ UNCHANGED <<resolve, resolves>>
           \/ /\ ~bad /\ pruned # resolve
              /\ resolve' = sweep_unreachable(pruned)
              /\ UNCHANGED <<stage, resolves>>
           \/ /\ ~bad /\ pruned = resolve /\ Missing /\ resolves < MaxResolves
              /\ resolves' = resolves + 1 /\ stage' = "resolve"
              /\ UNCHANGED resolve
           \/ /\ ~bad /\ pruned = resolve /\ Missing /\ resolves = MaxResolves
              /\ stage' = "failed" /\ UNCHANGED <<resolve, resolves>>
           \/ /\ ~bad /\ pruned = resolve /\ ~Missing
              /\ stage' = IF validate_config_keys THEN "units" ELSE "failed"
              /\ UNCHANGED <<resolve, resolves>>
  /\ options' = [id \in {i.id : i \in resolve} |-> Merged(Instance(id)).options]
  /\ seeds' = Seeds
  /\ UNCHANGED <<world, tie>>

ModelNext == resolve_dependencies \/ Sync \/ spn_session_apply_options
ModelSpec == ModelInit /\ [][ModelNext]_modelVars

-----------------------------------------------------------------------------
(* Once the loop settles, dependencies and options agree: a gated          *)
(* dependency has an edge exactly when its gate is open under the options  *)
(* recorded for the package, those options answer the requests of exactly  *)
(* the edges that are left, and every package left is reachable.           *)
(* (the fixed point spn_session_apply_options iterates to.)                *)
GatesSettled ==
  stage = "units" =>
    /\ \A inst \in resolve :
         LET env == [o \in {x \in DOMAIN options[inst.id] : options[inst.id][x] # None}
                       |-> options[inst.id][o]] @@ spn_when_env_from_profile(world.profile)
         IN  /\ \A d \in Gated(inst) : spn_when_eval(d.when, env) <=> node_find_edge(inst, d) # {}
             /\ Merged(inst).violations = {} /\ options[inst.id] = Merged(inst).options
             /\ \A e \in inst.edges : \E to \in resolve : to.id = e.id
    /\ sweep_unreachable(resolve) = resolve
=============================================================================
