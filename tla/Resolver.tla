------------------------------ MODULE Resolver ------------------------------
(***************************************************************************)
(* The dependency resolver (core/resolve).                                 *)
(*                                                                         *)
(* The search works scope by scope.  A scope is a set of packages that     *)
(* must agree on one version per name: the root's packages form scope 1;   *)
(* every build or test dependency, and every private dependency of a       *)
(* shared library, opens a scope of its own, keyed by the edge that opened *)
(* it.  Turn solves the pending requests of one scope, greedily and with   *)
(* backtracking over the releases of a name, first under the versions      *)
(* other scopes picked ("pins").  Finish checks the group of all scopes    *)
(* and identifies its instances; a duplicate shared library is retried     *)
(* with one of the two versions forced everywhere.                         *)
(*                                                                         *)
(* world is what the resolver is given and does not change: the index, the *)
(* local packages, the root manifest, the profile and the budget.  Names   *)
(* and versions are naturals (names in alphabetical order); a range is     *)
(* lo..hi.  A dependency is                                                *)
(*   [name, kind, private, source, lo, hi, when, options]                  *)
(* and a package (release, local package or root manifest) is              *)
(*   [ver, yanked, libs, options, deps, ...]                               *)
(* with libs a sequence of library targets (see Units), of which the index *)
(* keeps the linkages each supports.                                       *)
(***************************************************************************)
EXTENDS Model, FiniteSetsExt, SequencesExt

RootName == 0
SourceOrder == [root |-> 0, file |-> 1, index |-> 2]      \* spn_pkg_source_t

VARIABLES
  scopes,     \* the scopes, in order of creation
  at,         \* where solve_once's walk over the scopes stands
  edges,      \* the edges between scopes
  picks,      \* how many packages were ever picked: the next priority
  forced,     \* the pin a retry forces everywhere, or NoPin
  result,     \* the committed picks (query->result before instances)
  instances,  \* the resolved instances (query->result at the end)
  retries,    \* the forced pins still to be tried
  err,        \* the first solve's error
  phase       \* "solve", "finish", "retry", "done"

resolverVars == <<scopes, at, edges, picks, forced, result, instances, retries, err, phase>>

Ok == "ok"
NoPin == [name |-> RootName, ver |-> 0]
NoNode == <<RootName, 0>>

-----------------------------------------------------------------------------
(* Conditions and classes of dependencies.                                 *)

InRange(v, dep) == v \in dep.lo .. dep.hi

node_options_env(name, source, pkg) ==
  spn_pkg_options_env(Descriptor(name, source, pkg), world.profile, world.config,
                      IF name \in DOMAIN seeds THEN seeds[name] ELSE {}, tie)

(* Some library of the node is built as a shared library.                  *)
target_selects_shared(kinds, name) ==
  spn_target_select_lib_kind(kinds, name, world.profile, world.config) = "shared"
node_is_shared(node) ==
  \E i \in DOMAIN node.pkg.libs : target_selects_shared(node.pkg.libs[i].kinds, node.name)

(* A build dependency, and a test dependency of the root, runs in another  *)
(* process; a private dependency of a shared library is hidden in it.      *)
classify_dep(node, dep) ==
  CASE dep.kind = "build" -> "process"
    [] dep.kind = "test" -> IF node.source = "root" THEN "process" ELSE "pruned"
    [] OTHER -> IF dep.private /\ node_is_shared(node) THEN "private" ELSE "scope"

(* The canonical order of requests: by name, kind, privacy, source and     *)
(* range, so that the search does not depend on the order of a manifest.   *)
ReqKey(r) == <<r.name, KindOrder[r.kind], IF r.private THEN 1 ELSE 0,
               SourceOrder[r.source], r.lo, r.hi>>
sort_req_canonical(a, b) ==
  LET ka == ReqKey(a)  kb == ReqKey(b)
  IN  \E i \in DOMAIN ka : ka[i] < kb[i] /\ \A j \in 1 .. i - 1 : ka[j] = kb[j]
Canonical(reqs) == SortSeq(reqs, sort_req_canonical)

(* A node of the search: a package with the dependencies whose gate holds. *)
Node(name, source, pkg, prio) ==
  LET env == node_options_env(name, source, pkg)
  IN  [name |-> name, ver |-> pkg.ver, source |-> source, prio |-> prio, pkg |-> pkg,
       deps |-> Canonical(SelectSeq(pkg.deps, LAMBDA d : spn_when_eval(d.when, env)))]

-----------------------------------------------------------------------------
(* The search in one scope.  Its state is                                  *)
(*   [named, bounds, visited, budget, picks, fatal, err]:                  *)
(* the nodes by name, the boundaries met so far, the names on the path,    *)
(* the candidates it may still try, and the error that unwinds it.         *)

(* The version held for a name: the forced pin, or the scope's pins (which *)
(* contradict each other when two of them differ).                         *)
Held(pins, name) ==
  IF forced # NoPin /\ forced.name = name THEN {forced.ver}
  ELSE {pins[i].ver : i \in {j \in DOMAIN pins : pins[j].name = name}}

RECURSIVE resolve_dep(_, _, _, _), resolve_deps(_, _, _, _)
RECURSIVE try_candidate(_, _, _, _), TryReleases(_, _, _, _, _)

(* As restore_named, but the boundaries stay: for a mutant.                *)
KeepBoundaries(out, st) == [out EXCEPT !.named = st.named]
(* Take back the names and the boundaries added since st.                  *)
restore_named(out, st) == [out EXCEPT !.named = st.named, !.bounds = st.bounds]

KeepIfOk(out, st) == IF out.err = Ok THEN out ELSE restore_named(out, st)

(* Insert the node, resolve its dependencies, and take everything back if  *)
(* one of them fails: the names it added and the boundaries it pushed.     *)
solve_node(st, pins, node) ==
  LET put == [st EXCEPT !.picks = @ + 1, !.named = (node.name :> node) @@ @,
                        !.visited = @ \cup {node.name}]
  IN  KeepIfOk([resolve_deps(put, pins, node, 1) EXCEPT !.visited = st.visited], st)

resolve_deps(st, pins, node, i) ==
  IF i > Len(node.deps) \/ st.err # Ok THEN st
  ELSE resolve_deps(resolve_dep(st, pins, node, node.deps[i]), pins, node, i + 1)

Fail(st, kind) == [st EXCEPT !.err = kind]

(* Load a path dependency: its manifest must exist, parse, and declare the *)
(* name it was asked for by.                                               *)
load_file_pkg(name) == IF name = RootName THEN Ok
                       ELSE IF name \notin DOMAIN world.files THEN "unknown"
                       ELSE world.files[name].load

(* A local package (the root or a path dependency): loaded once, at the    *)
(* version its manifest declares.                                          *)
resolve_local_package(st, pins, dep) ==
  LET name == dep.name
      pkg  == IF name = RootName THEN world.root ELSE world.files[name]
      held == Held(pins, name)
  IN  CASE name \in st.visited -> Fail(st, "cycle")
        [] name \notin st.visited /\ name \in DOMAIN st.named -> st
        [] name \notin st.visited \cup DOMAIN st.named ->
             IF load_file_pkg(name) # Ok THEN Fail(st, load_file_pkg(name))
             ELSE IF held \notin {{}, {pkg.ver}} THEN Fail(st, "conflict_exact")
             ELSE solve_node(st, pins,
                    Node(name, IF name = RootName THEN "root" ELSE "file", pkg, st.picks))

(* One release of an indexed package; the budget bounds the candidates of  *)
(* a turn, and running out of it stops the whole search.                   *)
try_candidate(st, pins, name, release) ==
  IF st.fatal \/ st.budget = 0 THEN [st EXCEPT !.fatal = TRUE, !.err = "too_complex"]
  ELSE solve_node([st EXCEPT !.budget = @ - 1], pins, Node(name, "index", release, st.picks))

(* The releases in turn, until one of them leads to a solution; the first  *)
(* failure is the one reported.                                            *)
TryReleases(st, pins, name, releases, first) ==
  LET Next(out) == IF out.err = Ok \/ out.fatal THEN out
                   ELSE TryReleases([out EXCEPT !.err = Ok], pins, name, Tail(releases),
                                    IF first = Ok THEN out.err ELSE first)
  IN  IF releases = << >> THEN Fail(st, IF first = Ok THEN "no_match" ELSE first)
      ELSE Next(try_candidate(st, pins, name, Head(releases)))

(* A held version is the only candidate; a free choice is among the legal  *)
(* releases, from the newest on.                                           *)
resolve_index_package(st, pins, dep) ==
  LET name  == dep.name
      held  == Held(pins, name)
      legal == SelectSeq(Reverse(world.index[name]), LAMBDA r : ~r.yanked /\ InRange(r.ver, dep))
      at_   == {i \in DOMAIN world.index[name] : world.index[name][i].ver \in held}
  IN  IF name \in st.visited THEN Fail(st, "cycle")
      ELSE IF name \in DOMAIN st.named
        THEN IF InRange(st.named[name].ver, dep) THEN st ELSE Fail(st, "conflict")
      ELSE IF name \in world.corrupt THEN Fail(st, "index_corrupt")
      ELSE IF name \notin DOMAIN world.index THEN Fail(st, "unknown")
      ELSE IF held # {} /\ (Cardinality(held) > 1 \/ ~(\A v \in held : InRange(v, dep)) \/ at_ = {})
        THEN Fail(st, "conflict")
      ELSE TryReleases(st, pins, name, IF held = {} THEN legal ELSE <<world.index[name][Min(at_)]>>, Ok)

(* A dependency within the scope is resolved now; one that leaves it is    *)
(* noted as a boundary.                                                    *)
resolve_dep(st, pins, node, dep) ==
  LET edge == classify_dep(node, dep)
  IN  CASE edge = "pruned" -> st
        [] edge \in {"process", "private"} ->
             [st EXCEPT !.bounds = Append(@, [from |-> <<node.name, node.ver>>,
                                              edge |-> edge, req |-> dep])]
        [] edge = "scope" -> IF dep.source = "index" THEN resolve_index_package(st, pins, dep)
                             ELSE resolve_local_package(st, pins, dep)

(* The nameless node that stands for whoever asked for the scope.          *)
ScopeRoot(reqs) == [name |-> RootName, ver |-> 0, source |-> "root", deps |-> reqs,
                    pkg |-> [libs |-> << >>]]

solve_reqs(st, pins, reqs) == resolve_deps(st, pins, ScopeRoot(reqs), 1)

(* Solve and, unless the outcome is kept, take everything back.            *)
attempt_reqs(st, pins, reqs) == KeepIfOk(solve_reqs(st, pins, reqs), st)

(* What is remembered of a solution that is taken back all the same.       *)
capture_witness(out) == [named |-> out.named, bounds |-> out.bounds]

(* The committed picks as pins, oldest pick first.                         *)
Pins == LET sorted == SortSeq(SetToSeq(result), LAMBDA a, b : a.prio < b.prio)
        IN  [i \in DOMAIN sorted |-> [name |-> sorted[i].name, ver |-> sorted[i].ver]]

(* Walk the pins, keeping one whenever the requests can be solved under it *)
(* and those kept before; the last solution found is the witness.          *)
RECURSIVE KeepPins(_, _, _, _, _)
KeepPins(st, reqs, rest, kept, witness) ==
  LET try == Append(kept, Head(rest))
      Next(out) ==
        IF out.fatal THEN [st |-> out, kept |-> kept, witness |-> witness]
        ELSE KeepPins(restore_named([out EXCEPT !.err = Ok], st), reqs, Tail(rest),
                      IF out.err = Ok THEN try ELSE kept,
                      IF out.err = Ok THEN <<capture_witness(out)>> ELSE witness)
  IN  IF rest = << >> THEN [st |-> st, kept |-> kept, witness |-> witness]
      ELSE Next(attempt_reqs(st, try, reqs))

(* The solution under the pins kept: the witness, or a last attempt.       *)
UnderKept(walk, reqs) ==
  [st   |-> IF walk.st.err # Ok THEN walk.st
            ELSE IF walk.witness # << >> THEN restore_named(walk.st, walk.witness[1])
            ELSE solve_reqs(walk.st, walk.kept, reqs),
   pins |-> walk.kept]

(* All pins if they can all be kept, else as many as can.                  *)
UnderPins(all, reqs, pins) ==
  IF all.err = Ok \/ all.fatal THEN [st |-> all, pins |-> pins]
  ELSE UnderKept(KeepPins([all EXCEPT !.err = Ok], reqs, pins, << >>, << >>), reqs)

(* Solve the pending requests of scope i: the new search state and pins.   *)
resolve_scope(i) ==
  LET scope == scopes[i]
      reqs  == Canonical(SubSeq(scope.reqs, scope.cursor + 1, Len(scope.reqs)))
      st    == [named |-> scope.named, bounds |-> << >>, visited |-> {},
                budget |-> world.budget, picks |-> picks, fatal |-> FALSE, err |-> Ok]
  IN  IF scope.cursor > 0 \/ result = {}
      THEN [st |-> solve_reqs(st, scope.pins, reqs), pins |-> scope.pins]
      ELSE UnderPins(attempt_reqs(st, Pins, reqs), reqs, Pins)

commit_scope(named) ==
  result \cup {n \in {named[x] : x \in DOMAIN named} :
                 \A m \in result : <<m.name, m.ver>> # <<n.name, n.ver>>}

-----------------------------------------------------------------------------
(* Scopes.                                                                 *)

NewScope(root, from) == [root |-> root, from |-> from, reqs |-> << >>, cursor |-> 0,
                         named |-> << >>, pins |-> << >>]

(* As ScopeKey, without the node the edge starts from: for a mutant.       *)
SharedScopeKey(b) == <<IF b.edge = "private" THEN b.from[1] ELSE b.req.name, NoNode>>
(* The scope an edge leaves to: a private one is keyed by its library, a   *)
(* process by the package it runs; both by the node the edge starts from.  *)
ScopeKey(b) == <<IF b.edge = "private" THEN b.from[1] ELSE b.req.name, b.from>>
find_scope(scs, key) == {i \in 2 .. Len(scs) : <<scs[i].root, scs[i].from>> = key}
find_or_create_scope(scs, key) ==
  IF find_scope(scs, key) # {} THEN scs ELSE Append(scs, NewScope(key[1], key[2]))

RECURSIVE process_boundaries(_, _, _, _)
process_boundaries(from, bounds, scs, es) ==
  IF bounds = << >> THEN [scopes |-> scs, edges |-> es]
  ELSE LET b   == Head(bounds)
           has == find_or_create_scope(scs, ScopeKey(b))
           to  == CHOOSE i \in find_scope(has, ScopeKey(b)) : TRUE
           req == [b.req EXCEPT !.kind = "package", !.private = FALSE]
       IN  process_boundaries(from, Tail(bounds), [has EXCEPT ![to].reqs = Append(@, req)],
             es \cup {[from |-> from, to |-> to, private |-> b.edge = "private"]})

Pending == {i \in DOMAIN scopes : scopes[i].cursor < Len(scopes[i].reqs)}

(* solve_once's walk over the scopes, again and again until none has new   *)
(* requests; scopes created on the way are met in the same walk.           *)
NextScope == IF \E i \in Pending : i >= at THEN Min({i \in Pending : i >= at}) ELSE Min(Pending)

FreshSolve(pin) ==
  /\ forced' = pin
  /\ scopes' = <<[NewScope(RootName, NoNode) EXCEPT
                   !.reqs = <<[name |-> RootName, kind |-> "package", private |-> FALSE,
                               source |-> "root", lo |-> 0, hi |-> 0,
                               when |-> {}, options |-> {}]>>]>>
  /\ at' = 1 /\ edges' = {} /\ picks' = 0 /\ result' = {} /\ instances' = {}
  /\ phase' = "solve"

(* How a solve ends: the first success wins, and a failed first solve is   *)
(* retried with the pins it proposed.                                      *)
Conclude(e, more) ==
  /\ retries' = more
  /\ err' = IF forced = NoPin \/ e = Ok THEN e ELSE err
  /\ phase' = IF e = Ok \/ more = << >> THEN "done" ELSE "retry"

Turn ==
  /\ phase = "solve" /\ Pending # {}
  /\ \E i \in {NextScope} : \E out \in {resolve_scope(i)} :
       LET done == [scopes EXCEPT ![i].cursor = Len(scopes[i].reqs), ![i].named = out.st.named,
                                  ![i].pins = out.pins]
           next == process_boundaries(i, out.st.bounds, done, edges)
       IN /\ at' = i + 1 /\ picks' = out.st.picks
          /\ IF out.st.err # Ok
            THEN Conclude(out.st.err, retries) /\ UNCHANGED <<scopes, edges, result>>
            ELSE /\ scopes' = next.scopes /\ edges' = next.edges
                 /\ result' = commit_scope(out.st.named)
                 /\ UNCHANGED <<retries, err, phase>>
  /\ UNCHANGED <<forced, instances>>

-----------------------------------------------------------------------------
(* The group of all scopes, once none has pending requests.                *)

(* The processes a scope is loaded into: the root's, its own when a        *)
(* process edge leads to it, and those of the scopes it is private to.     *)
RECURSIVE PrivateReach(_)
PrivateReach(S) ==
  LET T == S \cup {e.to : e \in {f \in edges : f.private /\ f.from \in S}}
  IN  IF T = S THEN S ELSE PrivateReach(T)
compute_processes ==
  LET roots == {1} \cup {e.to : e \in {f \in edges : ~f.private}}
  IN  [s \in DOMAIN scopes |-> {p \in roots : s \in PrivateReach({p})}]

(* The edges of a node to nodes of its own and of other scopes.            *)
collect_node_edges(s, node) ==
  LET kept   == {node.deps[i] : i \in {j \in DOMAIN node.deps :
                                         classify_dep(node, node.deps[j]) # "pruned"}}
      Key(d) == ScopeKey([edge |-> classify_dep(node, d), from |-> <<node.name, node.ver>>, req |-> d])
      To(d)  == IF classify_dep(node, d) = "scope" THEN {s} ELSE find_scope(scopes, Key(d))
  IN  UNION {{[scope |-> t, name |-> d.name, kind |-> d.kind, private |-> d.private,
               edge |-> classify_dep(node, d)] : t \in {u \in To(d) : d.name \in DOMAIN scopes[u].named}}
             : d \in kept}

Group == UNION {{s} \X DOMAIN scopes[s].named : s \in DOMAIN scopes}
GroupEdges(g) == collect_node_edges(g[1], scopes[g[1]].named[g[2]])

RECURSIVE GroupReach(_)
GroupReach(S) ==
  LET T == S \cup UNION {{<<e.scope, e.name>> : e \in GroupEdges(g)} : g \in S}
  IN  IF T = S THEN S ELSE GroupReach(T)
check_group_cycles ==
  \E g \in Group : g \in GroupReach({<<e.scope, e.name>> : e \in GroupEdges(g)})

(* An instance is identified by what it is and by everything it reaches:   *)
(* the structural hash, taken to be free of collisions.                    *)
RECURSIVE hash_group_node(_, _)
hash_group_node(s, n) ==
  LET node == scopes[s].named[n]
  IN  <<node.name, node.ver, {<<hash_group_node(e.scope, e.name), e.kind, e.private>> :
                                e \in collect_node_edges(s, node)}>>

commit_instances ==
  LET hash == [g \in Group |-> hash_group_node(g[1], g[2])]
      of(h) == CHOOSE g \in Group : hash[g] = h /\ \A k \in Group : hash[k] = h => g[1] <= k[1]
      made(h) == LET node == scopes[of(h)[1]].named[of(h)[2]]
                 IN  [id |-> h, name |-> node.name, source |-> node.source, pkg |-> node.pkg,
                      edges |-> {[id |-> hash[<<e.scope, e.name>>], name |-> e.name, kind |-> e.kind,
                                  edge |-> e.edge, private |-> e.private] :
                                   e \in GroupEdges(of(h))}]
  IN  {made(hash[g]) : g \in Group}

(* The first pair of different shared libraries of one name in one         *)
(* process, in the walk over processes and scopes (the names of a scope    *)
(* come in hash order): <<process, earlier node, later node>>.             *)
check_dynamic_duplicates ==
  LET procs == compute_processes
      loaded(p) == {g \in Group : p \in procs[g[1]] /\ node_is_shared(scopes[g[1]].named[g[2]])}
      first(p, n) == CHOOSE g \in loaded(p) : g[2] = n /\ \A k \in loaded(p) : k[2] = n => g[1] <= k[1]
      dups == {d \in UNION {{<<p, first(p, g[2]), g>> : g \in loaded(p)} : p \in DOMAIN scopes} :
                 hash_group_node(d[2][1], d[2][2]) # hash_group_node(d[3][1], d[3][2])}
  IN  {d \in dups : \A e \in dups : d[1] < e[1] \/ (d[1] = e[1] /\ d[3][1] <= e[3][1])}

VersionOf(g) == scopes[g[1]].named[g[2]].ver

(* The pins a duplicate proposes to retry with: both versions, when they   *)
(* differ and nothing is forced already.                                   *)
RetryPins(d) ==
  LET vs == {VersionOf(d[2]), VersionOf(d[3])}
  IN  IF forced # NoPin \/ Cardinality(vs) = 1 THEN << >>
      ELSE <<[name |-> d[2][2], ver |-> Min(vs)], [name |-> d[2][2], ver |-> Max(vs)]>>

Finish ==
  /\ phase = "solve" /\ Pending = {}
  /\ \/ check_group_cycles /\ Conclude("unit_cycle", retries) /\ instances' = {}
     \/ /\ ~check_group_cycles
        /\ instances' = commit_instances
        /\ \/ check_dynamic_duplicates = {} /\ Conclude(Ok, retries)
           \/ \E d \in check_dynamic_duplicates :
                Conclude("dynamic_duplicate", IF forced = NoPin THEN RetryPins(d) ELSE retries)
  /\ UNCHANGED <<scopes, at, edges, picks, forced, result>>

(* Solve again from nothing with the next proposed pin held everywhere.    *)
Retry ==
  /\ phase = "retry"
  /\ FreshSolve(Head(retries)) /\ retries' = Tail(retries)
  /\ UNCHANGED err
=============================================================================
