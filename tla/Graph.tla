------------------------------- MODULE Graph -------------------------------
(***************************************************************************)
(* The build graph a session generates from its targets                    *)
(* (core/graph/dag.c): the actions, what each reads and what it makes.     *)
(* Artifacts are identified by their paths, which is what lets one action  *)
(* read what another makes; running the graph is modelled by DagRun.       *)
(***************************************************************************)
EXTENDS Targets

VARIABLE graph    \* the actions: [key, ins, outs]

buildVars == <<units, targets, roots, staged, graph>>
pipelineVars == <<modelVars, resolverVars, buildVars>>

(* Artifacts: <<where, directory, file>>.                                  *)
Work(u) == spn_unit_paths_init(u)
SourceFile(t, s) == <<<<"source", Instance(t[1][2]).name>>, "source", <<s>>>>
(* The objects of an object library go straight to the package's lib       *)
(* directory; those of other targets have a directory of their own.        *)
ObjectFile(t, s) == IF LibKind(t) = "object" THEN <<Work(t[1]), "lib", <<s>>>>
                    ELSE <<Work(t[1]), "object", <<t[3], t[2], s>>>>
LibFile(t, kind) == <<Work(t[1]), "lib", <<t[2], kind>>>>
OutputFile(t) == CASE Output(t) = "exe" -> <<Work(t[1]), "bin", <<t[2]>>>>
                   [] Output(t) \in {"static", "shared"} -> LibFile(t, Output(t))
                   [] Output(t) = "reactor" -> <<Work(t[1]), "work", <<t[2]>>>>
ImpLib(t) == IF Output(t) = "shared" /\ BuildProfile(t[1][1]).facts.os = "windows"
             THEN {LibFile(t, "static")} ELSE {}
spn_target_exports_path(t) == <<Work(t[1]), "work", <<t[2], "exports">>>>
embed_artifact_path(t, ext) == ObjectFile(t, ext)
IncludeTree(u) == <<Work(u), "include", << >>>>
IncludeStamp(tree) == <<tree[1], "include", <<"stamp">>>>
CompileCommands(ext) == <<<<"session">>, "output", <<ext>>>>
NodeOut(u, o) == <<Work(u), "gen", <<o>>>>
spn_pkg_unit_node_stamp(u, node) == <<Work(u), "stamp", <<node.tag>>>>
NodeOuts(u, node) == IF node.outs = {} THEN {spn_pkg_unit_node_stamp(u, node)}
                     ELSE {NodeOut(u, o) : o \in node.outs}

(* The targets in the graph: configure scripts were built before.          *)
Compiled(t) == LibKind(t) # "source"
(* A target that is archived or linked: it has at least one object.        *)
HasIds(t) == t \in DOMAIN targets /\ t[3] # "configure" /\ Output(t) # "object" /\ Info(t).srcs # {}
Embeds(t) == HasIds(t) /\ Info(t).embed # "none"

-----------------------------------------------------------------------------
(* dag_add_user_nodes.                                                     *)
UserOutputs(u) == UNION {NodeOuts(u, n) : n \in SeqSet(units[u].nodes)}
ScriptInput(u) ==
  {OutputFile(<<Metaprogram(u), k, k>>) :
     k \in {x \in PkgOf(u).scripts : x = "configure" \/ HasIds(<<Metaprogram(u), x, x>>)}}
dag_add_user_nodes(u) ==
  {[key |-> <<"user", u, n.tag>>, outs |-> NodeOuts(u, n),
    ins |-> ScriptInput(u) \cup UNION {NodeOuts(u, units[u].nodes[i]) : i \in n.deps}] :
     n \in SeqSet(units[u].nodes)}

(* dag_add_tree: the published headers, and the stamp consumers wait for.  *)
dag_pkg_publishes(u) == PkgOf(u).headers
(* A header may be one a user node makes.                                  *)
Header(u) == IF \E n \in SeqSet(units[u].nodes) : "header" \in n.outs THEN NodeOut(u, "header")
             ELSE SourceFile(<<u>>, "header")
dag_add_tree(u) ==
  IF dag_pkg_publishes(u)
  THEN {[key |-> <<"tree", u>>, ins |-> {Header(u)},
         outs |-> {IncludeTree(u), IncludeStamp(IncludeTree(u))}]}
  ELSE {}
Packages == {u \in DOMAIN units : ~spn_pkg_unit_is_script_host(u)}

(* The include directories of a target's compilations that are made by the *)
(* graph: those of the dependencies that apply to it, and for an example   *)
(* its own package's.                                                      *)
build_target_plan(t) ==
  {IncludeTree(d.unit) : d \in {x \in SeqSet(units[t[1]].deps) : spn_dep_kind_applies(x.kind, t[3])}}
  \cup (IF t[3] = "example" THEN {IncludeTree(t[1])} ELSE {})
(* As Stamps, without those of user-made headers: for a mutant.            *)
PlainStamps == {IncludeStamp(IncludeTree(u)) : u \in {v \in Packages : dag_pkg_publishes(v) /\ units[v].nodes = << >>}}
Stamps == {IncludeStamp(IncludeTree(u)) : u \in {v \in Packages : dag_pkg_publishes(v)}}

(* add_object_compilation, with the inputs dag_add_target_edges and        *)
(* add_compile_commands add to it.                                         *)
add_object_compilation(t) ==
  {[key |-> <<"object", t, s>>, outs |-> {ObjectFile(t, s)},
    ins |-> {SourceFile(t, s), CompileCommands("stamp")}
            \cup (IF Embeds(t) THEN {embed_artifact_path(t, "embed.h")} ELSE {})
            \cup (IF t[1] \in Packages THEN UserOutputs(t[1]) ELSE {})
            \cup ({IncludeStamp(p) : p \in build_target_plan(t)} \cap Stamps)] : s \in Info(t).srcs}

(* Embedded directories wait for whatever the graph makes in them.         *)
EmbedActions(t) ==
  IF ~Embeds(t) THEN {}
  ELSE {[key |-> <<"embed", t>>, outs |-> {embed_artifact_path(t, "embed.o"), embed_artifact_path(t, "embed.h")},
         ins |-> IF Info(t).embed = "file" THEN {SourceFile(t, "data")} ELSE UserOutputs(t[1])]}

(* The objects a target is made of; on a Windows host they are listed in a *)
(* response file.                                                          *)
Rsp(t) == IF world.host = "windows" THEN {ObjectFile(t, "objects.rsp")} ELSE {}
Inputs(t) == {ObjectFile(t, s) : s \in Info(t).srcs} \cup Rsp(t)
             \cup (IF Embeds(t) THEN {embed_artifact_path(t, "embed.o")} ELSE {})
RspActions(t) == IF Rsp(t) = {} THEN {} ELSE {[key |-> <<"rsp", t>>, outs |-> Rsp(t), ins |-> {}]}

ExportActions(t) ==
  IF ~is_target_dynamic(t) THEN {}
  ELSE {[key |-> <<"exports", t>>, outs |-> {spn_target_exports_path(t)},
         ins |-> Inputs(t) \cup {OutputFile(l) : l \in link_plan(t).whole_archives}]}

(* The libraries on the link line that the graph makes.                    *)
dag_add_link_deps(t) == {OutputFile(l.lib) : l \in {x \in SeqSet(link_plan(t).libs) : HasIds(x.lib)}}

(* The archive or link action.                                             *)
OutputActions(t) ==
  {[key |-> <<"output", t>>, outs |-> {OutputFile(t)} \cup ImpLib(t),
    ins |-> Inputs(t) \cup dag_add_link_deps(t)
            \cup (IF is_target_dynamic(t) THEN {spn_target_exports_path(t)} ELSE {})]}

spn_dag_build_add_target(t) ==
  IF ~Compiled(t) THEN {}
  ELSE add_object_compilation(t) \cup
       (IF HasIds(t) THEN EmbedActions(t) \cup RspActions(t) \cup ExportActions(t) \cup OutputActions(t) ELSE {})

add_compile_commands == {[key |-> <<"compile_commands">>, ins |-> {},
                          outs |-> {CompileCommands("stamp"), CompileCommands("json")}]}

Actions == UNION {spn_dag_build_add_target(t) : t \in {x \in DOMAIN targets : x[3] # "configure"}}
           \cup UNION {dag_add_user_nodes(u) \cup dag_add_tree(u) : u \in Packages}
           \cup add_compile_commands

(* spn_dag_action_add_output refuses a second producer of a path.          *)
DuplicateOutput(as) == \E a, b \in as : a # b /\ a.outs \cap b.outs # {}

prepare_graph ==
  /\ stage = "graph"
  /\ \E as \in {Actions} :
       \/ DuplicateOutput(as) /\ stage' = "duplicate" /\ UNCHANGED graph
       \/ ~DuplicateOutput(as) /\ stage' = "run" /\ graph' = as
  /\ UNCHANGED <<settledVars, units, targets, roots, staged>>

-----------------------------------------------------------------------------
InitPipeline == InitGates /\ TargetInit /\ graph = {}

BuildNext ==
  \/ spn_units_add_packages /\ UNCHANGED <<targets, roots, staged, graph>>
  \/ (add_metaprogram_targets \/ configure \/ add_target_build_targets) /\ UNCHANGED graph
  \/ prepare_graph
NextPipeline == (NextGates /\ UNCHANGED buildVars) \/ (BuildNext /\ UNCHANGED resolverVars)

-----------------------------------------------------------------------------
(* Properties.                                                             *)

(* The packages a target links, found by reachability alone.               *)
LinksFrom(u, t, top) == {d.unit : d \in {x \in SeqSet(units[u].deps) :
                          edge_links(x, top /\ t[3] = "test", top /\ t[3] = "build")}}
RECURSIVE Needed(_, _, _)
Needed(t, S, runtime) ==
  LET T == S \cup UNION {LinksFrom(u, t, FALSE) : u \in {v \in S : runtime \/ ~pkg_is_shared_boundary(v)}}
  IN  IF T = S THEN S ELSE Needed(t, T, runtime)
RECURSIVE Public(_, _)
Public(t, S) ==
  LET T == S \cup {d.unit : d \in {x \in UNION {SeqSet(units[u].deps) : u \in S} : ~x.private}}
  IN  IF T = S THEN S ELSE Public(t, T)
IndexOf(cl, u) == CHOOSE i \in DOMAIN cl : cl[i].pkg = u
Linked == {t \in DOMAIN targets : Output(t) \in {"exe", "shared", "reactor"}}

(* A link line is complete and in order: it has exactly the packages       *)
(* reachable without crossing a shared library, each before the packages   *)
(* it needs; it never has two builds of one package; a package is public   *)
(* on it only if a path of public dependencies leads there; and every      *)
(* shared library that a program or a library it loads was linked with is  *)
(* staged beside it.  (spn_target_link_closure, spn_target_runtime_libs;   *)
(* the resolver's scopes make it hold.)                                    *)
LinkSound ==
  stage = "graph" =>
    \A t \in Linked :
      LET cl   == spn_target_link_closure(t)
          pkgs == {cl[i].pkg : i \in DOMAIN cl}
      IN  /\ pkgs = {t[1]} \cup (IF t[3] = "configure" THEN {}
                                 ELSE Needed(t, LinksFrom(t[1], t, TRUE), FALSE))
          /\ Len(cl) = Cardinality(pkgs)
          /\ \A i \in 2 .. Len(cl) : ~pkg_is_shared_boundary(cl[i].pkg) =>
               \A v \in LinksFrom(cl[i].pkg, t, FALSE) : IndexOf(cl, v) > i
          /\ \A p, q \in pkgs : Instance(p[2]).name = Instance(q[2]).name => p = q
          /\ \A i \in 2 .. Len(cl) : ~cl[i].private =>
               cl[i].pkg \in Public(t, {d.unit : d \in {x \in SeqSet(units[t[1]].deps) : ~x.private}})
          /\ t \in DOMAIN staged =>
               \A l \in {t} \cup staged[t] : \A x \in SeqSet(link_plan(l).libs) :
                 LibKind(x.lib) = "shared" => x.lib \in staged[t]

(* Who makes a file, and all that is made before some actions.             *)
Producer(file) == {a \in graph : file \in a.outs}
RECURSIVE Before(_)
Before(as) ==
  LET all == as \cup {p \in graph : \E a \in as : p.outs \cap a.ins # {}}
  IN  IF all = as THEN as ELSE Before(all)
SiblingCycle == \E t \in DOMAIN targets : t \in RuntimeSiblings(SeqSet(SiblingsOf(t)))
Empty(t) == Output(t) \in {"static", "shared"} /\ Info(t).srcs = {}

(* The generated graph can be run: nothing waits for itself, every input   *)
(* that lies in a unit's own directories is made by an action (or is the   *)
(* reactor the configure phase made, or belongs to a library whose sources *)
(* are all gated off), and what a compilation includes or a link reads is  *)
(* made before it.  Two actions claim one file only where two programs of  *)
(* the root, or two object libraries' sources, share a name, or two builds *)
(* of a local package share its directory.  (prepare_graph.)               *)
GraphSound ==
  /\ stage = "run" =>
       /\ \A a \in graph : \A f \in a.ins :
            \/ Producer(f) # {} \/ f[1][1] = "source"
            \/ \E t \in DOMAIN targets : Output(t) # "object" /\ f = OutputFile(t) /\ (t[3] = "configure" \/ Empty(t))
       /\ SiblingCycle \/ \A a \in graph : a \notin Before(UNION {Producer(f) : f \in a.ins})
       /\ \A a \in graph : a.key[1] = "object" =>
            LET t == a.key[2]
                made == UNION {b.outs : b \in Before({a})}
            IN  \A u \in Needed(t, LinksFrom(t[1], t, TRUE), FALSE) :
                  (u \in SeqSet([i \in DOMAIN units[t[1]].deps |-> units[t[1]].deps[i].unit]) /\ t[3] \notin ScriptKinds)
                    => (dag_pkg_publishes(u) => IncludeTree(u) \in made)
  /\ stage = "duplicate" =>
       \/ \E s, t \in DOMAIN targets : s # t /\ s[1] = t[1] /\ s[2] = t[2] /\ {s[3], t[3]} \subseteq BinKinds
       \/ \E s, t \in DOMAIN targets : s # t /\ s[1] = t[1] /\ LibKind(s) = "object" /\ LibKind(t) = "object"
       \/ \E u, v \in DOMAIN units : u # v /\ u[1] = v[1] /\ SourceOf(u) = "file" /\ Instance(u[2]).name = Instance(v[2]).name

(* "distinct option sets get distinct store paths" (unit/fingerprint.c):   *)
(* if the root manifest had declined the defaults of a package, and the    *)
(* package's options came out different, what is hashed of them would      *)
(* differ too.                                                             *)
StorePaths ==
  stage = "scripts" =>
    \A inst \in resolve : inst.name \in DOMAIN world.config =>
      LET other == spn_pkg_options_merge(Descriptor(inst.name, inst.source, Loaded(inst)), world.profile,
                     [world.config EXCEPT ![inst.name].declined = ~@], RequestsOf(inst.id), tie)
      IN  (other.violations = {} /\ other.options # options[inst.id]) => NonDefault(other) # hash_options(inst.id)
=============================================================================
