------------------------------ MODULE Targets ------------------------------
(***************************************************************************)
(* The targets of every unit and the plans they are built by               *)
(* (core/unit/target.c, link.c).                                           *)
(*                                                                         *)
(* A target is <<unit, name, kind>>.  Scripts' targets and their packages' *)
(* libraries come first, because configuring needs them; the targets of    *)
(* the build proper follow once the configure scripts have run.            *)
(***************************************************************************)
EXTENDS Units, Gates

VARIABLES
  targets,    \* session->units.targets: target -> [lib_kind, deps]
  roots,      \* plan->roots
  staged      \* plan->staged: exe -> the libraries staged beside it

-----------------------------------------------------------------------------
(* What a unit's outputs depend on and are stored under, as the tuple of   *)
(* what is hashed (taken to be free of collisions): the package, the       *)
(* options that are not defaults, the linkage asked for, the build, and    *)
(* the same of every dependency.                                           *)
NonDefault(merged) == [o \in DOMAIN merged.options \ merged.plain |-> merged.options[o]]
hash_options(id) == IF id \in DOMAIN options THEN NonDefault(Merged(Instance(id))) ELSE << >>
RECURSIVE spn_unit_fingerprint(_, _)
spn_unit_fingerprint(b, id) ==
  LET inst == Instance(id)
  IN  <<inst.name, inst.pkg.ver, hash_options(id), b,
        IF inst.name \in DOMAIN world.config THEN world.config[inst.name].kind ELSE NoKind,
        {<<spn_unit_fingerprint(b, e.id), e.kind, e.private>> : e \in inst.edges}>>

(* Where a unit works and what it publishes: a local package under the     *)
(* build, by its name; an indexed one in the shared store, by fingerprint. *)
spn_unit_paths_init(u) ==
  IF SourceOf(u) \in {"root", "file"} THEN <<u[1], Instance(u[2]).name>>
  ELSE <<"store", Instance(u[2]).name, spn_unit_fingerprint(u[1], u[2])>>

-----------------------------------------------------------------------------
BinKinds == {"exe", "script", "test", "example"}
ScriptKinds == {"configure", "build"}
SeqSet(s) == {s[i] : i \in DOMAIN s}
ByName(infos, name) == CHOOSE i \in SeqSet(infos) : i.name = name

(* The manifest entry of a target.                                         *)
Info(t) == CASE t[3] = "lib" -> ByName(LibsOf(t[1]), t[2])
             [] t[3] \in BinKinds -> ByName(SelectSeq(BinsOf(t[1]), LAMBDA b : b.kind = t[3]), t[2])
             [] t[3] \in ScriptKinds -> [name |-> t[2], kind |-> t[3], deps |-> << >>,
                                         srcs |-> {t[3]}, embed |-> "none"]

spn_linkage_set_default(kinds) ==
  LET hits == select_first_supported(kinds, <<"object", "source", "static", "shared">>)
  IN  hits

(* The kind of library a target is; NoKind stands for an error.            *)
set_target_kind(t) ==
  LET info == Info(t)
  IN  IF "object" \in info.kinds \/ info.no_link THEN spn_linkage_set_default(info.kinds)
      ELSE spn_target_select_lib_kind(info.kinds, Instance(t[1][2]).name, BuildProfile(t[1][1]), world.config)
LibKind(t) == IF t[3] = "lib" THEN set_target_kind(t) ELSE NoKind
NoLink(t) == t[3] = "lib" /\ Info(t).no_link

(* What a target's last step makes.                                        *)
Output(t) == CASE t[3] \in BinKinds -> "exe"
               [] t[3] \in ScriptKinds -> "reactor"
               [] t[3] = "lib" /\ LibKind(t) \in {"static", "shared"} -> LibKind(t)
               [] OTHER -> "object"
is_target_dynamic(t) == Output(t) \in {"shared", "reactor"}

-----------------------------------------------------------------------------
(* Siblings: the libraries of its own package that a target names.  A name *)
(* that is a dependency's is left to the package's edges.                  *)
find_dep_unit(u, name) == \E i \in DOMAIN units[u].deps : world.names[Instance(units[u].deps[i].unit[2]).name] = name
SiblingNames(t) == SelectSeq(Info(t).deps, LAMBDA n : ~find_dep_unit(t[1], n))
HasLib(u, name) == \E i \in DOMAIN LibsOf(u) : LibsOf(u)[i].name = name

(* Libraries named by targets are targets too, and so on.                  *)
RECURSIVE ensure_sibling_targets(_)
ensure_sibling_targets(ts) ==
  LET more == UNION {{<<t[1], n, "lib">> : n \in {m \in SeqSet(SiblingNames(t)) : HasLib(t[1], m)}} : t \in ts}
  IN  IF more \subseteq ts THEN ts ELSE ensure_sibling_targets(ts \cup more)
resolve_target_deps(ts) == \A t \in ts : \A n \in SeqSet(SiblingNames(t)) : <<t[1], n, "lib">> \in ts

SiblingsOf(t) == LET names == SiblingNames(t)
                 IN  [i \in DOMAIN names |-> <<t[1], names[i], "lib">>]
LibsMade(u) == SelectSeq([i \in DOMAIN LibsOf(u) |-> <<u, LibsOf(u)[i].name, "lib">>],
                         LAMBDA t : t \in DOMAIN targets)

(* The outcome of adding a set of targets: the error that stops it.        *)
KindsFit(ts) == \A t \in ts : t[3] = "lib" => LibKind(t) # NoKind
Make(ts) == [t \in ts |-> [lib_kind |-> LibKind(t)]]

-----------------------------------------------------------------------------
(* Link closures.                                                          *)

pkg_is_shared_boundary(u) == \E t \in SeqSet(LibsMade(u)) : LibKind(t) = "shared"
pkg_links_code(u) == LibsMade(u) = << >> \/
                     \E t \in SeqSet(LibsMade(u)) : ~NoLink(t) /\ LibKind(t) # "shared"

spn_dep_kind_applies(kind, tkind) ==
  CASE kind = "package" -> tkind \notin ScriptKinds
    [] kind = "test" -> tkind = "test"
    [] kind = "build" -> tkind = "build"
edge_links(dep, tests, builds) ==
  CASE dep.kind = "package" -> ~builds
    [] dep.kind = "test" -> tests
    [] dep.kind = "build" -> builds

(* Depth first, dependencies before the package that has them; a shared    *)
(* library's own dependencies are left to it (unless runtime is asked).    *)
RECURSIVE collect(_, _, _, _, _, _), CollectDeps(_, _, _, _, _, _, _)
collect(acc, u, private, tests, builds, runtime) ==
  CollectDeps(acc, units[u].deps, 1, private, tests, builds, runtime)
CollectDeps(acc, deps, i, private, tests, builds, runtime) ==
  IF i > Len(deps) THEN acc
  ELSE LET dep   == deps[i]
           seen  == [acc EXCEPT !.visited = @ \cup {dep.unit}]
           below == IF pkg_is_shared_boundary(dep.unit) /\ ~runtime THEN seen
                    ELSE collect(seen, dep.unit, private \/ dep.private, FALSE, FALSE, runtime)
           out   == [below EXCEPT !.order = Append(@, [pkg |-> dep.unit, private |-> private \/ dep.private])]
       IN  IF ~edge_links(dep, tests, builds) \/ dep.unit \in acc.visited
           THEN CollectDeps(acc, deps, i + 1, private, tests, builds, runtime)
           ELSE CollectDeps(out, deps, i + 1, private, tests, builds, runtime)
Search(t, runtime) ==
  collect([visited |-> {t[1]}, order |-> << >>], t[1], FALSE, t[3] = "test", t[3] = "build", runtime).order

(* The siblings linked into a target, those they need after them.          *)
sibling_code_links(t) == ~NoLink(t) /\ LibKind(t) \in {"static", "source", "object"}
RECURSIVE collect_siblings(_, _, _)
collect_siblings(acc, ts, i) ==
  IF i > Len(ts) THEN acc
  ELSE LET seen  == [acc EXCEPT !.visited = @ \cup {ts[i]}]
           below == IF sibling_code_links(ts[i]) THEN collect_siblings(seen, SiblingsOf(ts[i]), 1) ELSE seen
       IN  IF ts[i] \in acc.visited THEN collect_siblings(acc, ts, i + 1)
           ELSE collect_siblings([below EXCEPT !.order = Append(@, ts[i])], ts, i + 1)
sibling_link_targets(t) ==
  Reverse(collect_siblings([visited |-> {t}, order |-> << >>], SiblingsOf(t), 1).order)

(* The packages a target is linked with, in link order: a package comes    *)
(* before the packages it needs.                                           *)
spn_target_link_closure(t) ==
  <<[pkg |-> t[1], targets |-> sibling_link_targets(t), private |-> FALSE, links_code |-> TRUE]>> \o
  (IF t[3] = "configure" THEN << >>
   ELSE LET found == Reverse(Search(t, FALSE))
        IN  [i \in DOMAIN found |-> [pkg |-> found[i].pkg, targets |-> LibsMade(found[i].pkg),
                                     private |-> found[i].private, links_code |-> pkg_links_code(found[i].pkg)]])

spn_closure_get_linked_libs(closure) ==
  FlattenSeq([i \in DOMAIN closure |->
    LET linked == SelectSeq(closure[i].targets,
                            LAMBDA l : ~NoLink(l) /\ LibKind(l) \in {"static", "shared"})
    IN  [j \in DOMAIN linked |-> [lib |-> linked[j], private |-> closure[i].private]]])

(* How a library is put on a link line.                                    *)
link_plan_placement(t, lib) ==
  CASE LibKind(lib.lib) = "shared" -> "lib"
    [] LibKind(lib.lib) = "static" /\ ~is_target_dynamic(t) -> "lib"
    [] LibKind(lib.lib) = "static" /\ is_target_dynamic(t) ->
         IF lib.private THEN "private_lib" ELSE "whole_archive"
    [] OTHER -> "none"

link_plan(t) ==
  LET libs == spn_closure_get_linked_libs(spn_target_link_closure(t))
  IN  [libs |-> libs,
       whole_archives |-> {l.lib : l \in {x \in SeqSet(libs) : link_plan_placement(t, x) = "whole_archive"}}]

(* Every shared library a program needs when it runs, however deep.        *)
IsRuntime(t) == ~NoLink(t) /\ LibKind(t) = "shared"
RECURSIVE RuntimeSiblings(_)
RuntimeSiblings(ts) ==
  LET more == UNION {SeqSet(SiblingsOf(t)) : t \in ts}
  IN  IF more \subseteq ts THEN ts ELSE RuntimeSiblings(ts \cup more)
(* As spn_target_runtime_libs, but only of the link line: for a mutant.    *)
LinkLineLibs(t) ==
  {l \in (RuntimeSiblings({t}) \ {t}) \cup UNION {SeqSet(LibsMade(p.pkg)) : p \in SeqSet(Search(t, FALSE))} :
     IsRuntime(l)}
spn_target_runtime_libs(t) ==
  {l \in (RuntimeSiblings({t}) \ {t}) \cup UNION {SeqSet(LibsMade(p.pkg)) : p \in SeqSet(Search(t, TRUE))} :
     IsRuntime(l)}

-----------------------------------------------------------------------------
(* Actions.                                                                *)

TargetInit == units = << >> /\ targets = << >> /\ roots = {} /\ staged = << >>
UnitsOf(b) == {u \in DOMAIN units : u[1] = b}

(* add_metaprogram_targets: the scripts, and the libraries of the packages *)
(* they use.                                                               *)
ScriptTargets == {t \in {<<u, k, k>> : u \in UnitsOf("metaprogram"), k \in ScriptKinds} :
                    t[3] \in PkgOf(t[1]).scripts}
LibTargets(us) == UNION {{<<u, l.name, "lib">> : l \in SeqSet(LibsOf(u))} : u \in us}
MetaTargets == ensure_sibling_targets(
                 ScriptTargets \cup LibTargets({u \in UnitsOf("metaprogram") : ~spn_pkg_unit_is_script_host(u)}))
add_metaprogram_targets ==
  /\ stage = "scripts"
  /\ \/ /\ KindsFit(MetaTargets) /\ resolve_target_deps(MetaTargets)
        /\ targets' = Make(MetaTargets) /\ stage' = "configure"
     \/ /\ ~(KindsFit(MetaTargets) /\ resolve_target_deps(MetaTargets))
        /\ stage' = "failed" /\ UNCHANGED targets
  /\ UNCHANGED <<settledVars, units, roots, staged>>

(* configure: the reactors are built and each unit of the target build is  *)
(* configured by its own instance of its script, which adds its nodes.     *)
configure ==
  /\ stage = "configure"
  /\ \/ /\ stage' = "targets"
        /\ units' = [u \in DOMAIN units |->
                       [units[u] EXCEPT !.nodes = IF u[1] = "target" /\ "configure" \in PkgOf(u).scripts
                                                  THEN PkgOf(u).nodes ELSE @]]
     \/ world.misconfigured /\ stage' = "failed" /\ UNCHANGED units
  /\ UNCHANGED <<settledVars, targets, roots, staged>>

(* What of the root package is asked for: by kind, everything or names;    *)
(* nothing at all means everything but the scripts.                        *)
RootUnit == <<"target", spn_session_root_pkg>>
Rule(kind) == IF kind \in DOMAIN world.selection THEN world.selection[kind] ELSE [all |-> FALSE, names |-> {}]
spn_target_selection_pass(t) ==
  IF world.selection = << >> THEN t[3] # "script" ELSE Rule(t[3]).all \/ t[2] \in Rule(t[3]).names
RootTargets == LibTargets({RootUnit}) \cup
               {<<RootUnit, b.name, b.kind>> : b \in SeqSet(BinsOf(RootUnit))}
(* A name asked for must be found, under any kind it is asked for by.      *)
validate_target_selection ==
  \A k \in DOMAIN world.selection : \A n \in Rule(k).names :
    \E t \in RootTargets : t[2] = n /\ n \in Rule(t[3]).names
exe_name_reserved(name) == name \in {"store", ".spn", "test", "example"}
PlanRoots == {t \in RootTargets : spn_target_selection_pass(t)}
Reserved == \E t \in PlanRoots : t[3] \in {"exe", "script"} /\ exe_name_reserved(t[2])
BuildTargets == ensure_sibling_targets(LibTargets(UnitsOf("target") \ {RootUnit}) \cup PlanRoots)

(* Where a program is staged, and its libraries beside it; two different   *)
(* libraries may not claim one place.                                      *)
StageDir(t) == IF t[3] \in {"test", "example"} THEN t[3] ELSE "root"
Exes == {t \in roots : Output(t) = "exe"}
Closures == [t \in Exes |-> spn_target_runtime_libs(t)]
Claims == UNION {{[path |-> <<StageDir(t), l[2]>>, lib |-> l] : l \in Closures[t]} : t \in Exes}
Collision == \E c, d \in Claims : c.path = d.path /\ c.lib # d.lib

NoCxx == world.no_cxx /\ \E t \in BuildTargets : LibKind(t) # "source" /\ "cxx" \in Info(t).srcs

add_target_build_targets ==
  LET fine == /\ validate_target_selection /\ ~Reserved
              /\ KindsFit(BuildTargets) /\ resolve_target_deps(BuildTargets) /\ ~NoCxx
  IN
  /\ stage = "targets"
  /\ UNCHANGED <<settledVars, units>>
  /\ \/ /\ fine
        /\ targets' = Make(BuildTargets) @@ targets /\ roots' = PlanRoots
        /\ \/ Collision' /\ stage' = "failed" /\ UNCHANGED staged
           \/ ~Collision' /\ stage' = "graph" /\ staged' = Closures'
     \/ ~fine /\ stage' = "failed" /\ UNCHANGED <<targets, roots, staged>>
=============================================================================
