------------------------------- MODULE Units -------------------------------
(***************************************************************************)
(* The package units of a build (core/unit): which packages are built,     *)
(* for which of the two builds of a session, and with which contents.      *)
(*                                                                         *)
(* A session has a target build and a metaprogram build, the latter for    *)
(* the WebAssembly scripts packages are configured and built with and for  *)
(* the packages those scripts use.  A unit is <<build, package id>>; it    *)
(* owns a copy of its package's manifest, with the gated parts that hold   *)
(* in its build.                                                           *)
(*                                                                         *)
(* A package record (see Resolver) also has                                *)
(*   libs     sequence of [name, kinds, no_link, deps, srcs, embed]        *)
(*   bins     sequence of [name, kind, deps, srcs, embed]  (root only)     *)
(*   scripts  subset of {"configure", "build"}                             *)
(*   headers  whether a library publishes headers                          *)
(*   nodes    the user nodes its configure script adds                     *)
(* where srcs is a set of [src, when] and deps names sibling libraries.    *)
(***************************************************************************)
EXTENDS Model, SequencesExt

VARIABLE units    \* session->units.packages: unit -> [kinds, deps, nodes]

(* spn_session_init: the two builds and their profiles.                    *)
Builds == {"target", "metaprogram"}
spn_profile_metaprogram == [facts |-> [os |-> "wasi"], options |-> {}, linkage |-> "static"]
BuildProfile(b) == IF b = "target" THEN world.profile ELSE spn_profile_metaprogram

PkgOf(u) == Loaded(Instance(u[2]))
SourceOf(u) == Instance(u[2]).source
spn_session_root_pkg == (CHOOSE inst \in resolve : inst.source = "root").id

(* The edges of a resolved package, in the canonical order of requests.    *)
EdgeBefore(a, b) ==
  LET K(e) == <<e.name, KindOrder[e.kind], IF e.private THEN 1 ELSE 0>>
  IN  \E i \in 1 .. 3 : K(a)[i] < K(b)[i] /\ \A j \in 1 .. i - 1 : K(a)[j] = K(b)[j]
ResolvedEdges(id) == SortSeq(SetToSeq(Instance(id).edges), EdgeBefore)

-----------------------------------------------------------------------------
(* The manifest of a unit: every gated entry is kept when it holds under   *)
(* the facts of the unit's build and the options settled for the package   *)
(* (clone_pkg_info, spn_pkg_apply_options).                                *)
UnitEnv(u) ==
  LET set == IF u[2] \in DOMAIN options THEN options[u[2]] ELSE << >>
  IN  [o \in {x \in DOMAIN set : set[x] # None} |-> set[o]]
      @@ spn_when_env_from_profile(BuildProfile(u[1]))
apply_gated(u, entries) == {e \in entries : spn_when_eval(e.when, UnitEnv(u))}
apply_target(u, info) == [info EXCEPT !.srcs = {e.src : e \in apply_gated(u, @)}]
LibsOf(u) == [i \in DOMAIN PkgOf(u).libs |-> apply_target(u, PkgOf(u).libs[i])]
BinsOf(u) == [i \in DOMAIN PkgOf(u).bins |-> apply_target(u, PkgOf(u).bins[i])]

-----------------------------------------------------------------------------
(* spn_units_add_packages.  A state of it is [made, widened]: the kinds of *)
(* the units created so far, and whether the assertion on a unit's kinds   *)
(* would have failed.                                                      *)
pkg_has_scripts(id) == Loaded(Instance(id)).scripts # {}
spn_pkg_unit_is_script_host(u) == units[u].kinds \cap {"package", "test"} = {}

(* The first creation of a unit decides which dependencies it has.         *)
add_units(st, us, kinds) ==
  [made    |-> [u \in DOMAIN st.made \cup us |-> IF u \in DOMAIN st.made THEN st.made[u] ELSE kinds],
   widened |-> st.widened \/ \E u \in us \cap DOMAIN st.made : ~(kinds \subseteq st.made[u])]

(* The dependencies a unit of some kinds asks for, and the kinds it asks.  *)
Asked(u, kinds) == {<<u[1], e.id>> : e \in {x \in Instance(u[2]).edges : x.kind \in kinds}}
AskedKinds(u) == IF u[1] = "metaprogram" THEN {"package", "build"} ELSE {"package"}

(* Every pending unit gets its dependencies, which may be pending in turn. *)
(* All units of a build are asked for with the same kinds while this goes  *)
(* on, so the order in which they are pending makes no difference; a unit  *)
(* that was drained before asks again for what it has.                     *)
AllUnits == Builds \X {i.id : i \in resolve}
KindsIn(st, u) == IF u \in DOMAIN st.made THEN st.made[u] ELSE AskedKinds(u)
Asks(st) == UNION {{<<u, v>> : v \in Asked(u, KindsIn(st, u))} : u \in AllUnits}
drain(st) ==
  LET all == Reach(Asks(st), DOMAIN st.made)
  IN  [made    |-> [u \in all |-> KindsIn(st, u)],
       widened |-> st.widened \/ \E u \in all : \E v \in Asked(u, KindsIn(st, u)) :
                                    ~(AskedKinds(u) \subseteq KindsIn(st, v))]

AddRoot == drain(add_units([made |-> << >>, widened |-> FALSE],
                           {<<"target", spn_session_root_pkg>>}, {"package", "test"}))

(* The scripts of a package and the packages they use.                     *)
Owners(st) == {u \in DOMAIN st.made : u[1] # "metaprogram" /\ pkg_has_scripts(u[2])}
Members(st) == UNION {Asked(<<"metaprogram", u[2]>>, {"build"}) : u \in Owners(st)}
AddMembers(st) == drain(add_units(st, Members(st), {"package", "build"}))
(* A package whose scripts no metaprogram uses as a package is added only  *)
(* to host them.                                                           *)
Hosts(st) == {<<"metaprogram", u[2]>> : u \in Owners(st)} \ DOMAIN st.made
AddHosts(st) == drain(add_units(st, Hosts(st), {"build"}))

(* As AddPackages, with the hosts first: for a mutant.                     *)
HostsFirst == AddMembers(AddHosts(AddRoot))
AddPackages == AddHosts(AddMembers(AddRoot))

(* The unit whose scripts configure and build a unit.                      *)
Metaprogram(u) == <<"metaprogram", u[2]>>

(* The dependencies of a unit, in the order of its package's edges.        *)
Deps(u, kinds) ==
  LET mine == SelectSeq(ResolvedEdges(u[2]), LAMBDA e : e.kind \in kinds)
  IN  [i \in DOMAIN mine |-> [unit |-> <<u[1], mine[i].id>>, kind |-> mine[i].kind,
                              private |-> mine[i].private]]

spn_units_add_packages ==
  /\ stage = "units"
  /\ \E st \in {AddPackages} :
       /\ stage' = IF st.widened THEN "widened" ELSE "scripts"
       /\ units' = [u \in DOMAIN st.made |->
                      [kinds |-> st.made[u], deps |-> Deps(u, st.made[u]), nodes |-> << >>]]
  /\ UNCHANGED settledVars

UnitsInit == ModelInit /\ units = << >>
UnitsNext == (ModelNext /\ UNCHANGED units) \/ spn_units_add_packages
UnitsSpec == UnitsInit /\ [][UnitsNext]_<<modelVars, units>>

-----------------------------------------------------------------------------
(* Every package of the build has a unit with all the dependencies its     *)
(* role admits, none was created with fewer than a later request needs     *)
(* ("a request may never widen an existing unit's kinds"), and the scripts *)
(* of every package have a unit to run from.  (spn_units_add_packages.)    *)
UnitsComplete ==
  /\ stage # "widened"
  /\ stage = "scripts" =>
       /\ \A u \in DOMAIN units :
            /\ pkg_has_scripts(u[2]) => Metaprogram(u) \in DOMAIN units
            /\ \A e \in Instance(u[2]).edges :
                 (e.kind \in units[u].kinds) =>
                    /\ <<u[1], e.id>> \in DOMAIN units
                    /\ "package" \in units[<<u[1], e.id>>].kinds
       /\ \A inst \in resolve : \E u \in DOMAIN units : u[2] = inst.id \/ inst.source # "root"
=============================================================================
