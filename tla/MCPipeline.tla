----------------------------- MODULE MCPipeline -----------------------------
(***************************************************************************)
(* Worlds for the pipeline from a manifest to the actions of a build:      *)
(* resolution, gates and options, units, targets, graph.  A package is     *)
(* named by a number, a version is a number; P, H, B and T are public,     *)
(* private, build and test dependencies.                                   *)
(***************************************************************************)
EXTENDS Graph

D(name, kind, private, lo, hi) ==
  [name |-> name, kind |-> kind, private |-> private, source |-> "index", lo |-> lo, hi |-> hi,
   when |-> {}, options |-> {}]
P(n, lo, hi) == D(n, "package", FALSE, lo, hi)
H(n, lo, hi) == D(n, "package", TRUE, lo, hi)
B(n, lo, hi) == D(n, "build", FALSE, lo, hi)
T(n, lo, hi) == D(n, "test", FALSE, lo, hi)
On(d, key, value) == [d EXCEPT !.when = {[key |-> key, neg |-> FALSE, value |-> value]}]
Off(d, key, value) == [d EXCEPT !.when = {[key |-> key, neg |-> TRUE, value |-> value]}]
Ask(d, key, value) == [d EXCEPT !.options = {[key |-> key, neg |-> FALSE, value |-> value]}]

Lib(kinds) == [name |-> "lib", kinds |-> kinds, no_link |-> FALSE, deps |-> << >>, embed |-> "none",
               srcs |-> {[src |-> "c", when |-> {}]}]
Bin(name, kind, deps) == [name |-> name, kind |-> kind, deps |-> deps, embed |-> "none",
                          srcs |-> {[src |-> "main", when |-> {}]}]
Pkg(ver, libs, deps) == [ver |-> ver, yanked |-> FALSE, libs |-> libs, options |-> << >>, deps |-> deps,
                         load |-> Ok, bins |-> << >>, scripts |-> {}, headers |-> TRUE, nodes |-> << >>]
Static == <<Lib({"static"})>>
Shared == <<Lib({"shared"})>>

(* Libraries are named after their packages.                               *)
PkgNames == <<"a", "b", "c", "d", "e", "f", "g", "h", "i">>
Named(pkg, n) == [pkg EXCEPT !.libs = [i \in DOMAIN @ |-> [@[i] EXCEPT !.name = PkgNames[n]]]]
World(rootDeps, index) ==
  [index |-> [n \in DOMAIN index |-> [v \in DOMAIN index[n] |-> Named(index[n][v], n)]],
   files |-> << >>,
   root |-> [Pkg(1, << >>, rootDeps) EXCEPT !.bins = <<Bin("app", "exe", << >>)>>],
   config |-> << >>,
   profile |-> [facts |-> [os |-> "linux"], options |-> {}, linkage |-> "shared"],
   corrupt |-> {}, patched |-> << >>, unfetchable |-> {}, budget |-> 20,
   misconfigured |-> FALSE, selection |-> << >>, no_cxx |-> FALSE, host |-> "linux",
   names |-> PkgNames]

(* Two versions each of three packages, whose dependencies vary.           *)
Roots == {<<P(1, 1, 2), P(2, 1, 2)>>, <<P(1, 1, 2), B(2, 1, 2)>>, <<P(3, 1, 1), B(1, 1, 2), P(2, 1, 2)>>}
Deps1 == {<< >>, <<P(3, 1, 1)>>, <<H(3, 2, 2)>>, <<P(2, 1, 2)>>}
Deps2 == {<< >>, <<P(3, 2, 2)>>, <<H(3, 1, 1)>>, <<B(1, 1, 2), P(3, 2, 2)>>}
VersionWorlds ==
  {World(r, <<<<Pkg(1, l, a), Pkg(2, l, b)>>, <<Pkg(1, Shared, c), Pkg(2, Shared, d)>>,
             <<Pkg(1, k, << >>), Pkg(2, k, << >>)>>>>) :
     r \in Roots, a \in Deps1, b \in Deps1, c \in Deps2, d \in Deps2,
     l \in {Static}, k \in {Static, Shared}}
  \cup {World(r, <<<<Pkg(1, Shared, a), Pkg(2, Shared, b)>>, <<Pkg(1, Shared, c), Pkg(2, Static, d)>>,
             <<Pkg(1, Static, << >>), Pkg(2, Shared, << >>)>>>>) :
     r \in Roots, a \in Deps1, b \in Deps1, c \in Deps2, d \in Deps2}

(* Options that gate dependencies and travel along them.                   *)
X(additive, defaults) == [name |-> "x", type |-> "bool", additive |-> additive, values |-> {},
                          defaults |-> defaults]
WithX(pkg, additive, defaults) == [pkg EXCEPT !.options = <<X(additive, defaults)>>]
Config(kind, clauses, declined) == [kind |-> kind, options |-> clauses, declined |-> declined]
Is(key, value) == [key |-> key, neg |-> FALSE, value |-> value]
Defaults == {<< >>, <<[when |-> {Is("os", "windows")}, value |-> "false"],
                      [when |-> {Is("os", "linux")}, value |-> "true"]>>}
OptionRoots == {<<P(1, 1, 2), P(2, 1, 2)>>, <<Ask(P(1, 1, 2), "x", "true"), Ask(P(2, 1, 2), "x", "false")>>,
                <<Ask(P(1, 1, 2), "x", "true"), B(2, 1, 2)>>}
OptionDeps1 == {<<On(P(2, 1, 2), "x", "true")>>, <<Off(P(2, 1, 2), "x", "true"), Ask(P(3, 1, 2), "x", "true")>>,
                <<On(Ask(P(2, 1, 2), "x", "true"), "x", "true")>>}
OptionDeps2 == {<<On(P(3, 1, 1), "x", "true")>>, <<Ask(P(3, 1, 2), "x", "false")>>,
                <<On(Ask(P(3, 1, 2), "x", "true"), "x", "true")>>}
Configs == {<< >>, <<Config(NoKind, {Is("x", "true")}, FALSE), Config(NoKind, {}, TRUE)>>}
OptionWorlds ==
  {[World(r, <<<<WithX(Pkg(1, Static, a), FALSE, e)>>, <<WithX(Pkg(1, Shared, b), m, e)>>,
              <<WithX(Pkg(1, Static, << >>), FALSE, << >>),
                WithX(Pkg(2, Static, <<On(P(4, 1, 1), "x", "true")>>), FALSE, << >>)>>,
              <<Pkg(1, Static, << >>)>>>>) EXCEPT !.config = c] :
     r \in OptionRoots, a \in OptionDeps1, b \in OptionDeps2, m \in BOOLEAN, e \in Defaults,
     c \in Configs}

(* One world for each way a request can fail or be special.                *)
F(name) == [P(name, 1, 1) EXCEPT !.source = "file"]
Plain == <<<<Pkg(1, Static, << >>), Pkg(2, Shared, <<P(2, 1, 2)>>)>>, <<Pkg(1, Static, << >>)>>>>
OddWorlds ==
  {World(<<P(1, 3, 3)>>, Plain), World(<<P(9, 1, 1)>>, Plain), World(<<P(1, 1, 2), T(2, 1, 1)>>, Plain),
   World(<<P(1, 1, 2)>>, <<Plain[1], <<Pkg(1, Static, <<P(1, 1, 2)>>)>>>>),
   World(<<B(1, 1, 2), B(2, 1, 1)>>, <<Plain[1], <<Pkg(1, Shared, <<H(1, 1, 1)>>)>>>>)}
  \cup {[World(<<P(1, 1, 2)>>, Plain) EXCEPT !.corrupt = {2}],
        [World(<<P(1, 1, 2)>>, Plain) EXCEPT !.budget = 1],
        [World(<<P(1, 1, 2)>>, Plain) EXCEPT !.unfetchable = {1}],
        [World(<<P(1, 1, 2)>>, Plain) EXCEPT !.index[1][2].yanked = TRUE],
        [World(<<P(1, 1, 2)>>, Plain) EXCEPT !.config = [n \in {9} |-> Config(NoKind, {}, FALSE)]],
        [World(<<P(1, 1, 2)>>, Plain) EXCEPT !.config = [n \in {1} |-> Config("static", {Is("z", "true")}, FALSE)]],
        [World(<<P(1, 1, 2)>>, Plain) EXCEPT !.profile.linkage = "static"],
        [World(<<Ask(P(1, 1, 1), "x", "true")>>, Plain) EXCEPT
           !.patched = [n \in {1} |-> WithX(Pkg(1, Static, <<On(P(2, 1, 1), "x", "true")>>), TRUE, << >>)]]}
  \cup {[World(<<F(5), B(1, 1, 2), P(2, 1, 1)>>, Plain) EXCEPT
           !.files = [n \in {5} |-> [Pkg(1, Static, <<P(2, 1, 2), B(1, 1, 2)>>) EXCEPT !.load = l]]] :
         l \in {Ok, "no_manifest", "manifest_issues", "mismatch"}}

(* Scripts, siblings, programs and generated files.                        *)
RLib(name, kinds, deps) == [Lib(kinds) EXCEPT !.name = name, !.deps = deps]
GatedSrcs(lib) == [lib EXCEPT !.srcs = {[src |-> "c", when |-> {Is("os", "linux")}], [src |-> "cxx", when |-> {Is("os", "wasi")}]}]
Scripted(pkg, scripts, nodes) == [pkg EXCEPT !.scripts = scripts, !.nodes = nodes]
GenNodes == <<[tag |-> "gen", outs |-> {"header"}, deps |-> {}], [tag |-> "check", outs |-> {}, deps |-> {1}]>>
Bins == <<Bin("app", "exe", <<"core">>), Bin("t", "test", <<"core">>), Bin("demo", "example", << >>),
          [Bin("tool", "script", << >>) EXCEPT !.embed = "dir"]>>
RootLibs == {<<RLib("core", {k}, <<"util">>), RLib("util", {m}, d)>> :
               k \in {"static", "shared", "object", "source"}, m \in {"static", "shared"},
               d \in {<< >>, <<"core">>}}
ScriptIndex(scripts, kind) ==
  <<<<Scripted(Pkg(1, <<GatedSrcs(Lib({kind}))>>, <<B(2, 1, 1), H(3, 1, 1)>>), scripts, GenNodes)>>,
    <<Scripted(Pkg(1, Static, <<B(3, 2, 2)>>), scripts, << >>)>>,
    <<Pkg(1, Static, << >>), Pkg(2, <<Lib({"static", "shared"})>>, << >>)>>>>
BuildWorlds ==
  {[World(deps, ScriptIndex(scripts, kind)) EXCEPT
      !.root.libs = libs, !.root.bins = Bins, !.root.scripts = own, !.root.nodes = GenNodes] :
     deps \in {<<P(1, 1, 1)>>, <<P(2, 1, 1), B(1, 1, 1)>>, <<P(1, 1, 1), T(2, 1, 1)>>},
     scripts \in {{"build"}, {"configure", "build"}}, kind \in {"static", "shared"},
     libs \in RootLibs, own \in {{}, {"configure", "build"}}}

Base == CHOOSE w \in BuildWorlds : w.root.scripts = {"configure", "build"}
OddBuilds ==
  {[Base EXCEPT !.selection = s] :
     s \in {[exe |-> [all |-> FALSE, names |-> {"app"}]], [script |-> [all |-> TRUE, names |-> {}]],
            [lib |-> [all |-> FALSE, names |-> {"none"}]],
            [test |-> [all |-> FALSE, names |-> {"app"}], exe |-> [all |-> FALSE, names |-> {"app"}]]}}
  \cup {[Base EXCEPT !.misconfigured = TRUE], [Base EXCEPT !.no_cxx = TRUE], [Base EXCEPT !.host = "windows"],
        [Base EXCEPT !.root.libs = <<[GatedSrcs(RLib("core", {"static"}, << >>)) EXCEPT !.srcs = {[src |-> "cxx", when |-> {}]}]>>,
                     !.no_cxx = TRUE],
        [Base EXCEPT !.profile.facts.os = "windows"],
        [Base EXCEPT !.root.bins = Append(@, Bin("store", "exe", << >>))],
        [Base EXCEPT !.root.bins = Append(@, Bin("app", "test", << >>))],
        [Base EXCEPT !.root.bins = Append(@, Bin("x", "exe", <<"nowhere">>))],
        [Base EXCEPT !.root.bins = Append(@, Bin("x", "exe", <<PkgNames[Base.root.deps[1].name]>>))],
        [Base EXCEPT !.root.libs = <<RLib("core", {"shared"}, << >>)>>, !.profile.linkage = "static"],
        [Base EXCEPT !.root.libs = <<[RLib("core", {"static"}, << >>) EXCEPT !.no_link = TRUE, !.embed = "file"]>>]}

(* Diamonds over private edges, and packages that are built twice.         *)
Hide(d) == [d EXCEPT !.private = TRUE]
SameLib(pkg) == [pkg EXCEPT !.libs[1].name = "same"]
Twice == [World(<<F(4), F(5), P(3, 2, 2)>>, <<Plain[1], Plain[2], <<Pkg(1, Static, << >>), Pkg(2, Static, << >>)>>>>)
          EXCEPT !.files = (4 :> Named(Pkg(1, Shared, <<Hide(F(5)), H(3, 1, 1)>>), 4)) @@
                           (5 :> Named(Pkg(1, Static, <<P(3, 1, 2)>>), 5))]
Diamonds ==
  {[World(<<P(1, 1, 1), P(2, 1, 1)>>,
          <<<<Pkg(1, Static, <<a>>)>>, <<Pkg(1, Static, <<b>>)>>, <<Pkg(1, Static, << >>)>>>>) EXCEPT
      !.root.libs = <<RLib("core", {"shared"}, << >>)>>] : a, b \in {P(3, 1, 1), H(3, 1, 1)}}
  \cup {Twice,
        [World(<<P(1, 1, 1), P(2, 1, 1)>>, <<<<Pkg(1, Shared, << >>)>>, <<Pkg(1, Shared, << >>)>>>>) EXCEPT
           !.index[1][1] = SameLib(@), !.index[2][1] = SameLib(@)]}

MCWorlds == Diamonds \cup BuildWorlds \cup OddBuilds \cup VersionWorlds \cup OptionWorlds \cup OddWorlds
(* The worlds of the disagreement about store paths.                        *)
StoreWorlds == {w \in OptionWorlds : DOMAIN w.config # {}}
MCTies == {"true", "false"}
Spec == InitPipeline /\ [][NextPipeline]_pipelineVars
=============================================================================
