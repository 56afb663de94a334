------------------------------- MODULE MCFront -------------------------------
(***************************************************************************)
(* What happens to text and to choices before a build runs, and the        *)
(* command lines that come of it: profiles and toolchains, then the        *)
(* compiler; manifests; edits of a manifest; requirements and the lock     *)
(* file; dependency files; and the installer.  They share no state, so     *)
(* each behaviour is of one of them and the others rest.                   *)
(***************************************************************************)
EXTENDS Compiler, Manifest, TomlEdit, Versions, Depfile, Installer

VARIABLE part
vars == <<part, setup, command, manifest, tomlVars, versionVars, dep, installVars>>

T(a,o,b) == Triple(a,o,b)

MCHosts == {T("x64","linux","gnu"), T("arm64","linux","musl"), T("x64","windows",""), T("arm64","macos","apple")}
MCSdks == {[macos |-> FALSE, msvc |-> {}], [macos |-> TRUE, msvc |-> {"x64"}]}
Tgt(t, sdkd, san) == [triple |-> t, sdk |-> sdkd, sanitizers |-> san]
D(n, dr, src, hosts, targets, hr) == [name |-> n, driver |-> dr, lld |-> n = "lld", source |-> src, hosts |-> hosts, targets |-> targets, host_row |-> hr]
MCDecls == << D("gcc", "gcc", "local", {}, <<>>, TRUE), D("clang", "clang", "local", {}, <<>>, TRUE),
  D("zig", "zig", "distribution", {T("x64","linux",""), T("x64","windows","")},
    <<Tgt(T("x64","linux","gnu"),FALSE,{"undefined"}), Tgt(T("x64","linux","musl"),FALSE,{"undefined"}), Tgt(T("x64","windows","gnu"),FALSE,{}),
      Tgt(T("x64","windows","msvc"),FALSE,{}), Tgt(T("arm64","macos","apple"),TRUE,{}), Tgt(T("wasm32","wasi","musl"),FALSE,{})>>, FALSE),
  D("msvc", "msvc", "detected", {}, <<Tgt(T("x64","windows","msvc"),FALSE,{}), Tgt(T("arm64","windows","msvc"),FALSE,{})>>, FALSE),
  D("clang", "clang", "local", {}, <<Tgt(T("x64","linux","gnu"),FALSE,{"address"})>>, TRUE) >>
MCNames == {<<>>, Named("debug"), Named("mine"), Named("shared"), Named("other"), <<<<"a">>,<<"b">>>>, <<<<"x64","linux","gnu">>>>}
G(oses, v) == [oses |-> oses, value |-> v]
MCDeclared == (Named("default") :> [NoDecl EXCEPT !.abi = <<G({"linux"}, "musl"), G({"windows"}, "gnu")>>]) @@
              (Named("mine") :> [NoDecl EXCEPT !.libc = <<G({"linux"}, "static")>>, !.runtime = <<G({"windows"},"shared")>>, !.sanitizers = {"undefined"}]) @@
              (Named("shared") :> [NoDecl EXCEPT !.linkage = <<G(Oses, "shared")>>, !.libc = <<G({"linux"}, "static")>>, !.ref = <<G({"linux"}, "zig")>>])
MCOverrides == {Layer} \cup {[Layer EXCEPT !.os = os, !.abi = abi] : os \in Oses, abi \in {"", "gnu", "msvc", "bare"}}
   \cup {[Layer EXCEPT !.arch = "arm64"], [Layer EXCEPT !.os = "macos", !.arch = "arm64"], [Layer EXCEPT !.os = "wasi", !.arch = "wasm32"], [Layer EXCEPT !.sanitizers = {"address"}, !.mode = "release"], [Layer EXCEPT !.sanitizers_set = TRUE], [Layer EXCEPT !.abi = "musl"]}

Work(lang, kind) == [lang |-> lang, kind |-> kind, opt |-> "none", std |-> "none", no_exceptions |-> FALSE, define |-> <<>>, args |-> <<<<"mine">>>>, scripts |-> <<>>, frameworks |-> <<>>, whole |-> <<>>, libs |-> <<"m">>, min_os |-> FALSE, windowed |-> FALSE]
MCWorks == {Work("c","exe"), [Work("cxx","exe") EXCEPT !.windowed = TRUE, !.frameworks = <<"F">>, !.min_os = TRUE, !.opt = "2", !.whole = <<"p">>],
  [Work("c","exe") EXCEPT !.scripts = <<"ld">>, !.opt = "s", !.std = "c11"], Work("asm", "exe"), [Work("c", "static") EXCEPT !.opt = "0"],
  [Work("cxx","shared") EXCEPT !.whole = <<"p", "q">>, !.std = "c++23", !.no_exceptions = TRUE, !.define = <<"X">>], [Work("c","reactor") EXCEPT !.whole = <<"p">>]}
MCMembers == <<"m1", "p">>

(* A manifest with one of everything, and what may be wrong with it.       *)
Clause(key, value) == [key |-> key, value |-> value, negated |-> FALSE]
OnLinux == <<Clause("os", <<"str", "linux">>)>>
WithTls == <<Clause("tls", <<"bool", TRUE>>)>>
Src(path, when) == [path |-> path, tree |-> "manifest", when |-> when]
Val(value, when) == [value |-> value, when |-> when]
Script(source) == [source |-> source, include |-> <<>>, define |-> <<>>, flags |-> <<>>]
Target8(name) == [name |-> <<name>>, kinds |-> {}, link |-> "", standard |-> "c11", subsystem |-> "",
  paths |-> [source |-> <<Src(<<"a.c">>, <<>>)>>, headers |-> <<>>, include |-> <<Src(<<".">>, OnLinux)>>, linker_script |-> <<>>],
  values |-> [define |-> <<Val("D", WithTls)>>, flags |-> <<>>, link_flags |-> <<>>, system_deps |-> <<>>, frameworks |-> <<>>],
  deps |-> <<>>, embed |-> <<[path |-> <<"e">>, dest |-> <<>>, tree |-> "source", when |-> <<>>]>>]
Row8(t) == [kind |-> "", triple |-> t, sdk |-> <<>>, sanitizers |-> {}]
Cc8 == [name |-> "cross", driver |-> "gcc", linker |-> "", detect |-> "", hosts |-> <<[known |-> TRUE, url |-> TRUE, sha |-> TRUE]>>,
  programs |-> [compiler |-> <<"bin", "cc">>, cxx |-> <<>>, archiver |-> <<"ar">>], targets |-> <<Row8(T("x64", "linux", "gnu")), [Row8(T("", "", "")) EXCEPT !.kind = "host"]>>]
BaseManifest ==
  [package |-> [name |-> <<"p">>, namespace |-> <<"core">>, version |-> TRUE,
      gated |-> [include |-> <<Src(<<"inc">>, <<>>)>>, define |-> <<Val("P", WithTls)>>, system_deps |-> <<>>, frameworks |-> <<>>],
      build |-> Script(<<Src(<<"build.c">>, OnLinux)>>), configure |-> Script(<<>>)],
   publish |-> <<[from |-> <<"source", "h">>, to |-> <<"include", "h">>, when |-> <<>>]>>,
   targets |-> [lib |-> <<[Target8("l") EXCEPT !.kinds = {"static", "shared"}, !.values.link_flags = <<Val("L", <<>>)>>]>>, bin |-> <<Target8("b")>>, script |-> <<>>,
                test |-> <<Target8("t")>>, example |-> <<>>],
   toolchains |-> <<Cc8>>,
   profiles |-> <<[name |-> <<"fast">>, os |-> "linux", arch |-> "", lists |-> [abi |-> <<Val("musl", OnLinux), Val("gnu", <<>>)>>, linkage |-> <<Val("static", <<>>)>>, ref |-> <<>>],
                   sanitize |-> {"address", "undefined"}, options |-> WithTls]>>,
   indexes |-> <<[name |-> "i", url |-> "u", path |-> "", rev |-> "", protocol |-> ""]>>,
   deps |-> <<[name |-> <<"core", "z">>, kind |-> "test", path |-> FALSE, version |-> "range", when |-> WithTls],
              [name |-> <<"y">>, kind |-> "package", path |-> TRUE, version |-> "", when |-> <<>>]>>,
   options |-> <<[name |-> "tls", type |-> "bool", values |-> {}, define |-> TRUE, additive |-> "yes", public |-> "yes", defaults |-> <<Val(<<"bool", TRUE>>, OnLinux)>>],
                 [name |-> "impl", type |-> "enum", values |-> {"a", "b"}, define |-> FALSE, additive |-> "", public |-> "", defaults |-> <<>>]>>,
   config |-> <<[name |-> "z", options |-> WithTls, defaults |-> "no", kind |-> ""]>>,
   patches |-> <<>>]
BadClauses == {<<Clause("tls", <<"str", "yes">>)>>, <<Clause("impl", <<"str", "c">>)>>, <<Clause("impl", <<"str", "a">>)>>, <<Clause("nope", <<"bool", TRUE>>)>>,
               <<Clause("os", <<"str", "beos">>)>>, <<Clause("sanitize_leak", <<"str", "on">>)>>}
Fields(m) ==
  LET bin == [m EXCEPT !.targets["bin"][1] = [@ EXCEPT !.name = <<"t">>]]
  IN  {bin, [m EXCEPT !.targets["script"] = <<Target8("b")>>], [m EXCEPT !.targets["bin"][1].paths["source"] = <<Src(<<"..", "a">>, <<>>)>>],
       [m EXCEPT !.targets["bin"][1].paths["include"] = <<Src(<<"/", "usr">>, <<>>)>>], [m EXCEPT !.targets["lib"][1].kinds = {"object", "static"}],
       [m EXCEPT !.targets["lib"][1].kinds = {"object"}], [m EXCEPT !.targets["bin"][1].link = "no"], [m EXCEPT !.targets["bin"][1].standard = "bad"],
       [m EXCEPT !.targets["bin"][1].subsystem = "bad"], [m EXCEPT !.targets["bin"][1].embed[1].dest = <<"">>], [m EXCEPT !.targets["bin"][1].embed[1].tree = "bad"],
       [m EXCEPT !.package.version = FALSE], [m EXCEPT !.package.name = <<"p", "q">>], [m EXCEPT !.package.configure.source = <<Src(<<"a.cpp">>, <<>>)>>],
       [m EXCEPT !.publish[1].from = <<"source">>], [m EXCEPT !.publish[1].from = <<"store", "h">>], [m EXCEPT !.publish[1].to = <<"lib", "h">>],
       [m EXCEPT !.indexes[1].path = "d"], [m EXCEPT !.indexes[1].url = ""], [m EXCEPT !.indexes[1].protocol = "dir"], [m EXCEPT !.indexes = @ \o @],
       [m EXCEPT !.deps[1].path = TRUE], [m EXCEPT !.deps[1].version = "junk"], [m EXCEPT !.deps[2].name = <<"a", "b", "c">>],
       [m EXCEPT !.patches = <<[name |-> <<"z">>, files |-> {"f"}]>>], [m EXCEPT !.patches = <<[name |-> <<"z">>, files |-> {"gone"}]>>],
       [m EXCEPT !.patches = <<[name |-> <<"z">>, files |-> {"f"}], [name |-> <<"core", "z">>, files |-> {"f"}]>>], [m EXCEPT !.patches = <<[name |-> <<"z">>, files |-> {}]>>],
       [m EXCEPT !.options[1].type = ""], [m EXCEPT !.options[2].values = {}], [m EXCEPT !.options[2].define = TRUE], [m EXCEPT !.options[1].define = FALSE],
       [m EXCEPT !.options[1].name = "os"], [m EXCEPT !.options[1].values = {"a"}], [m EXCEPT !.options[2].additive = "no"], [m EXCEPT !.options[2].defaults = <<Val(<<"str", "c">>, <<>>)>>],
       [m EXCEPT !.profiles[1].os = "bad"], [m EXCEPT !.profiles[1].sanitize = {"address", "thread"}], [m EXCEPT !.profiles[1].lists["linkage"] = <<Val("object", <<>>)>>],
       [m EXCEPT !.profiles[1].lists["abi"] = <<Val("gnu", <<>>), Val("musl", OnLinux)>>], [m EXCEPT !.profiles[1].lists["abi"][1].when = WithTls],
       [m EXCEPT !.profiles[1].options[1].negated = TRUE]}
Toolchain8(m) ==
  {[m EXCEPT !.toolchains = @ \o @], [m EXCEPT !.toolchains[1].name = ""], [m EXCEPT !.toolchains[1].name = "auto"], [m EXCEPT !.toolchains[1].driver = ""],
   [m EXCEPT !.toolchains[1].driver = "msvc"], [m EXCEPT !.toolchains[1].linker = "lld"], [m EXCEPT !.toolchains[1].linker = "gnu"], [m EXCEPT !.toolchains[1].detect = "msvc"],
   [m EXCEPT !.toolchains[1].detect = "none", !.toolchains[1].hosts = <<>>], [m EXCEPT !.toolchains[1].hosts[1].sha = FALSE], [m EXCEPT !.toolchains[1].hosts[1].url = FALSE],
   [m EXCEPT !.toolchains[1].hosts = @ \o <<[known |-> TRUE, url |-> FALSE, sha |-> FALSE]>>], [m EXCEPT !.toolchains[1].hosts[1].known = FALSE], [m EXCEPT !.toolchains[1].hosts = <<>>],
   [m EXCEPT !.toolchains[1].programs["compiler"] = <<>>], [m EXCEPT !.toolchains[1].programs["cxx"] = <<"/", "c++">>], [m EXCEPT !.toolchains[1].programs["cxx"] = <<"..">>],
   [m EXCEPT !.toolchains[1].targets[2].kind = "guest"], [m EXCEPT !.toolchains[1].targets = @ \o <<@[2]>>], [m EXCEPT !.toolchains[1].targets = @ \o <<@[1]>>]}
  \cup {[m EXCEPT !.toolchains[1].targets[1].triple = t] : t \in {T("", "linux", "gnu"), T("x64", "", ""), T("x64", "linux", ""), T("wasm32", "linux", "gnu"), T("x64", "linux", "msvc"), T("x64", "macos", ""), T("x64", "windows", "msvc")}}
  \cup {[m EXCEPT !.toolchains[1].targets[1].sdk = path] : path \in {<<"sdk">>, <<"..">>}} \cup {[m EXCEPT !.toolchains[1].targets[1].triple = T("x64", "freestanding", "elf"), !.toolchains[1].targets[1].sanitizers = {"address"}]}
Conditions(m) ==
  UNION {{[m EXCEPT !.deps[1].when = w], [m EXCEPT !.targets["bin"][1].paths["source"][1].when = w], [m EXCEPT !.package.build.source[1].when = w],
          [m EXCEPT !.publish[1].when = w], [m EXCEPT !.options[1].defaults[1].when = w], [m EXCEPT !.profiles[1].options = w], [m EXCEPT !.package.gated.define[1].when = w]} : w \in BadClauses}
MCManifests == LET one == {BaseManifest} \cup Fields(BaseManifest) \cup Toolchain8(BaseManifest) \cup Conditions(BaseManifest) IN one \cup UNION {Fields(m) : m \in Fields(BaseManifest) \cup Conditions(BaseManifest)}

Line(ts) == Append(ts, Nl)
Pair(ks, v) == Line(spn_toml_edit_write_key_path(ks) \o <<P("=")>> \o v)
Header(ks) == Line(<<P("[")>> \o spn_toml_edit_write_key_path(ks) \o <<P("]")>>)
MCLines == { Header(<<"deps">>), Header(<<"deps", "package">>), Header(<<"deps", "package", "a">>),
   Line(<<P("["), P("["), W("index"), P("]"), P("]")>>),
   Pair(<<"package", "a">>, <<S("1")>>), Pair(<<"a">>, <<S("1")>>), Pair(<<"a", "path">>, <<S("p")>>),
   Line(<<W("package"), P("="), P("{"), P("}"), Comment>>),
   Line(<<W("package"), P("="), P("{"), W("a"), P("="), P("{"), W("optional"), P("="), W("true"), P("}"), P("}")>>),
   Pair(<<"core/a">>, <<S("1")>>), Pair(<<"include">>, <<P("["), S("x"), Comment, Nl, P("]")>>),
   Pair(<<"deps", "package", "b">>, <<S("3")>>), <<Nl>>, Line(<<Comment>>) }
MCAddNames == { [text |-> "a", canonical |-> "core/a", qualified |-> FALSE], [text |-> "core/a", canonical |-> "core/a", qualified |-> TRUE],
                [text |-> "b", canonical |-> "core/b", qualified |-> FALSE] }
MCReleases == [x \in {"core/a", "core/b"} |-> IF x = "core/a" THEN <<[version |-> "1", yanked |-> FALSE], [version |-> "2", yanked |-> FALSE], [version |-> "3", yanked |-> TRUE]>> ELSE <<>>]
MCRanges == [x \in {"", "1", "3"} |-> IF x = "" THEN {"1", "2", "3"} ELSE {x}]

Empty(os) == [os |-> os, exe |-> "none", env |-> "none", fish_dir |-> FALSE, fish_conf |-> "none", exists |-> {}, lines |-> [f \in Files |-> 0], unseen |-> {}, github |-> FALSE,
              registry |-> [kind |-> "none", path |-> <<>>]]
MCHomes == {[Empty("unix") EXCEPT !.exists = {"bashrc", "other"}, !.fish_dir = TRUE], [Empty("unix") EXCEPT !.exe = "old", !.env = "stale", !.exists = {"zshrc"}],
   [Empty("windows") EXCEPT !.registry = [kind |-> "expand", path |-> <<"user">>]], Empty("windows")}
Sighted == [links |-> {}, unread |-> {}]
SightedWorlds == [home_set : BOOLEAN, login : {"zsh", "nu"}, on_path : BOOLEAN, github : BOOLEAN, no_modify : BOOLEAN, shadow : BOOLEAN, own : BOOLEAN, unread : BOOLEAN, blind : {Sighted}]
MCSurroundings == SightedWorlds \cup
  {[w EXCEPT !.blind = [links |-> {"zshenv"}, unread |-> {"bashrc", "other", "env"}]] :
     w \in {v \in SightedWorlds : v.home_set /\ v.own /\ v.login = "zsh" /\ ~v.on_path /\ ~v.github /\ ~v.no_modify /\ ~v.shadow /\ ~v.unread}}

Bodies == UNION {[1..n -> Digits \cup {".", "*"}] : n \in 0..5}
MCTexts == {pre \o b : pre \in {<<>>, <<"^">>, <<"~">>, <<"<">>, <<">", "=">>, <<"=">>, <<" ">>}, b \in Bodies} \cup {<<c, "=">> \o spn_semver_to_str(v) \o <<" ">> : c \in {"<", ">"}, v \in AllVersions}
   \cup {<<">", " ">> \o spn_semver_to_str(v) : v \in AllVersions}
Git(u, r, d) == [url |-> u, rev |-> r, dir |-> d]
Pk(n, v, s, deps, g) == [name |-> n, version |-> v, source |-> s, deps |-> deps, git |-> g, manifest_file |-> "spn.toml"]
MCResolves == {{}, {Pk("r", Zero, "root", {"a"}, Git("", "", "")), Pk("a", <<1, 0, 0>>, "index", {"b"}, Git("u", "1", "")), Pk("b", <<0, 1, 1>>, "file", {}, Git("", "", ""))},
   {Pk("a", <<1, 0, 0>>, "index", {"b"}, Git("u", "1", "")), Pk("a", <<0, 1, 0>>, "index", {}, Git("u", "0", "sub")), Pk("b", <<1, 1, 1>>, "index", {"a"}, Git("", "", ""))}}

Over(Alphabet, n) == UNION {[1..k -> Alphabet] : k \in 1..n}
MCHeaders == {s \in Over({"x", " ", "\\", "#", "$"}, 2) : s[Len(s)] # "\\"}
             \cup {<<"\\", "\\", " ">>, <<"\\", " ", "x">>, <<"\\", "\\", "#">>, <<"$", "\\", "$">>, <<"x", "x", "x", "x">>}
MCWords == Over({"x", " ", "\\", "#", "\"", "'"}, 2) \cup {<<>>}

-----------------------------------------------------------------------------
(* A part that rests stays in one state, in which its properties hold.     *)
Rests == [stage |-> "rest"]
NoAddition == [name |-> [text |-> "", canonical |-> "", qualified |-> FALSE], path |-> <<>>, value |-> "", err |-> "none", before |-> <<>>, count |-> 0]
NoLock == [resolve |-> {}, file |-> {}, loaded |-> {}, dependents |-> <<>>]
Init ==
  /\ part \in {"setup", "manifest", "toml", "version", "dep", "install"}
  /\ CommandInit
  /\ IF part = "setup" THEN SetupInit ELSE setup = Rests
  /\ IF part = "manifest" THEN ManifestInit ELSE manifest = Rests
  /\ IF part = "toml" THEN TomlInit ELSE (doc = <<Nl>> /\ addition = NoAddition)
  /\ IF part = "version" THEN VersionInit ELSE (text = <<"x">> /\ lock = NoLock)
  /\ IF part = "dep" THEN DepInit ELSE dep = [done |-> FALSE, names |-> <<"rest">>]
  /\ IF part = "install" THEN InstallInit ELSE (home = Empty("windows") /\ install = Idle(0))

OfSetup == part = "setup" /\ ((SetupNext /\ UNCHANGED command) \/ CommandNext) /\ UNCHANGED <<part, manifest, tomlVars, versionVars, dep, installVars>>
OfManifest == part = "manifest" /\ ManifestNext /\ UNCHANGED <<part, setup, tomlVars, versionVars, dep, installVars, command>>
OfToml == part = "toml" /\ TomlNext /\ UNCHANGED <<part, setup, manifest, versionVars, dep, installVars, command>>
OfVersion == part = "version" /\ VersionNext /\ UNCHANGED <<part, setup, manifest, tomlVars, dep, installVars, command>>
OfDep == part = "dep" /\ DepNext /\ UNCHANGED <<part, setup, manifest, tomlVars, versionVars, installVars, command>>
OfInstall == part = "install" /\ InstallNext /\ UNCHANGED <<part, setup, manifest, tomlVars, versionVars, dep, command>>
Next == OfSetup \/ OfManifest \/ OfToml \/ OfVersion \/ OfDep \/ OfInstall

Spec == Init /\ [][Next]_vars

(* Adding a dependency says that and no more, and what is written as a     *)
(* string is read as it.                                                   *)
EditsSound == EditSound /\ StringsRead
=============================================================================
