----------------------------- MODULE Toolchains -----------------------------
(***************************************************************************)
(* From a profile to a toolchain (core/profile/profile.c, core/triple,     *)
(* core/toolchain/{toolchain,sdk,catalog,linker,select}.c): the layers of  *)
(* a profile are merged, each libc the target may have is asked for a way  *)
(* to link, and the first toolchain with a row for one of these is taken.  *)
(* An unset field is "".  A triple is [arch, os, abi].                     *)
(***************************************************************************)
EXTENDS Naturals, Sequences, SequencesExt, FiniteSetsExt

CONSTANTS
  Hosts,      \* host triples
  HostSdks,   \* what may be installed: [macos, msvc], msvc a set of architectures
  Decls,      \* the declared toolchains, in order
  Names,      \* profile names one may ask for: paths, sequences of segments, each a sequence of words
  Declared,   \* name -> the profile's declaration in the manifest
  Overrides,  \* what the command line may set
  Refs        \* toolchains the command line may name

VARIABLE setup   \* [stage, host, sdks, name, base, override, demand, profile, query, result]

-----------------------------------------------------------------------------
Unset == ""
Arches == {"x64", "arm64", "wasm32"}
Oses == {"linux", "windows", "macos", "wasi", "freestanding"}
Abis == {"gnu", "musl", "bare", "msvc", "apple", "elf"}
Triple(arch, os, abi) == [arch |-> arch, os |-> os, abi |-> abi]
Or(x, y) == IF x # Unset THEN x ELSE y

os_abis(os) ==
  CASE os = "linux" -> <<"gnu", "musl", "bare">> [] os = "windows" -> <<"gnu", "msvc">>
    [] os = "macos" -> <<"apple">> [] os = "wasi" -> <<"musl">> [] os = "freestanding" -> <<"bare", "elf">>
spn_os_completions(os) == IF os = "linux" THEN <<"gnu", "musl">> ELSE os_abis(os)
spn_os_archs(os) == IF os = "wasi" THEN <<"wasm32">> ELSE <<"x64", "arm64">>
spn_os_to_native_object_format(os) ==
  CASE os \in {"linux", "freestanding"} -> "elf" [] os = "windows" -> "coff" [] os = "macos" -> "macho" [] os = "wasi" -> "wasm"
spn_triple_dynamic(t) == t.abi # "bare" /\ t.os \in {"linux", "windows", "macos"}
spn_triple_merge(a, b) == Triple(Or(b.arch, a.arch), Or(b.os, a.os), Or(b.abi, a.abi))
spn_triple_match(e, t) == \A f \in {"arch", "os", "abi"} : e[f] \in {Unset, t[f]}

(* spn_triple_entry: what is wrong with a partial triple, or its           *)
(* completion where the system has but one libc.                           *)
spn_triple_entry(t) ==
  CASE t.arch = Unset -> "missing_arch" [] t.arch # Unset /\ t.os = Unset -> "missing_os" [] OTHER ->
  CASE t.arch \notin ToSet(spn_os_archs(t.os)) -> "foreign_arch"
    [] t.arch \in ToSet(spn_os_archs(t.os)) /\ t.abi # Unset /\ t.abi \notin ToSet(os_abis(t.os)) -> "foreign_abi"
    [] t.arch \in ToSet(spn_os_archs(t.os)) /\ t.abi = Unset /\ Len(spn_os_completions(t.os)) # 1 -> "missing_abi"
    [] OTHER -> "ok"
Completed(t) == [t EXCEPT !.abi = Or(@, spn_os_completions(t.os)[1])]

-----------------------------------------------------------------------------
(* Software development kits (sdk.c).                                      *)
spn_sdk_kind(t) ==
  CASE t.abi = "bare" -> "none" [] t.abi # "bare" /\ t.os = "macos" -> "macos"
    [] t.os = "windows" /\ t.abi = "msvc" -> "msvc" [] OTHER -> "sysroot"
spn_sdk_from_host(sdks, t) ==
  CASE spn_sdk_kind(t) = "macos" /\ sdks.macos -> "macos" [] spn_sdk_kind(t) = "msvc" /\ t.arch \in sdks.msvc -> "msvc" [] OTHER -> "none"
spn_sdk_default(sdks, t) == spn_sdk_kind(t) = "msvc" => spn_sdk_from_host(sdks, t) # "none"
spn_sdk_served(sdks, host, t) ==
  CASE spn_sdk_kind(t) = "none" -> TRUE [] spn_sdk_kind(t) = "sysroot" -> t = host [] OTHER -> spn_sdk_from_host(sdks, t) # "none"

-----------------------------------------------------------------------------
(* What a compiler driver can do (toolchain.c).                            *)
spn_toolchain_driver_caps(driver) ==
  CASE driver = "gcc" -> {"fuse_ld", "bare", "gnu_runtime"}
    [] driver = "clang" -> {"target_triple", "llvm_triple", "clang_frontend", "fuse_ld", "gnu_runtime"}
    [] driver = "zig" -> {"target_triple", "clang_frontend", "codeview", "libc_file", "default_ubsan", "bare"}
    [] driver = "msvc" -> {}
spn_toolchain_driver_retargets(driver) == "target_triple" \in spn_toolchain_driver_caps(driver)
spn_toolchain_stock_sanitizers(driver, t) ==
  CASE driver = "gcc" /\ t.os = "linux" /\ t.abi # "musl" -> {"address", "thread", "undefined", "leak"}
    [] driver = "gcc" /\ t.os = "macos" -> {"address", "thread", "undefined"}
    [] driver = "clang" /\ t.os = "linux" -> {"address", "thread", "undefined", "memory", "leak"}
    [] driver = "clang" /\ t.os = "macos" -> {"address", "thread", "undefined", "leak"}
    [] OTHER -> {}
spn_default_abi(driver, os) ==
  CASE os = "macos" -> "apple" [] os = "wasi" -> "musl"
    [] os = "windows" /\ driver \in {"gcc", "zig"} -> "gnu" [] os = "windows" /\ driver = "msvc" -> "msvc" [] OTHER -> Unset
spn_ld_dialect(t) ==
  CASE t.os \in {"linux", "freestanding"} -> "gnu" [] t.os = "macos" -> "darwin" [] t.os = "wasi" -> "wasm"
    [] t.os = "windows" -> IF t.abi = "msvc" THEN "link" ELSE "gnu"
spn_toolchain_driver_composes(driver, dialect) ==
  CASE driver = "gcc" -> dialect \in {"gnu", "darwin"} [] driver = "msvc" -> dialect = "link" [] driver \in {"clang", "zig"} -> TRUE
spn_ld_native(driver, t) ==
  IF driver = "zig" THEN "lld"
  ELSE CASE spn_ld_dialect(t) = "gnu" -> "gnu" [] spn_ld_dialect(t) = "link" -> "msvc"
         [] spn_ld_dialect(t) = "darwin" -> "ld64" [] spn_ld_dialect(t) = "wasm" -> "lld"

-----------------------------------------------------------------------------
(* How a target can be linked (linker.c): rows of [runtime, libc], in the  *)
(* order of preference.                                                    *)
Link(runtime, libc) == [runtime |-> runtime, libc |-> libc]
LinkTable(t) ==
  CASE t.os = "linux" /\ t.abi = "gnu" -> <<Link("shared", "shared"), Link("static", "shared")>>
    [] t.os = "linux" /\ t.abi = "musl" -> <<Link("static", "static"), Link("static", "shared"), Link("shared", "shared")>>
    [] t.os = "windows" /\ t.abi = "msvc" -> <<Link("static", "static"), Link("shared", "shared")>>
    [] t.os = "windows" /\ t.abi = "gnu" -> <<Link("static", "shared"), Link("shared", "shared")>>
    [] t.os = "macos" -> <<Link("shared", "shared")>>
    [] t.os \in {"wasi", "freestanding"} \/ (t.os = "linux" /\ t.abi = "bare") -> <<Link("static", "static")>>
spn_ld_loader(t, l) == spn_triple_dynamic(t) /\ ~(spn_os_to_native_object_format(t.os) = "elf" /\ l.libc = "static")

(* As Fits, for a table search that forgets libc: for a mutant.            *)
FitsRuntime(t, row, r) ==
  /\ r.runtime \in {Unset, row.runtime}
  /\ r.linkage = "shared" => spn_ld_loader(t, row)
Fits(t, row, r) ==
  /\ r.runtime \in {Unset, row.runtime} /\ r.libc \in {Unset, row.libc}
  /\ r.linkage = "shared" => spn_ld_loader(t, row)
serving(t, r) == {i \in DOMAIN LinkTable(t) : Fits(t, LinkTable(t)[i], r)}
links(t, r) == serving(t, r) # {}
Request(linkage, runtime, libc) == [linkage |-> linkage, runtime |-> runtime, libc |-> libc]
spn_ld_linking(t, r) ==
  IF links(t, r)
  THEN LET row == LinkTable(t)[Min(serving(t, r))]   \* the first
       IN  [refusal |-> "none", runtime |-> row.runtime, libc |-> row.libc,
            linkage |-> Or(r.linkage, IF spn_ld_loader(t, row) THEN "shared" ELSE "static")]
  ELSE [refusal |->
          CASE ~links(t, Request("shared", Unset, Unset)) -> "no_loader"
            [] OTHER ->
          CASE r.libc = "static" /\ ~links(t, Request(Unset, Unset, "static")) -> "os_libc"
            [] OTHER ->
          CASE r.runtime = "static" /\ ~links(t, Request(Unset, "static", Unset)) -> "os_runtime"
            [] OTHER ->
          CASE r.libc = "static" /\ r.runtime = "shared" -> "shared_runtime"
            [] OTHER ->
          IF r.runtime # Unset /\ r.libc # Unset /\ r.runtime # r.libc THEN "hybrid_crt" ELSE "shared_deps"]

-----------------------------------------------------------------------------
(* The catalog (catalog.c): each declaration bound to the host.  A row is  *)
(* [triple, sdk, sanitizers]; of two rows of a triple the first is kept.   *)
Row(t, sdk, sanitizers) == [triple |-> t, sdk |-> sdk, sanitizers |-> sanitizers]
Bindings(rows, unserved) == [rows |-> rows, unserved |-> unserved]
has_row(rows, t) == \E row \in rows : row.triple = t
push_row(lists) == UNION {{row \in lists[n] : \A m \in 1..(n - 1) : ~has_row(lists[m], row.triple)} : n \in DOMAIN lists}
bind_target(sdks, targets) ==
  LET bound == {i \in DOMAIN targets : targets[i].sdk \/ spn_sdk_default(sdks, targets[i].triple)}
      firsts == {i \in bound : \A j \in bound : targets[j].triple = targets[i].triple => i <= j}
      sdk(target) == IF target.sdk THEN spn_sdk_kind(target.triple) ELSE spn_sdk_from_host(sdks, target.triple)
  IN  Bindings({Row(targets[i].triple, sdk(targets[i]), targets[i].sanitizers) : i \in firsts}, {targets[i].triple : i \in DOMAIN targets \ bound})
push_stock(listed, sdks, host, driver) ==
  LET own == [host EXCEPT !.abi = Or(@, spn_default_abi(driver, host.os))]
      stock == [triple |-> own, sdk |-> FALSE, sanitizers |-> spn_toolchain_stock_sanitizers(driver, own)]
      declared == has_row(listed.rows, own) \/ own \in listed.unserved
  IN  IF own.abi = Unset \/ ~spn_toolchain_driver_composes(driver, spn_ld_dialect(own)) \/ declared THEN Bindings({}, {})
      ELSE bind_target(sdks, <<stock>>)
push_bare(host, driver) ==
  IF "bare" \in spn_toolchain_driver_caps(driver) /\ spn_os_to_native_object_format(host.os) = "elf"
  THEN {Row(Triple(host.arch, os, "bare"), "none", {}) : os \in {"freestanding", "linux"}} ELSE {}
Hosted ==
  {t \in [arch : Arches, os : {"linux", "macos", "windows"}, abi : Abis] :
     t.arch \in ToSet(spn_os_archs(t.os)) /\ t.abi \in ToSet(spn_os_completions(t.os))}
push_hosted(sdks, host, driver) ==
  {Row(t, spn_sdk_from_host(sdks, t), IF t.os = host.os THEN spn_toolchain_stock_sanitizers(driver, t) ELSE {}) :
     t \in {t \in Hosted : spn_toolchain_driver_retargets(driver) /\ spn_sdk_served(sdks, host, t)}}
bind_rows(decl, sdks, host) ==
  LET listed == bind_target(sdks, decl.targets)
      stock == push_stock(listed, sdks, host, decl.driver)
  IN  IF ~decl.host_row THEN listed
      ELSE Bindings(push_row(<<listed.rows, stock.rows, push_bare(host, decl.driver), push_hosted(sdks, host, decl.driver)>>),
                    listed.unserved \cup stock.unserved)
bind_support(decl, sdks, host) ==
  CASE decl.source = "local" -> IF decl.hosts = {} \/ \E h \in decl.hosts : spn_triple_match(h, host) THEN "local" ELSE "unavailable_for_host"
    [] decl.source = "distribution" -> IF \E h \in decl.hosts : spn_triple_match(h, host) THEN "artifact" ELSE "unavailable_for_host"
    [] decl.source = "detected" -> IF sdks.msvc = {} THEN "not_installed" ELSE "detected"
(* An entry of a name keeps the place of its first declaration, and says   *)
(* what the last one does.                                                 *)
bind_toolchain(decl, place, sdks, host) ==
  LET bound == bind_rows(decl, sdks, host)
  IN  [name |-> decl.name, driver |-> decl.driver, lld |-> decl.lld, place |-> place, rows |-> bound.rows, unserved |-> bound.unserved,
       support |-> bind_support(decl, sdks, host)]
spn_toolchain_catalog_add(sdks, host) ==
  LET declares(n) == {i \in DOMAIN Decls : Decls[i].name = n}
  IN  {bind_toolchain(Decls[Max(declares(n))], Min(declares(n)), sdks, host) : n \in {Decls[i].name : i \in DOMAIN Decls}}

-----------------------------------------------------------------------------
(* Selection (select.c).  A query is [target, sanitizers, ref, candidates],*)
(* a candidate [triple, linking, place]: its place in the order of         *)
(* preference, which settles what nothing else does.                       *)
usable(info) == info.support \in {"local", "artifact", "detected"}
Reaches == <<"unserved", "unlisted", "dropped", "sanitizers", "ok">>
Rank(reach) == CHOOSE i \in DOMAIN Reaches : Reaches[i] = reach.kind
supports(row, query, c) ==
  LET missing == query.sanitizers \ row.sanitizers
      heavy == query.sanitizers \ {"undefined"}
  IN  [kind |-> IF missing # {} \/ (heavy # {} /\ ~spn_ld_loader(row.triple, c.linking)) THEN "sanitizers" ELSE "ok",
       err |-> IF missing # {} THEN "sanitizer_unsupported" ELSE "sanitizer_static", row |-> row, linking |-> c.linking, place |-> c.place]
absence(sdks, host, info, t) ==
  CASE t \in info.unserved -> "dropped"
    [] t \notin info.unserved /\ spn_toolchain_driver_retargets(info.driver) /\ ~spn_sdk_served(sdks, host, t) -> "unserved"
    [] OTHER -> "unlisted"
sdk_refusal(t) == CASE spn_sdk_kind(t) = "sysroot" -> "sysroot" [] spn_sdk_kind(t) = "macos" -> "sdk_macos" [] spn_sdk_kind(t) = "msvc" -> "sdk_msvc"
attempt(sdks, host, info, query, c) ==
  IF has_row(info.rows, c.triple) THEN supports(CHOOSE row \in info.rows : row.triple = c.triple, query, c)
  ELSE [kind |-> absence(sdks, host, info, c.triple), err |-> "none", row |-> Row(c.triple, "none", {}), linking |-> c.linking, place |-> c.place]
(* The best reach, of the first candidate that has it.                     *)
closer(a, b) == Rank(a) > Rank(b) \/ (Rank(a) = Rank(b) /\ a.place <= b.place)
reach_best(sdks, host, info, query) ==
  LET reaches == {attempt(sdks, host, info, query, c) : c \in query.candidates}
  IN  CHOOSE a \in reaches : \A b \in reaches : closer(a, b)
satisfies(sdks, host, info, query) == usable(info) /\ reach_best(sdks, host, info, query).kind = "ok"

Selected(info, reach) ==
  [err |-> "none", info |-> [name |-> info.name, driver |-> info.driver, lld |-> info.lld, place |-> info.place], row |-> reach.row, linking |-> reach.linking]
Refused(err) == [err |-> err]
emit_reach(reach) ==
  CASE reach.kind = "sanitizers" -> reach.err [] reach.kind \in {"dropped", "unserved"} -> sdk_refusal(reach.row.triple) [] reach.kind = "unlisted" -> "target"
select_auto(sdks, host, query) ==
  LET able == {info \in spn_toolchain_catalog_add(sdks, host) : satisfies(sdks, host, info, query)}
      ok == {Selected(info, reach_best(sdks, host, info, query)) : info \in able}
  IN  IF ok = {} THEN Refused("none_found") ELSE CHOOSE a \in ok : \A b \in ok : a.info.place <= b.info.place
select_named(sdks, host, query) ==
  LET reached(info, reach) == IF reach.kind = "ok" THEN Selected(info, reach) ELSE Refused(emit_reach(reach))
      answer(info) == IF usable(info) THEN reached(info, reach_best(sdks, host, info, query)) ELSE Refused(info.support)
      answers == {answer(info) : info \in {info \in spn_toolchain_catalog_add(sdks, host) : info.name = query.ref}}
  IN  IF answers = {} THEN Refused("unknown") ELSE CHOOSE a \in answers : TRUE
spn_toolchain_select(sdks, host, query) == IF query.ref = "auto" THEN select_auto(sdks, host, query) ELSE select_named(sdks, host, query)

-----------------------------------------------------------------------------
(* Profiles (profile.c).  In a declaration most fields are lists of values *)
(* that hold on some systems, [oses, value].  The standard, the            *)
(* optimization level and the options of a profile are left out: they are  *)
(* layered as the mode is, and nothing here depends on them.               *)
Layer == [os |-> Unset, arch |-> Unset, abi |-> Unset, ref |-> Unset, linkage |-> Unset, runtime |-> Unset, libc |-> Unset,
          mode |-> Unset, sanitizers |-> {}, sanitizers_set |-> FALSE]
NoDecl == [os |-> Unset, arch |-> Unset, abi |-> <<>>, ref |-> <<>>, linkage |-> <<>>, runtime |-> <<>>, libc |-> <<>>,
           mode |-> <<>>, sanitizers |-> {}, sanitizers_set |-> FALSE]
pick(list, os) == LET ok == {i \in DOMAIN list : os \in list[i].oses} IN IF ok = {} THEN Unset ELSE list[Min(ok)].value
evaluate(decl, os) ==
  [decl EXCEPT !.abi = pick(@, os), !.ref = pick(@, os), !.linkage = pick(@, os), !.runtime = pick(@, os), !.libc = pick(@, os), !.mode = pick(@, os)]

overlay_profile(to, from) ==
  LET sanitizes == from.sanitizers_set \/ from.sanitizers # {}
  IN  [os |-> Or(from.os, to.os), arch |-> Or(from.arch, to.arch), abi |-> IF from.os # Unset THEN from.abi ELSE Or(from.abi, to.abi),
       ref |-> Or(from.ref, to.ref), linkage |-> Or(from.linkage, to.linkage), runtime |-> Or(from.runtime, to.runtime),
       libc |-> Or(from.libc, to.libc), mode |-> Or(from.mode, to.mode),
       sanitizers |-> IF sanitizes THEN from.sanitizers ELSE to.sanitizers, sanitizers_set |-> to.sanitizers_set \/ sanitizes]
Named(n) == <<<<n>>>>   \* a path of one segment, of one word
select_name(name, mode) == IF name # <<>> THEN name ELSE IF mode = "release" THEN Named("release") ELSE Named("debug")
builtin_mode(name) == CASE name = Named("release") -> "release" [] name = Named("debug") -> "debug" [] OTHER -> Unset
find_decl(name) == IF name \in DOMAIN Declared THEN Declared[name] ELSE NoDecl
is_builtin(name) == name = Named("default") \/ builtin_mode(name) # Unset
(* A name that reads as a triple, or has a separator in it, is refused.    *)
TripleDirs == Arches \X Oses \X Abis
name_ok(name) == Len(name) = 1 /\ name[1] \notin TripleDirs

Platform(t) == [t EXCEPT !.abi = Unset]
Asks(s) == LET decl(n) == Triple(find_decl(n).arch, find_decl(n).os, Unset)
           IN  spn_triple_merge(spn_triple_merge(spn_triple_merge(Platform(s.host), decl(Named("default"))), decl(s.name)),
                                Triple(s.override.arch, s.override.os, Unset))
Merged(s) ==
  LET layer(name) == evaluate(find_decl(name), Asks(s).os)
      start == [Layer EXCEPT !.ref = "auto", !.mode = "debug"]
      builtin == [Layer EXCEPT !.mode = builtin_mode(s.name)]
  IN  overlay_profile(overlay_profile(overlay_profile(overlay_profile(start, layer(Named("default"))), builtin), layer(s.name)), s.override)
(* spn_profile_resolve.                                                    *)
spn_profile_resolve(s, platform, merged) ==
  LET pinned == [platform EXCEPT !.abi = merged.abi]
      profile == [merged EXCEPT !.os = pinned.os, !.arch = pinned.arch,
                                !.abi = IF spn_triple_entry(pinned) = "ok" THEN Completed(pinned).abi ELSE pinned.abi]
  IN  CASE ~name_ok(s.name) -> Refused("profile_invalid")
        [] name_ok(s.name) /\ s.name \notin DOMAIN Declared /\ ~is_builtin(s.name) -> Refused("profile_undefined")
        [] OTHER ->
      CASE spn_triple_entry(pinned) = "foreign_arch" -> Refused("profile_arch")
        [] spn_triple_entry(pinned) = "foreign_abi" -> Refused("profile_abi")
        [] spn_triple_entry(pinned) = "missing_abi" /\ Platform(pinned) # Platform(s.host) -> Refused("target_abi")
        [] OTHER -> [err |-> "none", profile |-> profile,
                     targeted |-> merged.arch # Unset \/ merged.os # Unset \/ merged.abi # Unset]

spn_profile_build_dir(name, targeted, t) == IF targeted THEN <<<<t.arch, t.os, t.abi>>>> \o name ELSE name

Late == 3   \* more than a system has completions
(* spn_profile_query: the libcs the target may have, the host's first; for *)
(* each a way to link, with the package's demand for shared libraries if   *)
(* there is one; on linux a static musl goes before all others.            *)
spn_profile_query(s) ==
  LET p == s.profile
      completions == spn_os_completions(p.os)
      own == IF p.os = "linux" THEN {s.host.abi} ELSE {}
      abis == IF p.abi # Unset THEN {p.abi} ELSE own \cup ToSet(completions)
      turn(a) == IF a \in own \/ a = p.abi THEN 0 ELSE Min({i \in DOMAIN completions : completions[i] = a})
      request == Request(p.linkage, p.runtime, p.libc)
      demanded == [request EXCEPT !.linkage = Or(@, IF s.demand THEN "shared" ELSE Unset)]
      each == {[triple |-> t, linking |-> spn_ld_linking(t, IF links(t, demanded) THEN demanded ELSE request)] :
                 t \in {Triple(p.arch, p.os, a) : a \in abis}}
      able == {c \in each : c.linking.refusal = "none"}
      lean(c) == p.os = "linux" /\ c.triple.abi = "musl" /\ c.linking.libc = "static"
      place(c) == IF lean(c) THEN turn(c.triple.abi) ELSE Late + turn(c.triple.abi)
  IN  IF able = {} THEN [err |-> "profile_linking", refusals |-> each]
      ELSE [err |-> "none", ref |-> p.ref, sanitizers |-> p.sanitizers,
            candidates |-> {[triple |-> c.triple, linking |-> c.linking, place |-> place(c)] : c \in able}]

(* spn_profile_finalize.                                                   *)
spn_profile_finalize(s) ==
  [s.profile EXCEPT !.abi = s.result.row.triple.abi, !.linkage = s.result.linking.linkage,
                    !.runtime = s.result.linking.runtime, !.libc = s.result.linking.libc, !.ref = s.result.info.name]
Linker(info, t) == IF info.lld THEN "lld" ELSE spn_ld_native(info.driver, t)

(* spn_profile_metaprogram: the profile scripts are built with.            *)
spn_profile_metaprogram ==
  [os |-> "wasi", arch |-> "wasm32", abi |-> "musl", ref |-> "auto", linkage |-> "static", runtime |-> "static", libc |-> "static",
   mode |-> "debug", sanitizers |-> {}, sanitizers_set |-> FALSE]

-----------------------------------------------------------------------------
(* What there is to start from.  spn_triple_host leaves the libc of a      *)
(* windows host open; a row is only lowered for a triple that is real and  *)
(* that the driver can link; the override lifts no way to link.            *)
Runtimes == {Unset, "static", "shared"}
Real(t) == t.os \in Oses /\ t.arch \in ToSet(spn_os_archs(t.os)) /\ t.abi \in ToSet(os_abis(t.os))
Drivers == {"gcc", "clang", "zig", "msvc"}
Lists(S) == Seq([oses : SUBSET Oses, value : S])
DeclTypes ==
  [os : Oses \cup {Unset}, arch : Arches \cup {Unset}, abi : Lists(Abis), ref : Lists(STRING), linkage : Lists({"static", "shared"}),
   runtime : Lists({"static", "shared"}), libc : Lists({"static", "shared"}), mode : Lists(STRING), sanitizers : SUBSET STRING, sanitizers_set : BOOLEAN]
OverrideTypes ==
  [os : Oses \cup {Unset}, arch : Arches \cup {Unset}, abi : Abis \cup {Unset}, ref : STRING, linkage : {Unset}, runtime : {Unset}, libc : {Unset},
   mode : STRING, sanitizers : SUBSET STRING, sanitizers_set : BOOLEAN]
HostsAssumption ==
  \A h \in Hosts : /\ h \in [arch : {"x64", "arm64"}, os : {"linux", "macos", "windows"}, abi : STRING]
                   /\ h.abi \in IF h.os = "windows" THEN {Unset} ELSE ToSet(spn_os_completions(h.os))
DeclsAssumption ==
  /\ Decls \in Seq([name : STRING, driver : Drivers, lld : BOOLEAN, source : {"local", "distribution", "detected"},
                    hosts : SUBSET [arch : STRING, os : STRING, abi : STRING], host_row : BOOLEAN,
                    targets : Seq([triple : [arch : Arches, os : Oses, abi : Abis], sdk : BOOLEAN, sanitizers : SUBSET STRING])])
  /\ \A i \in DOMAIN Decls : \A k \in DOMAIN Decls[i].targets :
       LET t == Decls[i].targets[k].triple IN Real(t) /\ spn_toolchain_driver_composes(Decls[i].driver, spn_ld_dialect(t))
ProfilesAssumption ==
  /\ Names \subseteq Seq(Seq(STRING)) /\ \A n \in DOMAIN Declared : Declared[n] \in DeclTypes
  /\ Overrides \subseteq OverrideTypes /\ Refs \subseteq STRING
ASSUME HostsAssumption
ASSUME DeclsAssumption
ASSUME ProfilesAssumption

SetupInit ==
  \E host \in Hosts, sdks \in HostSdks, name \in Names, override \in Overrides, ref \in Refs, demand \in BOOLEAN :
    setup = [stage |-> "resolve", host |-> host, sdks |-> sdks, name |-> select_name(name, override.mode), override |-> [override EXCEPT !.ref = ref],
             demand |-> demand, profile |-> Layer, targeted |-> FALSE, query |-> <<>>, result |-> Refused("none")]
Fails(stage, err) == setup' = [setup EXCEPT !.stage = stage, !.result = Refused(err)]
Resolve ==
  /\ setup.stage = "resolve"
  /\ \E platform \in {Asks(setup)}, merged \in {Merged(setup)} : \E r \in {spn_profile_resolve(setup, platform, merged)} :
         IF r.err # "none" THEN Fails("refused", r.err)
         ELSE setup' = [setup EXCEPT !.stage = "query", !.profile = r.profile, !.targeted = r.targeted]
Metaprogram == setup.stage = "resolve" /\ setup' = [setup EXCEPT !.stage = "query", !.profile = spn_profile_metaprogram, !.demand = FALSE]
Query ==
  /\ setup.stage = "query"
  /\ \E q \in {spn_profile_query(setup)} :
         setup' = [setup EXCEPT !.stage = IF q.err = "none" THEN "select" ELSE "unlinkable", !.query = q, !.result = Refused(q.err)]
Select ==
  /\ setup.stage = "select"
  /\ \E r \in {spn_toolchain_select(setup.sdks, setup.host, setup.query)} :
         IF r.err # "none" THEN Fails("unselected", r.err) ELSE setup' = [setup EXCEPT !.stage = "finalize", !.result = r]
Finalize == setup.stage = "finalize" /\ setup' = [setup EXCEPT !.stage = "ready", !.profile = spn_profile_finalize(setup)]
SetupNext == Resolve \/ Metaprogram \/ Query \/ Select \/ Finalize
SetupSpec == SetupInit /\ [][SetupNext]_setup

-----------------------------------------------------------------------------
(* The explicit wishes of the merged profile that were not met.            *)
Wishes == LET want == IF setup.profile.os = "wasi" /\ ~setup.targeted THEN spn_profile_metaprogram ELSE Merged(setup)
          IN  {f \in {"os", "arch", "abi", "runtime", "libc", "mode"} : want[f] # Unset /\ want[f] # setup.profile[f]}

(* Whatever the layers, the host and the kits: a selected toolchain has a  *)
(* row of a real triple that its driver can link, with the kit that triple *)
(* needs; every explicit wish of the merged profile is met, the topmost    *)
(* layer's first; sanitizers other than undefined come with a loader; a    *)
(* refusal to link names a reason that is true of the target; and no build *)
(* directory lies inside another profile's.                                *)
ProfileSound ==
  /\ setup.stage = "ready" =>
       LET t == setup.result.row.triple
           p == setup.profile
           link == setup.result.linking
       IN  /\ t = Triple(p.arch, p.os, p.abi) /\ t.abi \in ToSet(os_abis(t.os)) /\ t.arch \in ToSet(spn_os_archs(t.os))
           /\ spn_toolchain_driver_composes(setup.result.info.driver, spn_ld_dialect(t))
           /\ spn_sdk_kind(t) = "msvc" => setup.result.row.sdk = "msvc"
           /\ Wishes = {}
           /\ setup.override.os # Unset /\ setup.targeted => p.os = setup.override.os
           /\ setup.override.mode # Unset /\ p.os # "wasi" => p.mode = setup.override.mode
           /\ setup.query.ref \in {"auto", p.ref}
           /\ p.sanitizers \subseteq setup.result.row.sanitizers
           /\ p.sanitizers \ {"undefined"} # {} => spn_ld_loader(t, link)
           /\ p.linkage = "shared" => spn_ld_loader(t, link)
           /\ Linker(setup.result.info, t) \in {"gnu", "lld", "msvc", "ld64"}
  /\ setup.stage = "unlinkable" =>
       \A c \in setup.query.refusals :
         LET p == setup.profile
             none(r) == ~\E k \in DOMAIN LinkTable(c.triple) : r \subseteq {LinkTable(c.triple)[k].runtime}
         IN  CASE c.linking.refusal = "no_loader" -> ~spn_triple_dynamic(c.triple)
               [] c.linking.refusal = "os_libc" -> p.libc = "static"
               [] c.linking.refusal = "os_runtime" -> p.runtime = "static" /\ none({"static"})
               [] c.linking.refusal = "shared_runtime" -> p.libc = "static" /\ p.runtime = "shared"
               [] c.linking.refusal = "hybrid_crt" -> {p.libc, p.runtime} = {"static", "shared"}
               [] c.linking.refusal = "shared_deps" -> p.libc = "static" /\ p.linkage = "shared"
  /\ setup.stage = "ready" /\ setup.profile.os # "wasi" =>
       \A n \in {n \in Names : name_ok(n)}, b \in BOOLEAN :
         LET mine == spn_profile_build_dir(setup.name, setup.targeted, setup.result.row.triple)
             other == spn_profile_build_dir(n, b, setup.result.row.triple)
         IN  IsPrefix(mine, other) => mine = other
=============================================================================
