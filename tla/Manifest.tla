------------------------------ MODULE Manifest ------------------------------
(***************************************************************************)
(* Loading a manifest (core/pkg/load.c, core/codegen/{lower,toolchain}.c): *)
(* the record the generated reader made of the file is lowered into the    *)
(* package the rest of the program works with; what cannot be lowered is   *)
(* left out, and reported.  Issues are <<where, code>>, where a sequence   *)
(* of keys (indices are left out).  A path is a sequence of segments, "/"  *)
(* first if it is absolute; an unset field is "".                          *)
(***************************************************************************)
EXTENDS Toolchains, FiniteSets

CONSTANTS
  Manifests,   \* what a file may read as
  PatchFiles   \* the patch files that exist

VARIABLE manifest   \* [stage, role, file, cg, out, issues]

-----------------------------------------------------------------------------
Issue(where, code) == {<<where, code>>}
Each(s, Op(_)) == UNION {Op(s[i]) : i \in DOMAIN s}

seg_normal(seg) == seg \notin {"", ".", ".."}
absolute(path) == path # <<>> /\ path[1] = "/"
spn_path_normal(path) == \A i \in DOMAIN path : seg_normal(path[i])
lower_path_ok(path) == path # <<>> /\ spn_path_normal(path) /\ ~absolute(path)
PathIssue(where, path) ==
  CASE path = <<>> \/ ~spn_path_normal(path) -> Issue(where, "path") [] path # <<>> /\ spn_path_normal(path) /\ absolute(path) -> Issue(where, "absolute")
    [] OTHER -> {}

(* Entries with a path: [path, tree, when]; with a value: [value, when].   *)
(* A directory may be the whole tree.                                      *)
IsDot(path) == path = <<".">>
lower_gated_paths(entries) == SelectSeq(entries, LAMBDA e : lower_path_ok(e.path))
lower_gated_dirs(entries) ==
  [i \in DOMAIN SelectSeq(entries, LAMBDA e : IsDot(e.path) \/ lower_path_ok(e.path)) |->
     LET e == SelectSeq(entries, LAMBDA f : IsDot(f.path) \/ lower_path_ok(f.path))[i] IN IF IsDot(e.path) THEN [e EXCEPT !.path = <<>>] ELSE e]
GatedPathIssues(where, entries, dirs) == Each(entries, LAMBDA e : IF dirs /\ IsDot(e.path) THEN {} ELSE PathIssue(where, e.path))

Slash(name) == Len(name) > 1   \* names are split at the slashes
validate_name(where, name) == IF Slash(name) THEN Issue(where, "invalid") ELSE {}
lower_canonicalize(name) == IF Len(name) = 1 THEN <<"core">> \o name ELSE name
CanonicalIssues(name) == IF Len(name) > 2 THEN Issue(name, "invalid") ELSE {}

-----------------------------------------------------------------------------
(* Targets: [name, kinds, link, standard, subsystem, paths, values, deps,  *)
(* embed], in groups.                                                      *)
Groups == <<"lib", "bin", "script", "test", "example">>
DirFields == {"include"}
lower_linkages(kinds) == kinds \cap {"source", "shared", "static", "object"}
EmbedOk(e) == lower_path_ok(e.path) /\ lower_path_ok(IF e.dest = <<>> THEN e.path ELSE e.dest)
lower_target(t) ==
  [t EXCEPT !.kinds = lower_linkages(@), !.link = @ # "no",
            !.paths = [f \in DOMAIN @ |-> IF f \in DirFields THEN lower_gated_dirs(@[f]) ELSE lower_gated_paths(@[f])],
            !.embed = SelectSeq(@, EmbedOk)]
TargetIssues(t) ==
  UNION {GatedPathIssues(<<>>, t.paths[f], f \in DirFields) : f \in DOMAIN t.paths}
    \cup Each(t.embed, LAMBDA e : IF lower_path_ok(e.path) THEN PathIssue(<<>>, IF e.dest = <<>> THEN e.path ELSE e.dest) ELSE PathIssue(<<>>, e.path))
lower_targets(cg) == [g \in ToSet(Groups) |-> [i \in DOMAIN cg.targets[g] |-> lower_target(cg.targets[g][i])]]
lower_metaprogram(script) == [script EXCEPT !.source = lower_gated_paths(@), !.include = lower_gated_dirs(@)]
ScriptIssues(script) == GatedPathIssues(<<>>, script.source, FALSE) \cup GatedPathIssues(<<>>, script.include, TRUE)

(* Dependencies: [name, kind, path, version, when], version "" or whether  *)
(* it parses.                                                              *)
lower_dep(d) == [qualified |-> lower_canonicalize(d.name), kind |-> d.kind, when |-> d.when, source |-> IF d.path THEN "file" ELSE "index"]
DepOk(d) == IF d.path THEN d.version = Unset ELSE d.version = "range"
DepIssues(d) ==
  CanonicalIssues(d.name) \cup (IF d.path /\ d.version # Unset THEN Issue(d.name \o <<"path">>, "invalid") ELSE {})
    \cup (IF ~d.path /\ d.version # "range" THEN Issue(d.name \o <<"version">>, "invalid") ELSE {})
lower_deps(cg) == LET of(kind) == SelectSeq(cg.deps, LAMBDA d : d.kind = kind /\ DepOk(d))
                      all == of("package") \o of("test") \o of("build")
                  IN  [i \in DOMAIN all |-> lower_dep(all[i])]

(* Published copies: [from, to, when].                                     *)
Trees == {"manifest", "source"}
lower_publish_from(c) == lower_path_ok(c.from) /\ c.from[1] \in Trees /\ Len(c.from) > 1
lower_publish_to(c) == lower_path_ok(c.to) /\ c.to[1] = "include"
PublishIssues(c) ==
  LET from == <<"publish", "copy", "from">>
      to == <<"publish", "copy", "to">>
  IN  (IF ~lower_path_ok(c.from) THEN PathIssue(from, c.from) ELSE IF c.from[1] \notin Trees THEN Issue(from, "invalid")
       ELSE IF Len(c.from) = 1 THEN Issue(from, "path") ELSE {})
      \cup (IF ~lower_path_ok(c.to) THEN PathIssue(to, c.to) ELSE IF c.to[1] # "include" THEN Issue(to, "invalid") ELSE {})

(* Indexes: [name, url, path, rev, protocol]; the first of a name counts.  *)
Protocol(x) == IF x.protocol # Unset THEN x.protocol ELSE IF x.path # Unset THEN "dir" ELSE "git"
IndexIssues(x) ==
  LET at(key, code) == Issue(<<"index", key>>, code)
  IN  IF Protocol(x) = "dir"
      THEN (IF x.url # Unset THEN at("url", "invalid") ELSE {}) \cup (IF x.rev # Unset THEN at("rev", "invalid") ELSE {})
             \cup (IF x.path = Unset THEN at("path", "missing_key") ELSE {})
      ELSE (IF x.path # Unset THEN at("path", "invalid") ELSE {}) \cup (IF x.url = Unset THEN at("url", "missing_key") ELSE {})
om_insert(acc, x) == IF \E i \in DOMAIN acc : acc[i].name = x.name THEN acc ELSE Append(acc, x)
lower_indexes(cg) == FoldLeft(LAMBDA acc, x : om_insert(acc, [name |-> x.name, protocol |-> Protocol(x)]), <<>>, cg.indexes)

(* Patches: [name, files].                                                 *)
PatchSeen(cg, i) == \E j \in 1..(i - 1) : lower_canonicalize(cg.patches[j].name) = lower_canonicalize(cg.patches[i].name)
PatchIssue(cg, i) ==
  CanonicalIssues(cg.patches[i].name) \cup
  IF PatchSeen(cg, i) THEN Issue(<<"patch">>, "duplicate_key") ELSE IF cg.patches[i].files = {} THEN Issue(<<"patch", "files">>, "missing_key") ELSE {}
lower_patches(cg) == LET ok == SetToSortSeq({i \in DOMAIN cg.patches : ~PatchSeen(cg, i) /\ cg.patches[i].files # {}}, <)
                     IN  [k \in DOMAIN ok |-> [qualified |-> lower_canonicalize(cg.patches[ok[k]].name), files |-> cg.patches[ok[k]].files]]

-----------------------------------------------------------------------------
(* Conditions: sequences of [key, value, negated]; values <<"str", x>> or  *)
(* <<"bool", x>>.                                                          *)
Sanitizers == {"address", "thread", "undefined", "memory", "leak"}
FactValues ==
  [os |-> Oses, arch |-> Arches, abi |-> {"gnu", "musl", "bare", "msvc", "apple", "elf"}, driver |-> {"gcc", "clang", "msvc", "zig"},
   linker |-> {"gnu", "lld", "ld64", "msvc"}, mode |-> {"release", "debug"}, opt |-> {"0", "1", "2", "3", "s", "z"}]
SanitizerFacts == {"sanitize_address", "sanitize_thread", "sanitize_undefined", "sanitize_memory", "sanitize_leak"}
when_key_is_fact(key) == key \in DOMAIN FactValues \cup SanitizerFacts
when_fact_value_valid(key, value) == IF key \in SanitizerFacts THEN value[1] = "bool" ELSE value[1] = "str" /\ value[2] \in FactValues[key]
(* Options: [name, type, values, define, additive, public, defaults].      *)
when_option_value_valid(option, value) ==
  CASE option.type = Unset -> TRUE [] option.type = "bool" -> value[1] = "bool"
    [] option.type = "enum" -> value[1] = "str" /\ (option.values = {} \/ value[2] \in option.values)
OptionOk(cg, c) == \E i \in DOMAIN cg.options : cg.options[i].name = c.key /\ when_option_value_valid(cg.options[i], c.value)
FactOk(c) == when_key_is_fact(c.key) /\ when_fact_value_valid(c.key, c.value)
ClauseOk(cg, c) == IF when_key_is_fact(c.key) THEN when_fact_value_valid(c.key, c.value) ELSE OptionOk(cg, c)
Clauses(where, when, Ok(_)) == Each(when, LAMBDA c : IF Ok(c) THEN {} ELSE Issue(where \o <<"when", c.key>>, "invalid"))
(* As validate_when, for one that looks at option names only: for a mutant.*)
KnownWhen(cg, where, when) ==
  Clauses(where, when, LAMBDA c : IF when_key_is_fact(c.key) THEN when_fact_value_valid(c.key, c.value) ELSE \E i \in DOMAIN cg.options : cg.options[i].name = c.key)
validate_when(cg, where, when) == Clauses(where, when, LAMBDA c : ClauseOk(cg, c))
validate_facts_only_when(where, when) == Clauses(where, when, FactOk)
validate_platform_when(where, when) == Clauses(where, when, LAMBDA c : c.key \in {"os", "arch"} /\ FactOk(c))

validate_target_whens(cg, t) ==
  UNION {Each(t.paths[f], LAMBDA e : validate_when(cg, <<f>>, e.when)) : f \in DOMAIN t.paths}
    \cup UNION {Each(t.values[f], LAMBDA e : validate_when(cg, <<f>>, e.when)) : f \in DOMAIN t.values}
    \cup Each(t.deps, LAMBDA e : validate_when(cg, <<"deps">>, e.when)) \cup Each(t.embed, LAMBDA e : validate_when(cg, <<"embed">>, e.when))
validate_metaprogram_whens(script) ==
  LET of(f) == Each(script[f], LAMBDA e : validate_facts_only_when(<<f>>, e.when)) IN of("source") \cup of("include") \cup of("define") \cup of("flags")
validate_option_set(set) == Each(set, LAMBDA c : IF c.negated THEN Issue(<<"options", c.key>>, "invalid") ELSE {})
validate_option_sets(cg) ==
  Each(cg.config, LAMBDA c : validate_option_set(c.options))
    \cup Each(cg.profiles, LAMBDA p : validate_option_set(p.options) \cup Each(p.options, LAMBDA c : IF OptionOk(cg, c) THEN {} ELSE Issue(<<"profile", "options", c.key>>, "invalid")))
validate_dep_whens(cg, out) == Each(out.deps, LAMBDA d : validate_when(cg, <<"deps", d.kind>>, d.when))
validate_pkg_whens(cg) ==
  UNION {Each(cg.package.gated[f], LAMBDA e : validate_when(cg, <<"package", f>>, e.when)) : f \in DOMAIN cg.package.gated}
    \cup Each(cg.publish, LAMBDA c : validate_when(cg, <<"publish", "copy">>, c.when))
validate_whens(cg, out) ==
  validate_dep_whens(cg, out) \cup validate_pkg_whens(cg)
    \cup UNION {Each(cg.targets[g], LAMBDA t : validate_target_whens(cg, t)) : g \in ToSet(Groups)}
    \cup validate_metaprogram_whens(cg.package.build) \cup validate_metaprogram_whens(cg.package.configure)
    \cup validate_option_sets(cg)
validate_options(cg) ==
  Each(cg.options, LAMBDA o :
    LET at(bad, key, code) == IF bad THEN Issue(<<"options", key>>, code) ELSE {}
    IN  at(when_key_is_fact(o.name), o.name, "duplicate_key") \cup at(o.type = Unset, "type", "invalid")
          \cup at(o.type = "enum" /\ o.values = {}, "values", "missing_key") \cup at(o.type = "bool" /\ o.values # {}, "values", "invalid")
          \cup at(o.type # "bool" /\ o.define, "define", "invalid") \cup at(o.type # "bool" /\ o.additive # Unset, "additive", "invalid")
          \cup at(o.public # Unset /\ ~o.define, "public", "invalid")
          \cup Each(o.defaults, LAMBDA d : at(~when_option_value_valid(o, d.value), "value", "invalid") \cup validate_when(cg, <<"options", "default">>, d.when)))

-----------------------------------------------------------------------------
(* Profiles: [name, os, arch, lists, sanitize, options]; "bad" is a value  *)
(* that does not parse.                                                    *)
has_conflict(set) ==
  \/ "thread" \in set /\ set \cap {"address", "memory", "leak"} # {}
  \/ "memory" \in set /\ set \cap {"address", "leak"} # {}
validate_candidates(key, list) ==
  UNION {validate_platform_when(<<"profile", key>>, list[i].when)
           \cup IF i < Len(list) /\ list[i].when = <<>> THEN Issue(<<"profile", key, "when">>, "missing_key") ELSE {} : i \in DOMAIN list}
validate_profiles(cg) ==
  Each(cg.profiles, LAMBDA p :
    (IF p.os = "bad" THEN Issue(<<"profile", "os">>, "invalid") ELSE {}) \cup (IF p.arch = "bad" THEN Issue(<<"profile", "arch">>, "invalid") ELSE {})
      \cup UNION {validate_candidates(f, p.lists[f]) : f \in DOMAIN p.lists}
      \cup UNION {Each(p.lists[f], LAMBDA e : IF f # "ref" /\ (e.value = "bad" \/ (f = "linkage" /\ e.value = "object")) THEN Issue(<<"profile", f, "value">>, "invalid") ELSE {}) : f \in DOMAIN p.lists}
      \cup (IF has_conflict(p.sanitize) THEN Issue(<<"profile", "sanitize">>, "invalid") ELSE {}))

validate_names(cg) ==
  validate_name(<<"package", "name">>, cg.package.name) \cup validate_name(<<"package", "namespace">>, cg.package.namespace)
    \cup UNION {Each(cg.targets[g], LAMBDA t : validate_name(<<g, "name">>, t.name)) : g \in ToSet(Groups)}
    \cup Each(cg.profiles, LAMBDA p : validate_name(<<"profile">>, p.name))
validate_lib_linkages(out) ==
  Each(out.targets["lib"], LAMBDA l :
    (IF "object" \in l.kinds /\ l.kinds # {"object"} THEN Issue(<<"lib", "kinds">>, "invalid") ELSE {})
      \cup (IF "shared" \notin l.kinds /\ l.values.link_flags # <<>> THEN Issue(<<"lib", "link_flags">>, "invalid") ELSE {})
      \cup (IF "shared" \notin l.kinds /\ l.paths.linker_script # <<>> THEN Issue(<<"lib", "linker_script">>, "invalid") ELSE {}))
validate_entry_trees(where, entries) == Each(entries, LAMBDA e : IF e.tree = "bad" THEN Issue(where \o <<"tree">>, "invalid") ELSE {})
validate_trees(cg) ==
  UNION {Each(cg.targets[g], LAMBDA t : UNION {validate_entry_trees(<<g, f>>, t.paths[f]) : f \in DOMAIN t.paths} \cup validate_entry_trees(<<g, "embed">>, t.embed)) : g \in ToSet(Groups)}
    \cup UNION {validate_entry_trees(<<"package">>, s.source \o s.include) : s \in {cg.package.build, cg.package.configure}}
    \cup validate_entry_trees(<<"package", "include">>, cg.package.gated.include)
validate_c_only_sources(script) == Each(script.source, LAMBDA e : IF e.path # <<>> /\ Last(e.path) = "a.cpp" THEN Issue(<<"package", "source">>, "invalid") ELSE {})
AllTargets(cg, Op(_, _)) == UNION {Each(cg.targets[g], LAMBDA t : Op(g, t)) : g \in ToSet(Groups)}
validate_cxx(cg) == AllTargets(cg, LAMBDA g, t : IF t.standard = "bad" THEN Issue(<<g, "cxx", "standard">>, "invalid") ELSE {})
validate_links(cg) == AllTargets(cg, LAMBDA g, t : IF g # "lib" /\ t.link # Unset THEN Issue(<<g, "link">>, "invalid") ELSE {})
validate_platform(cg) ==
  AllTargets(cg, LAMBDA g, t : IF t.subsystem = "bad" \/ (g = "lib" /\ t.subsystem # Unset) THEN Issue(<<g, "windows", "subsystem">>, "invalid") ELSE {})
validate_unique_targets(out) ==
  LET all == UNION {{<<g, i>> : i \in DOMAIN out.targets[g]} : g \in ToSet(Groups) \ {"lib"}}
      name(x) == out.targets[x[1]][x[2]].name
  IN  UNION {IF \E y \in all \ {x} : name(y) = name(x) THEN Issue(<<"name">>, "duplicate_key") ELSE {} : x \in all}

-----------------------------------------------------------------------------
(* Toolchains (toolchain.c): [name, driver, linker, detect, hosts,         *)
(* programs, targets]; a host is [known, url, sha], the programs are paths *)
(* by role, a target is [kind, triple, sdk, sanitizers], its sdk a path.   *)
local_arg(base, path) == IF absolute(path) \/ base # "none" THEN "ok" ELSE "unrooted"
spn_toolchain_sdk_path(source, base, path) ==
  IF ~spn_path_normal(path) THEN "path" ELSE IF source = "local" THEN local_arg(base, path) ELSE "ok"
spn_toolchain_program(source, base, path) ==
  CASE ~spn_path_normal(path) -> "path"
    [] spn_path_normal(path) /\ source = "local" -> IF Len(path) = 1 THEN "ok" ELSE local_arg(base, path)
    [] OTHER -> IF absolute(path) THEN "absolute" ELSE "ok"
lower_launcher(key, source, base, path) ==
  LET check == spn_toolchain_program(source, base, path) IN IF path = <<>> \/ check = "ok" THEN {} ELSE Issue(<<key>>, check)

lower_hosts(d) ==
  LET distributed == \E i \in DOMAIN d.hosts : d.hosts[i].url
  IN  [source |-> IF distributed THEN "distribution" ELSE "local",
       hosts |-> SelectSeq(d.hosts, LAMBDA h : h.known),
       issues |-> Each(d.hosts, LAMBDA h :
                    (IF h.url /\ ~h.sha THEN Issue(<<"host", "sha256">>, "missing_key") ELSE {})
                      \cup (IF ~h.url /\ (h.sha \/ distributed) THEN Issue(<<"host", "url">>, "missing_key") ELSE {})
                      \cup (IF h.known THEN {} ELSE Issue(<<"host">>, "invalid")))]
spn_ld_accepts(driver, family) == family = Unset \/ (family = "lld" /\ "fuse_ld" \in spn_toolchain_driver_caps(driver))
sanitizable(t) == t.abi \notin {"bare", "elf"}
issue_triple_entry(entry) ==
  CASE entry = "missing_arch" -> Issue(<<"target", "arch">>, "missing_key") [] entry = "missing_os" -> Issue(<<"target", "os">>, "missing_key")
    [] entry = "missing_abi" -> Issue(<<"target", "abi">>, "missing_key") [] entry = "foreign_arch" -> Issue(<<"target", "arch">>, "invalid")
    [] entry = "foreign_abi" -> Issue(<<"target", "abi">>, "invalid")
lower_target_fields(source, base, t, triple) ==
  (IF t.sanitizers # {} /\ ~sanitizable(triple) THEN Issue(<<"target", "sanitizers">>, "invalid") ELSE {})
    \cup (IF t.sdk = <<>> THEN {} ELSE IF source = "detected" \/ spn_sdk_kind(triple) = "none" THEN Issue(<<"target", "sdk">>, "invalid")
          ELSE IF spn_toolchain_sdk_path(source, base, t.sdk) = "ok" THEN {} ELSE Issue(<<"target", "sdk">>, spn_toolchain_sdk_path(source, base, t.sdk)))

(* One declared target added to what the ones before it made.              *)
LowerTarget(acc, t, driver, source, base) ==
  LET fields == t.triple # Triple(Unset, Unset, Unset) \/ t.sdk # <<>> \/ t.sanitizers # {}
      entry == spn_triple_entry(t.triple)
      report(issues) == [acc EXCEPT !.issues = @ \cup issues]
  IN  IF t.kind # Unset
      THEN IF t.kind # "host" \/ fields THEN report(Issue(<<"target", "kind">>, "invalid"))
           ELSE IF acc.host_row THEN report(Issue(<<"target", "kind">>, "duplicate_key")) ELSE [acc EXCEPT !.host_row = TRUE]
      ELSE IF entry # "ok" THEN report(issue_triple_entry(entry))
      ELSE IF ~spn_toolchain_driver_composes(driver, spn_ld_dialect(Completed(t.triple))) THEN report(Issue(<<"target">>, "invalid"))
      ELSE LET triple == Completed(t.triple)
           IN  [acc EXCEPT !.targets = Append(@, [triple |-> triple, sanitizers |-> IF sanitizable(triple) THEN t.sanitizers ELSE {}, sdk |-> t.sdk]),
                           !.issues = @ \cup (IF \E i \in DOMAIN acc.targets : acc.targets[i].triple = triple THEN Issue(<<"target">>, "duplicate_key") ELSE {})
                                        \cup lower_target_fields(source, base, t, triple)]
lower_toolchain_targets(d, source, base) ==
  FoldLeft(LAMBDA acc, t : LowerTarget(acc, t, d.driver, source, base), [host_row |-> d.targets = <<>>, targets |-> <<>>, issues |-> {}], d.targets)

spn_toolchain_lower(base, d) ==
  LET at(bad, key, code) == IF bad THEN Issue(<<key>>, code) ELSE {}
      hosts == IF d.detect = Unset THEN lower_hosts(d)
               ELSE [source |-> "detected", hosts |-> <<>>,
                     issues |-> at(d.detect = "none", "detect", "invalid") \cup at(d.hosts # <<>>, "host", "invalid")]
      rows == IF d.driver = Unset THEN [host_row |-> d.targets = <<>>, targets |-> <<>>, issues |-> {}] ELSE lower_toolchain_targets(d, hosts.source, base)
  IN  [decl |-> [name |-> d.name, driver |-> d.driver, lld |-> d.linker = "lld", source |-> hosts.source, hosts |-> hosts.hosts,
                 targets |-> rows.targets, host_row |-> rows.host_row, programs |-> d.programs],
       issues |-> at(d.name = Unset, "name", "missing_key") \cup at(d.name = "auto", "name", "invalid")
                    \cup at(d.programs.compiler = <<>>, "compiler", "missing_key") \cup at(d.programs.archiver = <<>>, "archiver", "missing_key")
                    \cup at(d.driver = Unset, "driver", "missing_key") \cup hosts.issues
                    \cup UNION {lower_launcher(key, hosts.source, base, d.programs[key]) : key \in DOMAIN d.programs}
                    \cup at(d.driver # Unset /\ ~spn_ld_accepts(d.driver, d.linker), "linker", "linker") \cup rows.issues]
spn_toolchains_lower_list(base, list) ==
  LET each == [i \in DOMAIN list |-> spn_toolchain_lower(base, list[i])]
      again == {i \in DOMAIN list : list[i].name # Unset /\ \E j \in 1..(i - 1) : list[j].name = list[i].name}
  IN  [decls |-> [i \in DOMAIN list |-> each[i].decl],
       issues |-> UNION {each[i].issues : i \in DOMAIN list} \cup UNION {Issue(<<"toolchain", "name">>, "duplicate_key") : i \in again}]
lower_toolchains(cg) == FoldLeft(om_insert, <<>>, spn_toolchains_lower_list("project", cg.toolchains).decls)

-----------------------------------------------------------------------------
(* The package.                                                            *)
lower_package(cg) ==
  [cg.package EXCEPT !.gated["include"] = lower_gated_dirs(@), !.build = lower_metaprogram(@), !.configure = lower_metaprogram(@)]
lower_profile(p) == [p EXCEPT !.os = IF @ = "bad" THEN Unset ELSE @, !.arch = IF @ = "bad" THEN Unset ELSE @]
lower_options(cg) == [i \in DOMAIN cg.options |-> [cg.options[i] EXCEPT !.additive = @ = "yes", !.public = @ = "yes"]]
lower_config(cg) ==
  [i \in DOMAIN cg.config |-> [name |-> cg.config[i].name, options |-> cg.config[i].options, declined |-> cg.config[i].defaults = "no", kind |-> cg.config[i].kind]]
Lowered(cg) ==
  [package |-> lower_package(cg), publish |-> SelectSeq(cg.publish, LAMBDA c : lower_publish_from(c) /\ lower_publish_to(c)),
   targets |-> lower_targets(cg), toolchains |-> lower_toolchains(cg), profiles |-> [i \in DOMAIN cg.profiles |-> lower_profile(cg.profiles[i])],
   indexes |-> lower_indexes(cg), deps |-> lower_deps(cg), options |-> lower_options(cg), config |-> lower_config(cg), patches |-> lower_patches(cg)]
LowerIssues(cg) ==
  (IF cg.package.version THEN {} ELSE Issue(<<"package", "version">>, "invalid"))
    \cup GatedPathIssues(<<"package">>, cg.package.gated.include, TRUE) \cup ScriptIssues(cg.package.build) \cup ScriptIssues(cg.package.configure)
    \cup Each(cg.publish, PublishIssues) \cup UNION {Each(cg.targets[g], TargetIssues) : g \in ToSet(Groups)}
    \cup spn_toolchains_lower_list("project", cg.toolchains).issues \cup Each(cg.indexes, IndexIssues) \cup Each(cg.deps, DepIssues)
    \cup UNION {PatchIssue(cg, i) : i \in DOMAIN cg.patches}
spn_pkg_lower(cg) ==
  LET out == Lowered(cg)
  IN  [out |-> out,
       issues |-> LowerIssues(cg) \cup validate_names(cg) \cup validate_profiles(cg) \cup validate_lib_linkages(out) \cup validate_trees(cg)
                    \cup validate_c_only_sources(cg.package.build) \cup validate_c_only_sources(cg.package.configure) \cup validate_cxx(cg) \cup validate_links(cg) \cup validate_platform(cg)
                    \cup validate_unique_targets(out) \cup validate_options(cg) \cup validate_whens(cg, out)]
spn_pkg_lower_patch_hashes(out) == Each(out.patches, LAMBDA p : IF p.files \subseteq PatchFiles THEN {} ELSE Issue(<<"patch", "files">>, "file_missing"))
spn_pkg_reject_patches(out) == IF out.patches = <<>> THEN {} ELSE Issue(<<"patch">>, "root_only")

(* spn_pkg_load, for the project's own manifest or a dependency's.         *)
ManifestInit ==
  \E role \in {"root", "dependency"} : \E file \in {"absent", "unreadable"} \X {<<>>} \cup {"read"} \X Manifests :
    manifest = [stage |-> "load", role |-> role, file |-> file[1], cg |-> file[2], out |-> <<>>, issues |-> {}]
Absent == manifest.stage = "load" /\ manifest.file = "absent" /\ manifest' = [manifest EXCEPT !.stage = "no_manifest"]
Unreadable ==
  manifest.stage = "load" /\ manifest.file = "unreadable" /\ manifest' = [manifest EXCEPT !.stage = "refused", !.issues = Issue(<<>>, "parse")]
Lower ==
  /\ manifest.stage = "load" /\ manifest.file = "read"
  /\ LET l == spn_pkg_lower(manifest.cg)
     IN  manifest' = [manifest EXCEPT !.stage = IF l.issues = {} THEN "patches" ELSE "refused", !.out = l.out, !.issues = l.issues]
Patches ==
  /\ manifest.stage = "patches"
  /\ LET issues == IF manifest.role = "root" THEN spn_pkg_lower_patch_hashes(manifest.out) ELSE spn_pkg_reject_patches(manifest.out)
     IN  manifest' = [manifest EXCEPT !.stage = IF issues = {} THEN "loaded" ELSE "refused", !.issues = issues]
ManifestNext == Absent \/ Unreadable \/ Lower \/ Patches

-----------------------------------------------------------------------------
(* The conditions of everything in a lowered package.                      *)
Whens(entries) == {entries[i].when : i \in DOMAIN entries}
TargetWhens(t) ==
  UNION {Whens(t.paths[f]) : f \in DOMAIN t.paths} \cup UNION {Whens(t.values[f]) : f \in DOMAIN t.values} \cup Whens(t.deps) \cup Whens(t.embed)
PackageWhens(out) ==
  UNION {UNION {TargetWhens(out.targets[g][i]) : i \in DOMAIN out.targets[g]} : g \in ToSet(Groups)} \cup Whens(out.publish) \cup Whens(out.deps)
    \cup UNION {Whens(out.package.gated[f]) : f \in DOMAIN out.package.gated} \cup UNION {Whens(out.options[i].defaults) : i \in DOMAIN out.options}
ScriptWhens(s) == UNION {Whens(s[f]) : f \in {"source", "include", "define", "flags"}}
FactClause(c) == IF c.key \in SanitizerFacts THEN c.value[1] = "bool" ELSE c.key \in DOMAIN FactValues /\ c.value \in {"str"} \X FactValues[c.key]
OptionClause(out, c) ==
  \E i \in DOMAIN out.options : LET o == out.options[i] IN o.name = c.key /\ c.value \in IF o.type = "bool" THEN {"bool"} \X BOOLEAN ELSE {"str"} \X o.values
ForAll(s, P(_)) == \A i \in DOMAIN s : P(s[i])
Distinct(s, Key(_)) == \A i, j \in DOMAIN s : Key(s[i]) = Key(s[j]) => i = j

(* A manifest that loads means one thing: every condition in the package   *)
(* can be decided, from facts and declared options with values they can    *)
(* have (scripts from facts alone, a profile's candidates from the         *)
(* platform, and only the last may be unconditional); no two executables,  *)
(* toolchains, patches or rows share a name; an option has a value to take *)
(* by default; each toolchain row is a whole triple its driver can link;   *)
(* only the project itself patches, with files that are there; and nothing *)
(* the file asks for was dropped on the way.                               *)
LowerSound ==
  manifest.stage = "loaded" =>
    LET out == manifest.out
        cg == manifest.cg
        executables == out.targets["bin"] \o out.targets["script"] \o out.targets["test"] \o out.targets["example"]
    IN  /\ \A w \in PackageWhens(out) : ForAll(w, LAMBDA c : FactClause(c) \/ OptionClause(out, c))
        /\ \A w \in ScriptWhens(out.package.build) \cup ScriptWhens(out.package.configure) : ForAll(w, FactClause)
        /\ ForAll(out.profiles, LAMBDA p : \A f \in DOMAIN p.lists : \A i \in DOMAIN p.lists[f] :
             /\ ForAll(p.lists[f][i].when, LAMBDA c : c.key \in {"os", "arch"} /\ FactClause(c))
             /\ p.lists[f][i].when = <<>> => i = Len(p.lists[f]))
        /\ Distinct(executables, LAMBDA t : t.name)
        /\ ForAll(out.options, LAMBDA o : o.type = "bool" \/ (o.type = "enum" /\ o.values # {}))
        /\ ForAll(out.options, LAMBDA o : ForAll(o.defaults, LAMBDA d : OptionClause(out, [key |-> o.name, value |-> d.value])) /\ (o.public => o.define))
        /\ ForAll(out.toolchains, LAMBDA d :
             /\ d.name \notin {Unset, "auto"} /\ d.driver # Unset /\ Distinct(d.targets, LAMBDA t : t.triple)
             /\ ForAll(d.targets, LAMBDA t : t.triple.abi \in ToSet(os_abis(t.triple.os)) /\ spn_toolchain_driver_composes(d.driver, spn_ld_dialect(t.triple)))
             /\ ForAll(d.hosts, LAMBDA h : (d.source = "distribution") = h.url /\ h.url = h.sha)
             /\ d.source # "local" => \A f \in DOMAIN d.programs : ~absolute(d.programs[f]))
        /\ ForAll(out.targets["lib"], LAMBDA l : "object" \in l.kinds => l.kinds = {"object"})
        /\ Distinct(out.patches, LAMBDA p : p.qualified) /\ ForAll(out.patches, LAMBDA p : p.files \subseteq PatchFiles)
        /\ manifest.role # "root" => out.patches = <<>>
        /\ \A f \in {"deps", "publish", "toolchains", "profiles", "options", "config", "patches"} : Len(out[f]) = Len(cg[f])
        /\ \A g \in ToSet(Groups) : \A i \in DOMAIN cg.targets[g] :
             /\ Len(out.targets[g][i].embed) = Len(cg.targets[g][i].embed)
             /\ \A f \in DOMAIN cg.targets[g][i].paths : Len(out.targets[g][i].paths[f]) = Len(cg.targets[g][i].paths[f])
=============================================================================
