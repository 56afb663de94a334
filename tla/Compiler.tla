------------------------------ MODULE Compiler ------------------------------
(***************************************************************************)
(* The command lines of a build (core/compiler/{driver,gnu,msvc,exports}.c,*)
(* core/graph/nodes/{object,link}.c): with a toolchain selected, an object *)
(* is compiled, its depfile read, and the target archived or, once the     *)
(* link is accepted, its symbols exported and its objects linked.          *)
(* An argument is a tuple whose head names its option; paths are names.    *)
(* A case the code calls unreachable gives the argument Unreachable.       *)
(* Include paths, library directories and the rtti switch go where defines,*)
(* libraries and the exception switch go, and are left out.                *)
(***************************************************************************)
EXTENDS Toolchains, FiniteSets

CONSTANTS
  Works,     \* what a target may be: see Work below
  Members    \* symbols of the target's own objects, in order

VARIABLE command   \* [stage, work, compile, link, exports, observed]

-----------------------------------------------------------------------------
(* The profile, the toolchain and the target of the running setup.         *)
p == setup.profile
driver == setup.result.info.driver
target == setup.result.row.triple
sdk == setup.result.row.sdk
format == spn_os_to_native_object_format(p.os)
dialect == spn_ld_dialect(target)
is_msvc == driver = "msvc"
Unreachable == <<<<"unreachable">>>>
Opt(arg, cond) == IF cond THEN <<arg>> ELSE <<>>
spn_cc_has(cap) == cap \in spn_toolchain_driver_caps(driver)

Invocation(program, args, env) == [program |-> program, args |-> args, env |-> env]
With(a, b) == [a EXCEPT !.args = @ \o b.args, !.env = @ \o b.env]
Args(s) == Invocation(<<>>, s, <<>>)
(* spn_cc_push_str, spn_cc_push_strs, spn_cc_push_paths...: an empty       *)
(* argument is dropped.                                                    *)
spn_cc_push(inv, args) == With(inv, Args(SelectSeq(args, LAMBDA a : a # <<"">>)))
spn_cc_push_env(key, values) == Invocation(<<>>, <<>>, <<[key |-> key, values |-> values]>>)

-----------------------------------------------------------------------------
(* Flags of a profile: [compile, link].                                    *)
gnu_opt_switch(level) == IF level = "none" THEN <<"">> ELSE <<"-O", level>>
msvc_opt_switch(level) ==
  CASE level = "0" -> <<"/Od">> [] level \in {"2", "3"} -> <<"/O2">> [] level \in {"1", "s", "z"} -> <<"/O1">> [] level = "none" -> <<"">>
c_standard_to_flag(std) == <<"-std", IF std = "none" THEN "c99" ELSE std>>
cxx_standard_to_flag(std) == <<"-std", IF std = "none" THEN "c++17" ELSE std>>
c_standard_switch(std) == IF std \in {"c11", "gnu11"} THEN <<"/std", "c11">> ELSE <<"">>
cxx_standard_switch(std) ==
  CASE std = "c++11" -> <<"/std", "c++14">> [] std = "c++23" -> <<"/std", "c++latest">> [] std = "none" -> <<"/std", "c++17">> [] OTHER -> <<"/std", std>>
codeview == p.os = "windows" /\ spn_cc_has("clang_frontend") /\ (p.abi = "msvc" \/ spn_cc_has("codeview"))
ms_runtime_flag == IF p.runtime = Unset THEN Unreachable ELSE <<<<"-fms-runtime-lib", p.runtime>>>>
crt_switch == IF p.runtime = Unset THEN Unreachable ELSE <<<<IF p.runtime = "shared" THEN "/MD" ELSE "/MT">>>>

(* As spn_gnu_render_flags, with the sanitizers left to the compiler: for  *)
(* a mutant.                                                               *)
CompiledSanitizers(work) ==
  LET crt == IF p.abi = "msvc" /\ spn_cc_has("clang_frontend") THEN ms_runtime_flag ELSE <<>>
  IN  [compile |-> crt \o Opt(<<"-fsanitize", p.sanitizers>>, p.sanitizers # {}), link |-> crt]
spn_gnu_render_flags(work) ==
  LET crt == IF p.abi = "msvc" /\ spn_cc_has("clang_frontend") THEN ms_runtime_flag ELSE <<>>
      sanitizer == Opt(<<"-fsanitize", p.sanitizers>>, p.sanitizers # {})
  IN  [compile |-> crt \o Opt(<<"-g">>, p.mode = "debug") \o <<gnu_opt_switch(work.opt)>> \o Opt(<<"-D", "NDEBUG">>, p.mode = "release")
                   \o sanitizer \o (IF p.sanitizers # {} THEN <<<<"-fno-sanitize-recover">>, <<"-fno-omit-frame-pointer">>>> ELSE <<>>)
                   \o (IF p.abi = "bare" THEN <<<<"-ffreestanding">>, <<"-fno-stack-protector">>>> ELSE <<>>)
                   \o Opt(<<"-fno-sanitize">>, p.abi = "bare" /\ spn_cc_has("default_ubsan")),
       link |-> crt \o sanitizer \o (IF p.abi = "bare" THEN <<<<"-nostartfiles">>, <<"-nolibc">>>> ELSE <<>>)]
spn_msvc_render_flags(work) ==
  LET sanitizer == Opt(<<"/fsanitize", p.sanitizers>>, p.sanitizers # {})
  IN  [compile |-> crt_switch \o Opt(<<"/Z7">>, p.mode = "debug") \o <<msvc_opt_switch(work.opt)>>
                   \o Opt(<<"-D", "NDEBUG">>, p.mode = "release") \o sanitizer,
       link |-> sanitizer]

(* The name of the target as the driver spells it: clang's freestanding is *)
(* elf, a wasi spelling is the toolchain's, macos has no libc.             *)
render_target ==
  CASE target.os = "macos" -> [target EXCEPT !.abi = Unset]
    [] target.os = "freestanding" /\ spn_cc_has("llvm_triple") -> [target EXCEPT !.abi = "elf"]
    [] OTHER -> target

-----------------------------------------------------------------------------
(* Compiling (gnu.c, msvc.c).                                              *)
add_libc == spn_cc_push_env("ZIG_LIBC", <<"libc_file">>)
gnu_sdk_compile ==
  CASE sdk = "none" -> Args(<<>>)
    [] sdk = "sysroot" -> Args(<<<<"--sysroot">>>>)
    [] sdk \in {"macos", "msvc"} /\ spn_cc_has("libc_file") -> add_libc
    [] sdk = "macos" /\ ~spn_cc_has("libc_file") -> Args(<<<<"-isysroot">>>>)
    [] sdk = "msvc" /\ ~spn_cc_has("libc_file") -> Args(<<<<"-nostdlibinc">>>> \o [i \in 1..4 |-> <<"-isystem", i>>])
gnu_sdk_link ==
  CASE sdk = "none" -> Args(<<>>)
    [] sdk = "sysroot" -> Args(<<<<"--sysroot">>>>)
    [] sdk \in {"macos", "msvc"} /\ spn_cc_has("libc_file") -> With(add_libc, Args(Opt(<<"-F">>, sdk = "macos")))
    [] sdk = "macos" /\ ~spn_cc_has("libc_file") -> Args(<<<<"-isysroot">>>>)
    [] sdk = "msvc" /\ ~spn_cc_has("libc_file") -> spn_cc_push_env("LIB", <<"vc", "ucrt", "um">>)
msvc_sdk_compile == With(Args([i \in 1..4 |-> <<"/I", i>>]), spn_cc_push_env("INCLUDE", <<"vc", "ucrt", "um", "shared">>))
msvc_sdk_link == spn_cc_push_env("LIB", <<"vc", "ucrt", "um">>)

(* The launcher: the compiler, or for c++ its own; an installed kit brings *)
(* cl.exe and its assembler.                                               *)
gnu_launcher(lang) ==
  Invocation(<<IF lang = "cxx" THEN "cxx" ELSE "cc">>, Opt(<<"--target", render_target>>, spn_cc_has("target_triple")), <<>>)
sdk_bin == IF sdk = "msvc" THEN "bin" ELSE Unset
program(launcher, name) == IF sdk_bin = Unset THEN <<launcher>> ELSE <<sdk_bin, name>>
msvc_launcher(lang) == Invocation(program(IF lang = "cxx" THEN "cxx" ELSE "cc", "cl.exe"), <<<<"/nologo">>>>, <<>>)
assembler_name(arch) == CASE arch = "x64" -> "ml64.exe" [] arch = "arm64" -> "armasm64.exe" [] OTHER -> "unreachable"
assembler == <<IF sdk_bin = Unset THEN "beside cc" ELSE sdk_bin, assembler_name(target.arch)>>

Defines(work) == [i \in DOMAIN work.define |-> <<"-D", work.define[i]>>]
MinOs(work) == Opt(<<"-mmacosx-version-min">>, p.os = "macos" /\ work.min_os)
Pic(work) == work.kind \in {"static", "shared"} /\ spn_triple_dynamic(target) /\ format # "coff"   \* spn_triple_pic of a library
spn_gnu_render_compile(work) ==
  LET standard == CASE work.lang = "c" -> <<c_standard_to_flag(work.std)>> [] work.lang = "cxx" -> <<cxx_standard_to_flag(work.std)>> [] OTHER -> <<>>
      cxx == Opt(<<"-fno-exceptions">>, work.lang = "cxx" /\ work.no_exceptions)
      head == standard \o spn_gnu_render_flags(work).compile \o <<<<"-c">>>> \o Defines(work) \o cxx \o Opt(<<"-fPIC">>, Pic(work))
      tail == MinOs(work) \o Opt(<<"-gno-codeview-command-line">>, codeview) \o work.args \o <<<<"-Werror", "return-type">>>>
  IN  spn_cc_push(With(spn_cc_push(gnu_launcher(work.lang), head), gnu_sdk_compile), tail)
spn_msvc_render_compile(work) ==
  LET standard == IF work.lang = "cxx" THEN cxx_standard_switch(work.std) ELSE c_standard_switch(work.std)
      head == <<<<"/utf-8">>, <<"/Brepro">>, standard>> \o spn_msvc_render_flags(work).compile \o <<<<"-c">>>>
      tail == Defines(work) \o Opt(<<"/EHsc">>, work.lang = "cxx" /\ ~work.no_exceptions) \o work.args \o <<<<"-Werror", "return-type">>>>
      flagged == spn_cc_push(msvc_launcher(work.lang), head)
  IN  IF work.lang = "asm" THEN Invocation(assembler, <<<<"/nologo">>, <<"-c">>>>, <<>>)
      ELSE spn_cc_push(IF sdk = "msvc" THEN With(flagged, msvc_sdk_compile) ELSE flagged, tail)
spn_cc_render_compile(work) == IF is_msvc THEN spn_msvc_render_compile(work) ELSE spn_gnu_render_compile(work)

(* spn_cc_render_compile_command: the base, then the files.                *)
spn_cc_depfile(lang) == CASE lang # "asm" -> "required" [] lang = "asm" /\ is_msvc -> "none" [] OTHER -> "optional"
spn_gnu_render_compile_files(depfile) ==
  <<<<"source">>>> \o Opt(<<"-MF">>, depfile) \o Opt(<<"-object-file-name">>, codeview) \o <<<<"-o">>>>
spn_msvc_render_compile_files(depfile) == Opt(<<"-MF">>, depfile) \o <<<<"-o">>, <<"source">>>>
spn_cc_render_compile_command(base, depfile) ==
  spn_cc_push(base, IF is_msvc THEN spn_msvc_render_compile_files(depfile) ELSE spn_gnu_render_compile_files(depfile))

-----------------------------------------------------------------------------
(* Linking.  A link is what build_target_plan makes of a work: a shared    *)
(* library and a reactor have exports, and a DLL an import library where   *)
(* the linker speaks link's dialect.                                       *)
LinkOf(work) == [kind |-> work.kind, lang |-> work.lang, scripts |-> work.scripts, frameworks |-> work.frameworks, whole |-> work.whole,
                 args |-> work.args, min_os |-> work.min_os, windowed |-> work.windowed, libs |-> work.libs,
                 exports |-> work.kind \in {"shared", "reactor"}, implib |-> work.kind = "shared" /\ dialect = "link"]
spn_ld_scripts(family, fmt) == (family = "gnu" /\ fmt \in {"elf", "coff"}) \/ (family = "lld" /\ fmt = "elf")
spn_cc_validate_link(link) ==
  LET linker == Linker(setup.result.info, target)
  IN  CASE link.kind = "reactor" /\ p.os # "wasi" -> "link_reactor"
        [] link.kind = "shared" /\ ~spn_triple_dynamic(target) -> "link_shared"
        [] OTHER ->
      CASE p.os = "macos" /\ link.frameworks # <<>> /\ sdk = "none" -> "frameworks"
        [] OTHER ->
      CASE link.scripts # <<>> /\ ~spn_ld_scripts(linker, format) -> "linker_script"
        [] OTHER -> IF linker = "msvc" /\ setup.host.os # "windows" THEN "msvc_linker_host" ELSE "none"

spn_cc_exports_format(kind) ==
  CASE kind = "reactor" -> "wasm"
    [] kind = "shared" /\ format = "macho" -> "symbol_list" [] kind = "shared" /\ format = "coff" -> "def"
    [] kind = "shared" /\ format = "elf" -> "version_script" [] OTHER -> "unreachable"
add_def == CASE dialect = "gnu" -> <<<<"exports", "def">>>> [] dialect = "link" -> <<<<"exports", "def">>>> [] OTHER -> Unreachable
add_exports ==
  CASE format = "elf" -> <<<<"exports", "version_script">>>> [] format = "coff" -> add_def
    [] format = "macho" -> <<<<"exports", "symbol_list">>>> [] format = "wasm" -> <<<<"exports", "wasm">>>>
Flags(option, s) == [i \in DOMAIN s |-> <<option, s[i]>>]
add_whole_archives(whole) ==
  CASE whole = <<>> -> <<>>
    [] whole # <<>> /\ dialect \in {"gnu", "wasm"} -> <<<<"--whole-archive">>>> \o Flags("path", whole) \o <<<<"--no-whole-archive">>>>
    [] whole # <<>> /\ dialect = "link" -> Flags("/WHOLEARCHIVE", whole) [] whole # <<>> /\ dialect = "darwin" -> Flags("-force_load", whole)
add_subsystem == CASE dialect = "gnu" -> <<<<"--subsystem">>>> [] dialect = "link" -> <<<<"/SUBSYSTEM">>, <<"/ENTRY">>>> [] OTHER -> Unreachable
add_rpath == CASE p.os \in {"linux", "macos"} -> <<<<"-rpath">>>> [] p.os = "windows" -> <<>> [] OTHER -> Unreachable
add_static_runtime ==
  <<<<"-static-libstdc++">>, <<"-static-libgcc">>>>
    \o (IF p.os = "windows" THEN <<<<"--whole-archive">>, <<"path", "winpthread">>, <<"--no-whole-archive">>>> ELSE <<>>)

spn_gnu_render_link(link, work) ==
  LET static_libc == p.libc = "static" /\ format = "elf"
      static_runtime == p.runtime = "static" /\ target.abi # "msvc" /\ spn_cc_has("gnu_runtime")
      kind ==
        CASE link.kind = "reactor" -> <<<<"-mexec-model">>, <<"--no-entry">>, <<"--import-symbols">>>> \o (IF link.exports THEN add_exports ELSE <<>>)
          [] link.kind = "shared" -> <<<<"-shared">>>> \o Opt(<<"-install_name">>, format = "macho") \o (IF static_runtime THEN add_static_runtime ELSE <<>>)
                                     \o (IF link.exports THEN add_exports ELSE <<>>) \o Opt(<<"/IMPLIB">>, link.implib)
          [] link.kind = "exe" -> (IF static_libc THEN <<<<"-static">>>> ELSE IF static_runtime THEN add_static_runtime ELSE <<>>)
                                  \o (IF link.windowed /\ format = "coff" THEN add_subsystem ELSE <<>>)
          [] OTHER -> Unreachable
      head == <<<<"link_args">>>> \o spn_gnu_render_flags(work).link \o kind \o Flags("-T", link.scripts) \o link.args \o <<<<"objects">>>>
              \o add_whole_archives(link.whole) \o Flags("-l", link.libs)
      tail == (IF p.os = "macos" THEN MinOs(work) \o Flags("-framework", link.frameworks) ELSE <<>>)
              \o (IF spn_triple_dynamic(target) THEN add_rpath ELSE <<>>) \o <<<<"-o">>>>
  IN  spn_cc_push(With(spn_cc_push(gnu_launcher(link.lang), head), gnu_sdk_link), tail)
spn_msvc_render_link(link, work) ==
  LET kind == CASE link.kind = "shared" -> <<<<"/LD">>>> [] link.kind = "exe" -> <<>> [] OTHER -> Unreachable
      head == spn_msvc_render_flags(work).link \o kind \o <<<<"objects">>>> \o Flags("-l", link.libs) \o <<<<"-o">>>>
      linker == Opt(<<"/DEBUG">>, p.mode = "debug") \o Opt(<<"exports", "def">>, link.exports) \o Opt(<<"/IMPLIB">>, link.implib)
                \o Flags("/WHOLEARCHIVE", link.whole)
                \o (IF link.kind = "exe" /\ link.windowed THEN <<<<"/SUBSYSTEM">>, <<"/ENTRY">>>> ELSE <<>>) \o <<<<"link_args">>>> \o link.args
      base == spn_cc_push(msvc_launcher(link.lang), head)
  IN  spn_cc_push(IF sdk = "msvc" THEN With(base, msvc_sdk_link) ELSE base, <<<<"/link">>>> \o linker)
spn_gnu_render_archive == Invocation(<<"ar">>, <<<<"rcs">>, <<"-o">>, <<"objects">>>>, <<>>)
spn_msvc_render_archive == Invocation(program("ar", "lib.exe"), <<<<"/nologo">>, <<"-o">>, <<"objects">>>>, <<>>)
render_archive_invocation == IF is_msvc THEN spn_msvc_render_archive ELSE spn_gnu_render_archive

-----------------------------------------------------------------------------
(* The steps of a build (object.c, link.c).                                *)
CommandInit == command = [stage |-> "none", work |-> <<>>, compile |-> <<>>, link |-> <<>>, exports |-> <<>>, observed |-> FALSE]

(* build_target_plan and render_compile_bases, for each ready profile.     *)
Plan ==
  /\ setup.stage = "ready" /\ command.stage = "none"
  /\ \E work \in Works :
       LET refused == work.kind # "static" /\ spn_cc_validate_link(LinkOf(work)) # "none"
       IN  command' = [command EXCEPT !.stage = IF refused THEN "refused" ELSE "planned", !.work = work, !.compile = spn_cc_render_compile(work)]

(* spn_dag_exec_object: a missing depfile is an error where one is         *)
(* required; what a readable one lists is observed.                        *)
spn_dag_exec_object ==
  /\ command.stage = "planned"
  /\ \E written, readable, compiles \in BOOLEAN :
       LET mode == spn_cc_depfile(command.work.lang)
           failed == ~compiles \/ (mode = "required" /\ ~written) \/ (mode # "none" /\ written /\ ~readable)
       IN  command' = [command EXCEPT !.stage = IF failed THEN "failed" ELSE "compiled",
                                      !.compile = spn_cc_render_compile_command(@, mode # "none"),
                                      !.observed = mode # "none" /\ written /\ readable]
spn_dag_exec_archive ==
  /\ command.stage = "compiled" /\ command.work.kind = "static"
  /\ \E done \in {"archived", "failed"} : command' = [command EXCEPT !.stage = done, !.link = render_archive_invocation]

(* write_exports: the symbols of the objects and of the whole archives,    *)
(* each once, in the format the output asks for.  A whole archive has a    *)
(* symbol of its own and one the objects define as well.                   *)
Symbols(archive) == <<archive, Members[1]>>
read_archive_symbols(symbols, more) == FoldLeft(LAMBDA acc, s : IF Contains(acc, s) THEN acc ELSE Append(acc, s), symbols, more)
write_exports(work) ==
  [format |-> spn_cc_exports_format(work.kind),
   symbols |-> FoldLeft(LAMBDA acc, a : read_archive_symbols(acc, Symbols(a)), read_archive_symbols(<<>>, Members), work.whole)]
spn_dag_exec_exports ==
  /\ command.stage = "compiled" /\ LinkOf(command.work).exports /\ command.exports = <<>>
  /\ \E archived \in BOOLEAN :
       command' = IF archived THEN [command EXCEPT !.exports = write_exports(command.work)] ELSE [command EXCEPT !.stage = "failed"]
RenderLink(link, work) == IF is_msvc THEN spn_msvc_render_link(link, work) ELSE spn_gnu_render_link(link, work)
spn_dag_exec_link ==
  /\ command.stage = "compiled" /\ command.work.kind # "static"
  /\ LinkOf(command.work).exports => command.exports # <<>>
  /\ \E done \in {"linked", "failed"} :
       command' = [command EXCEPT !.stage = done, !.link = RenderLink(LinkOf(command.work), command.work)]
CommandNext ==
  /\ Plan \/ spn_dag_exec_object \/ spn_dag_exec_archive \/ spn_dag_exec_exports \/ spn_dag_exec_link
  /\ UNCHANGED setup

-----------------------------------------------------------------------------
(* How a compilation and the link of its object agree.                     *)
Heads(inv) == {inv.args[i][1] : i \in DOMAIN inv.args}
Where(inv, head) == {i \in DOMAIN inv.args : inv.args[i][1] = head}
Keys(inv) == {inv.env[i].key : i \in DOMAIN inv.env}
Common == {"--target", "-fsanitize", "/fsanitize", "-fms-runtime-lib", "--sysroot", "-isysroot", "-mmacosx-version-min"}
Bracketed(inv, i) == Cardinality({j \in Where(inv, "--whole-archive") : j < i}) - Cardinality({j \in Where(inv, "--no-whole-archive") : j < i})
LinkAgrees(c, l, work) ==
  /\ "unreachable" \notin Heads(c) \cup Heads(l) \cup ToSet(c.program)
  /\ ~(is_msvc /\ work.lang = "asm") => {a \in ToSet(c.args) : a[1] \in Common} = {a \in ToSet(l.args) : a[1] \in Common}
  /\ ("ZIG_LIBC" \in Keys(c)) = ("ZIG_LIBC" \in Keys(l)) /\ ("-ffreestanding" \in Heads(c)) = ("-nolibc" \in Heads(l))
  /\ "-static" \in Heads(l) => p.libc = "static" /\ p.sanitizers \subseteq {"undefined"} /\ "-shared" \notin Heads(l)
  /\ spn_cc_has("gnu_runtime") /\ target.abi # "msvc" /\ work.kind # "reactor" =>
       (p.runtime = "static" <=> {"-static", "-static-libgcc"} \cap Heads(l) # {})
  /\ p.os = "windows" => (codeview <=> {"-gno-codeview-command-line", "-object-file-name"} \subseteq Heads(c))
  /\ ToSet(Flags("-T", work.scripts)) \subseteq ToSet(l.args)
  /\ p.os = "macos" => ToSet(Flags("-framework", work.frameworks)) \subseteq ToSet(l.args)
  /\ p.os = "windows" /\ work.kind = "exe" => (work.windowed <=> {"--subsystem", "/SUBSYSTEM"} \cap Heads(l) # {})
  /\ work.kind \in {"shared", "reactor"} =>
       /\ <<"exports", command.exports.format>> \in ToSet(l.args)
       /\ IsInjective(command.exports.symbols) /\ ToSet(command.exports.symbols) = ToSet(Members) \cup ToSet(work.whole)
  /\ \A a \in ToSet(work.whole) : \E i \in DOMAIN l.args :
       l.args[i] \in {<<"/WHOLEARCHIVE", a>>, <<"-force_load", a>>} \/ (l.args[i] = <<"path", a>> /\ Bracketed(l, i) = 1)
  /\ \A i \in DOMAIN l.args : Bracketed(l, i) = IF l.args[i][1] \in {"path", "--no-whole-archive"} THEN 1 ELSE 0
  /\ \A a \in ToSet(work.args) : \A i \in Where(l, a[1]) : \A j \in Where(l, "link_args") \cup Where(l, "-fsanitize") \cup Where(l, "/link") : j < i

(* An object accepted from c or c++ has had its headers observed.  What is *)
(* linked was accepted for the linker that runs: no case the renderers     *)
(* rule out is met, though the exclusion is made in spn_cc_validate_link,  *)
(* in the selection of the toolchain or in the lowering of its rows; the   *)
(* objects and the link agree on the target, the kit, the oldest system,   *)
(* the sanitizers and the C runtime; the runtime linked is the profile's;  *)
(* scripts, frameworks, subsystem and exports that were accepted are       *)
(* passed on, the exports in the format they were written in, each symbol  *)
(* once; whole archives, and nothing else, are bracketed; and the target's *)
(* own arguments follow those of the profile they may override.            *)
CommandsAgree ==
  /\ command.stage \in {"compiled", "archived", "linked"} =>
       /\ command.work.lang # "asm" => command.observed
       /\ command.observed => "-MF" \in Heads(command.compile)
  /\ command.stage = "linked" => LinkAgrees(command.compile, command.link, command.work)
=============================================================================
