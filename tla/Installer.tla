----------------------------- MODULE Installer -----------------------------
(***************************************************************************)
(* `spn self install` (cli/install/{plan,install}.c, cli/commands/self.c): *)
(* look at the home directory, let the user choose where to hook in, plan, *)
(* carry the plan out one step at a time, report.  A step may fail, the    *)
(* process may be killed between two, and the command may be run again.    *)
(***************************************************************************)
EXTENDS Naturals, Sequences, SequencesExt, FiniteSets

CONSTANTS
  Homes,        \* what the home directory may hold at first
  Customs,      \* files the user may name to hook into
  Surroundings, \* what a run may meet with
  MaxInstalls   \* runs of the command

(* A home, and what is asked of it before a run and after: no file sources *)
(* the env file twice, unless a run appended to it that could not see the  *)
(* line (unseen, a history); no hook is there without the program it leads *)
(* to; and the PATH in the registry ends as the user's did, of its type.   *)
Rcs == <<"profile", "bashrc", "bash_profile", "bash_login", "zshenv", "zshrc">>
Files == ToSet(Rcs) \cup Customs
NoFile == ""
Dirs == {"bin", "user", "more"}   \* on the PATH: the installation's, the user's last one, and their others
HomeType ==
  [os : {"unix", "windows"}, exe : {"none", "old", "new"}, env : {"none", "stale", "current"}, fish_dir : BOOLEAN, fish_conf : {"none", "stale", "current"},
   exists : SUBSET Files, lines : [Files -> Nat], unseen : SUBSET Files, github : BOOLEAN, registry : [kind : {"none", "sz", "expand", "other"}, path : Seq(Dirs)]]
Hooked(h) == \E f \in h.exists : h.lines[f] > 0
HomeSound(h) ==
  /\ \A f \in Files \ h.unseen : h.lines[f] <= 1
  /\ Hooked(h) \/ h.fish_conf = "current" \/ h.github => h.exe # "none"
  /\ h.registry.path # <<>> => Last(h.registry.path) \in {"user", "bin"}
  /\ h.registry.kind = "expand" => h.registry.path # <<>> /\ Last(h.registry.path) = "user"
HomesAssumption == \A h \in Homes : h \in HomeType /\ HomeSound(h) /\ \A f \in Files : h.lines[f] > 0 => f \in h.exists
ASSUME HomesAssumption
(* custom_file refuses what lies under the installation's own directory,   *)
(* the program and the env file.  It does not refuse spn's fish file or    *)
(* GITHUB_PATH's: that no user names those two is assumed here.            *)
CustomsAssumption == Customs \subseteq STRING \ {"exe", "env", "fish_conf", "github", NoFile}
ASSUME CustomsAssumption
(* What a run meets with: own is whether the program that runs is the      *)
(* installed one; unread, whether the registry's value does not come back; *)
(* blind, which of the files are links, that sp_fs_is_file does not take   *)
(* for files, and which files cannot be read.                              *)
WorldType ==
  [home_set : BOOLEAN, login : STRING, on_path : BOOLEAN, github : BOOLEAN, no_modify : BOOLEAN, shadow : BOOLEAN, own : BOOLEAN, unread : BOOLEAN,
   blind : [links : SUBSET Files, unread : SUBSET (Files \cup {"env", "fish_conf"})]]
SurroundingsAssumption == \A w \in Surroundings : w \in WorldType
ASSUME SurroundingsAssumption

VARIABLES
  home,     \* [os, exe, env, fish_dir, fish_conf, exists, lines, unseen, github, registry]
  install   \* the run under way: [stage, world, facts, choices, can_path, plan, at, stuck, err, msgs, runs]

installVars == <<home, install>>

-----------------------------------------------------------------------------
(* The files of the shells (resolve_shells).  A file's lines are how often *)
(* it sources the env file.                                                *)
RcShell(f) == IF f \in {"zshenv", "zshrc"} THEN "zsh" ELSE "bash"
RcRole(f) == CASE f \in {"profile", "zshenv"} -> "always" [] f = "zshrc" -> "probe" [] OTHER -> "existing"
parse_login(shell) == CASE shell \in {"bash", "sh", "dash", "ash", "ksh"} -> "bash" [] shell \in {"zsh", "fish"} -> shell [] OTHER -> "none"

(* What a run finds (spn_install_resolve, probe_facts).                    *)
Worlds == {w \in Surroundings : (w.own => home.exe # "none") /\ (w.unread => home.os = "windows")}
(* A value that is there and cannot be read is of no kind the plan changes;*)
(* a file that is there and cannot be read has no line and is not current. *)
probe_registry(w) == IF w.unread /\ home.registry.kind # "none" THEN [kind |-> "other", path |-> <<>>] ELSE home.registry
probe_facts(w) ==
  LET exists == home.exists \ w.blind.links
      Reads(f) == f \notin w.blind.unread
  IN
  [own |-> w.own, shadow |-> w.shadow, fish |-> home.fish_dir,
   env_current |-> home.env = "current" /\ Reads("env"), fish_current |-> home.fish_conf = "current" /\ Reads("fish_conf"),
   exists |-> exists, has_line |-> {f \in exists : Reads(f) /\ home.lines[f] > 0},
   registry |-> probe_registry(w)]

-----------------------------------------------------------------------------
(* Choices: [path, registry], path a sequence of [kind, custom, has_line]. *)
Choice(kind) == [kind |-> kind, custom |-> NoFile, has_line |-> FALSE]
Shells(picked) == LET One(kind) == IF kind \in picked THEN <<Choice(kind)>> ELSE <<>> IN One("bash") \o One("zsh") \o One("fish")
shell_present(w, facts, kind) ==
  \/ parse_login(w.login) = kind
  \/ IF kind = "fish" THEN facts.fish ELSE \E f \in facts.exists \cap ToSet(Rcs) : RcShell(f) = kind
spn_install_choices(os, w, facts) ==
  LET present == {kind \in {"bash", "zsh", "fish"} : shell_present(w, facts, kind)}
  IN  IF os = "windows" THEN [path |-> <<>>, registry |-> TRUE]
      ELSE [path |-> Shells(IF present = {} THEN {"bash"} ELSE present), registry |-> FALSE]
spn_install_path_state(os, w, facts, choices) ==
  CASE w.on_path -> "ok" [] ~w.on_path /\ w.no_modify -> "manual" [] ~w.on_path /\ ~w.no_modify /\ w.github -> "ci"
    [] OTHER -> IF os = "unix" THEN (IF choices.path # <<>> THEN "updated" ELSE "manual")
                ELSE IF facts.registry.kind # "other" /\ choices.registry THEN "updated" ELSE "manual"

(* custom_file: a directory, or a file of the installation's own, is asked *)
(* for again; the user may also give nothing.  Links are followed here.    *)
custom_file ==
  {Choice("custom")} \cup
  {[kind |-> "custom", custom |-> f, has_line |-> f \in home.exists \ install.world.blind.unread /\ home.lines[f] > 0] : f \in Customs}
(* prompt_path: the shells in a fixed order, a custom file last.           *)
Picked(picked, custom) == Shells(picked) \o (IF "custom" \in picked /\ custom.custom # NoFile THEN <<custom>> ELSE <<>>)
prompt_path ==
  {[path |-> Picked(picked, custom), registry |-> FALSE] : picked \in SUBSET {"bash", "zsh", "fish", "custom"}, custom \in custom_file}
prompt_choices == IF home.os = "unix" THEN prompt_path ELSE {[path |-> <<>>, registry |-> b] : b \in BOOLEAN}

-----------------------------------------------------------------------------
(* Plans: [actions, state, live, posix]; an action is [kind, role, path].  *)
Action(kind, role, path) == [kind |-> kind, role |-> role, path |-> path]
push_action(plan, action) == [plan EXCEPT !.actions = Append(@, action)]
planned(plan, path) == \E i \in DOMAIN plan.actions : plan.actions[i].path = path
plan_posix_hook(plan, path) ==
  LET posix == [plan EXCEPT !.posix = TRUE] IN IF planned(plan, path) THEN posix ELSE push_action(posix, Action("append", "hook", path))
spn_install_shell_hooks(facts, kind) ==
  {f \in ToSet(Rcs) \ facts.has_line : RcShell(f) = kind /\ (RcRole(f) = "always" \/ (RcRole(f) = "existing" /\ f \in facts.exists))}
PlanShell(plan, facts, kind) ==
  LET after[n \in 0 .. Len(Rcs)] ==
        IF n = 0 THEN plan ELSE IF Rcs[n] \in spn_install_shell_hooks(facts, kind) THEN plan_posix_hook(after[n - 1], Rcs[n]) ELSE after[n - 1]
  IN  after[Len(Rcs)]
rc_live(facts, path) == path \in facts.has_line \cap ToSet(Rcs)
PlanChoice(plan, facts, c) ==
  CASE c.kind \in {"bash", "zsh"} -> PlanShell(plan, facts, c.kind)
    [] c.kind = "fish" -> IF facts.fish_current THEN [plan EXCEPT !.live = @ + 1] ELSE push_action(plan, Action("write", "hook", "fish_conf"))
    [] c.kind = "custom" -> IF c.has_line THEN [plan EXCEPT !.posix = TRUE, !.live = IF rc_live(facts, c.custom) THEN @ ELSE @ + 1]
                            ELSE plan_posix_hook(plan, c.custom)
plan_unix_hooks(plan, facts, choices) ==
  LET live == Cardinality(facts.has_line \cap ToSet(Rcs))
      after[n \in 0 .. Len(choices.path)] ==
        IF n = 0 THEN [plan EXCEPT !.live = @ + live, !.posix = @ \/ live > 0] ELSE PlanChoice(after[n - 1], facts, choices.path[n])
  IN  after[Len(choices.path)]
registry_contains(path) == \E i \in DOMAIN path : path[i] = "bin"

spn_install_plan(os, w, facts, choices) ==
  LET start == [actions |-> IF facts.own THEN <<>> ELSE <<Action("install", "exe", "exe")>>,
                state |-> spn_install_path_state(os, w, facts, choices), live |-> 0, posix |-> FALSE]
      env == IF os = "unix" /\ ~facts.env_current THEN push_action(start, Action("write", "env", "env")) ELSE start
  IN  CASE start.state \in {"ok", "manual"} -> start
        [] start.state = "ci" -> push_action(env, Action("append", "hook", "github"))
        [] start.state = "updated" ->
             IF os = "unix" THEN plan_unix_hooks(env, facts, choices)
             ELSE IF registry_contains(facts.registry.path) THEN [start EXCEPT !.live = 1] ELSE push_action(start, Action("registry", "hook", NoFile))

-----------------------------------------------------------------------------
(* One step of a plan on the disk (apply); set_user_path writes what the   *)
(* probe read, with the directory in front.                                *)
set_user_path(facts) == [kind |-> IF facts.registry.kind = "expand" THEN "expand" ELSE "sz", path |-> <<"bin">> \o facts.registry.path]
apply(h, facts, action) ==
  CASE action.kind = "install" -> [h EXCEPT !.exe = "new"]
    [] action.kind = "write" -> IF action.path = "env" THEN [h EXCEPT !.env = "current"] ELSE [h EXCEPT !.fish_conf = "current", !.fish_dir = TRUE]
    [] action.kind = "append" ->
         IF action.path = "github" THEN [h EXCEPT !.github = TRUE] ELSE [h EXCEPT !.exists = @ \cup {action.path}, !.lines[action.path] = @ + 1]
    [] action.kind = "registry" -> [h EXCEPT !.registry = set_user_path(facts)]

Hooks(plan) == {i \in DOMAIN plan.actions : plan.actions[i].role = "hook"}
(* As path_broken, for one that only counts hooks: for a mutant.           *)
HooksBroken(plan, stuck) == plan.live + Cardinality(Hooks(plan)) - Cardinality(ToSet(stuck) \cap Hooks(plan)) = 0
path_broken(plan, stuck) ==
  \/ \E i \in ToSet(stuck) : plan.actions[i].role = "env"
  \/ plan.live + Cardinality(Hooks(plan)) - Cardinality(ToSet(stuck) \cap Hooks(plan)) = 0
Msg(kind, subject) == <<kind, subject>>
push_stuck(action) ==
  CASE action.kind = "write" -> Msg("stuck_write", action.path) [] action.kind = "append" -> Msg("stuck_append", action.path)
    [] action.kind = "registry" -> Msg("stuck_registry", NoFile)
spn_install_report(os, facts, plan, stuck) ==
  LET broken == path_broken(plan, stuck)
      manual == <<Msg("manual", "bin")>>
  IN  [i \in DOMAIN stuck |-> push_stuck(plan.actions[stuck[i]])]
      \o (CASE plan.state = "ok" -> <<>> [] plan.state = "manual" -> manual [] plan.state = "ci" -> IF broken THEN manual ELSE <<>>
            [] plan.state = "updated" ->
                 IF broken THEN manual
                 ELSE IF os = "unix" THEN <<Msg("restart_shell", IF plan.posix THEN "env" ELSE NoFile)>> ELSE <<Msg("restart_terminal", NoFile)>>)
      \o (IF facts.shadow THEN <<Msg("shadow", "exe")>> ELSE <<>>)

-----------------------------------------------------------------------------
Idle(runs) == [stage |-> "idle", runs |-> runs]
InstallInit == home \in Homes /\ install = Idle(0)

(* install, up to the first question or the plan of an unattended run.     *)
Probe ==
  /\ install.stage = "idle" /\ install.runs < MaxInstalls
  /\ \E w \in Worlds, prompt \in BOOLEAN :
       LET facts == probe_facts(w)
           choices == spn_install_choices(home.os, w, facts)
       IN  install' = IF ~w.home_set THEN Idle(install.runs + 1)
                      ELSE [stage |-> IF prompt THEN "prompt" ELSE "run", world |-> w, facts |-> facts, choices |-> choices,
                            can_path |-> spn_install_path_state(home.os, w, facts, choices) = "updated",
                            plan |-> spn_install_plan(home.os, w, facts, choices), at |-> 1, stuck |-> <<>>, err |-> "ok", msgs |-> <<>>, runs |-> install.runs + 1]
  /\ UNCHANGED home
(* run_prompt, a round: where the path can be changed the user says how;   *)
(* an empty plan is not asked about.                                       *)
Prompt ==
  /\ install.stage = "prompt"
  /\ \E choices \in IF install.can_path THEN prompt_choices ELSE {install.choices} :
       LET plan == spn_install_plan(home.os, install.world, install.facts, choices)
       IN  install' = [install EXCEPT !.choices = choices, !.plan = plan, !.stage = IF plan.actions = <<>> THEN "run" ELSE "confirm"]
  /\ UNCHANGED home
Proceed == install.stage = "confirm" /\ install' = [install EXCEPT !.stage = "run"] /\ UNCHANGED home
Decline == install.stage = "confirm" /\ install.can_path /\ install' = [install EXCEPT !.stage = "prompt"] /\ UNCHANGED home
Cancel == install.stage \in {"prompt", "confirm"} /\ install' = Idle(install.runs) /\ UNCHANGED home

(* execute: the program itself must go in, the rest may get stuck.         *)
(* Marked: the home, with the history of appends to a file that has a line *)
(* the run could not see.                                                  *)
Blind(w) == w.blind.links \cup w.blind.unread
Marked(w, action) ==
  [home EXCEPT !.unseen = @ \cup {f \in Files \cap Blind(w) : action.kind = "append" /\ action.path = f /\ home.lines[f] > 0}]
Execute ==
  /\ install.stage = "run" /\ install.at <= Len(install.plan.actions)
  /\ LET action == install.plan.actions[install.at]
     IN  \/ home' = apply(Marked(install.world, action), install.facts, action) /\ install' = [install EXCEPT !.at = @ + 1]
         \/ UNCHANGED home /\ install' = IF action.role = "exe" THEN [install EXCEPT !.stage = "done", !.err = "exe"]
                                         ELSE [install EXCEPT !.at = @ + 1, !.stuck = Append(@, install.at)]
Report ==
  /\ install.stage = "run" /\ install.at > Len(install.plan.actions)
  /\ install' = [install EXCEPT !.stage = "done", !.err = IF install.stuck # <<>> THEN "stuck" ELSE "ok",
                                !.msgs = spn_install_report(home.os, install.facts, install.plan, install.stuck)]
  /\ UNCHANGED home
Killed == install.stage = "run" /\ install' = Idle(install.runs) /\ UNCHANGED home
Again == install.stage = "done" /\ install' = Idle(install.runs) /\ UNCHANGED home
InstallNext == Probe \/ Prompt \/ Proceed \/ Decline \/ Cancel \/ Execute \/ Report \/ Killed \/ Again
InstallSpec == InstallInit /\ [][InstallNext]_installVars

-----------------------------------------------------------------------------
Told(kind) == \E i \in DOMAIN install.msgs : install.msgs[i][1] = kind

(* Over any number of runs, stuck steps, kills and changes of mind: no     *)
(* file that could be read when spn appended to it, and was no link,       *)
(* sources the env file twice, no hook is there without the program it     *)
(* leads to, the user's PATH in the registry keeps its entries and its     *)
(* type; told to restart the shell, the user has a hook that will do it,   *)
(* and told to run the env file, has one that is current; without an error *)
(* and without advice the program is on the path or the build machine's    *)
(* file; and the fixed arrays of the plan and of the report suffice.       *)
InstallSound ==
  /\ HomeSound(home)
  /\ install.stage = "done" =>
       /\ install.err # "exe" => home.exe # "none"
       /\ Told("restart_shell") => (home.env = "current" /\ Hooked(home)) \/ home.fish_conf = "current"
       /\ <<"restart_shell", "env">> \in ToSet(install.msgs) => home.env = "current"
       /\ Told("restart_terminal") => registry_contains(home.registry.path)
       /\ install.err # "exe" /\ ~install.world.on_path /\ ~Told("manual") /\ ~Told("restart_shell") /\ ~Told("restart_terminal") => home.github
       /\ install.err = "stuck" <=> Told("stuck_write") \/ Told("stuck_append") \/ Told("stuck_registry")
       /\ Len(install.plan.actions) <= 12 /\ Len(install.msgs) <= 12
=============================================================================
