---------------------------- MODULE FrontProofs ----------------------------
(***************************************************************************)
(* Theorems about what a command settles before anything is built.         *)
(*                                                                         *)
(* Installer: whatever the home directory holds, whichever files the user  *)
(* names and however many runs are killed or get stuck, the installation   *)
(* is sound and what the user is told is true.  Toolchains: whatever the   *)
(* layers of the profile, the host, the kits and the declared toolchains,  *)
(* the profile and the toolchain that are settled on fit one another.      *)
(***************************************************************************)
EXTENDS Installer, Toolchains, TLAPS, FiniteSetTheorems, WellFoundedInduction

-----------------------------------------------------------------------------
(* The loops of the plan.                                                  *)

(* Induction over the naturals, for a set.                                 *)
LEMMA Induction ==
  ASSUME NEW T \in SUBSET Nat, 0 \in T, \A n \in T : n + 1 \in T
  PROVE  T = Nat
<1>1. SUFFICES ASSUME Nat \ T # {} PROVE FALSE
  OBVIOUS
<1>2. PICK x \in Nat \ T : \A y \in Nat \ T : ~(<<y, x>> \in OpToRel(<, Nat))
  <2> DEFINE U == Nat \ T
  <2>1. U \subseteq Nat /\ U # {}
    BY <1>1
  <2> HIDE DEF U
  <2>2. \E x \in U : \A y \in U : ~(<<y, x>> \in OpToRel(<, Nat))
    BY <2>1, WFMin, NatLessThanWellFounded
  <2> QED
    BY <2>2 DEF U
<1>3. x \in Nat /\ x # 0 /\ x \notin T
  BY <1>2
<1>4. x - 1 \in Nat /\ x - 1 < x /\ (x - 1) + 1 = x
  BY <1>3
<1>5. <<x - 1, x>> \in OpToRel(<, Nat)
  BY <1>3, <1>4 DEF OpToRel
<1>6. x - 1 \in T
  BY <1>2, <1>4, <1>5
<1>7. (x - 1) + 1 \in T
  BY <1>6
<1> QED
  BY <1>3, <1>4, <1>7

(* As Induction, up to N.                                                  *)
LEMMA UpTo ==
  ASSUME NEW N \in Nat, NEW T, 0 \in T, \A n \in 0 .. N - 1 : n \in T => n + 1 \in T
  PROVE  0 .. N \subseteq T
<1> DEFINE U == {n \in Nat : n <= N => n \in T}
<1>1. 0 \in U /\ U \in SUBSET Nat
  OBVIOUS
<1>2. ASSUME NEW n \in U PROVE n + 1 \in U
  OBVIOUS
<1> HIDE DEF U
<1>3. U = Nat
  BY <1>1, <1>2, Induction
<1> QED
  BY <1>3 DEF U

(* A loop of N steps from x, the n-th of which is g and leads from S[n - 1] *)
(* to S[n], ends.                                                          *)
Leads(N, S, x, g) == x \in S[0] /\ \A n \in 1 .. N : \A p \in S[n - 1] : g[<<p, n>>] \in S[n]
Runs(N, S, x, g, f) ==
  /\ f = [n \in 0 .. N |-> IF n = 0 THEN x ELSE g[<<f[n - 1], n>>]]
  /\ \A n \in 0 .. N : f[n] \in S[n]
LEMMA Loop ==
  ASSUME NEW N \in Nat, NEW S, NEW x, NEW g, Leads(N, S, x, g)
  PROVE  \E f : Runs(N, S, x, g, f)
<1>0. x \in S[0] /\ \A n \in 1 .. N : \A p \in S[n - 1] : g[<<p, n>>] \in S[n]
  BY DEF Leads
<1> DEFINE Is(f, m) == /\ f = [n \in 0 .. m |-> IF n = 0 THEN x ELSE g[<<f[n - 1], n>>]]
                       /\ \A n \in 0 .. m : f[n] \in S[n]
           T == {m \in Nat : \E f : Is(f, m)}
<1>1. 0 \in T
  <2> DEFINE f == [n \in 0 .. 0 |-> x]
  <2>1. \A n \in 0 .. 0 : n = 0
    OBVIOUS
  <2>2. Is(f, 0)
    BY <1>0, <2>1
  <2> QED
    BY <2>2
<1>2. ASSUME NEW m \in 0 .. N - 1, m \in T PROVE m + 1 \in T
  <2>1. m \in Nat /\ m + 1 \in 1 .. N /\ m \in 0 .. m /\ (m + 1) - 1 = m /\ m + 1 \in Nat
    OBVIOUS
  <2>2. PICK f : Is(f, m)
    BY <1>2
  <2> DEFINE q == [n \in 0 .. m + 1 |-> IF n = m + 1 THEN g[<<f[m], m + 1>>] ELSE f[n]]
  <2>3. f[m] \in S[m] /\ g[<<f[m], m + 1>>] \in S[m + 1]
    <3>1. f[m] \in S[m]
      BY <2>1, <2>2
    <3>2. \A p \in S[(m + 1) - 1] : g[<<p, m + 1>>] \in S[m + 1]
      BY <1>0, <2>1
    <3> QED
      BY <2>1, <3>1, <3>2
  <2>4. \A n \in 0 .. m + 1 : q[n] = (IF n = 0 THEN x ELSE g[<<q[n - 1], n>>]) /\ q[n] \in S[n]
    <3> TAKE n \in 0 .. m + 1
    <3>1. CASE n = 0
      <4>1. 0 \in 0 .. m /\ 0 # m + 1 /\ 0 \in 0 .. m + 1
        BY <2>1
      <4>2. f[0] = x
        BY <2>2, <4>1
      <4> QED
        BY <1>0, <3>1, <4>1, <4>2
    <3>2. CASE n = m + 1
      <4>1. n - 1 = m /\ m \in 0 .. m + 1 /\ m # m + 1 /\ n # 0
        BY <2>1, <3>2
      <4> QED
        BY <2>3, <3>2, <4>1
    <3>3. CASE n # 0 /\ n # m + 1
      <4>1. n \in 0 .. m /\ n - 1 \in 0 .. m + 1 /\ n - 1 # m + 1
        BY <2>1, <3>3
      <4>2. f[n] = g[<<f[n - 1], n>>] /\ f[n] \in S[n]
        BY <2>2, <3>3, <4>1
      <4> QED
        BY <3>3, <4>1, <4>2
    <3> QED
      BY <3>1, <3>2, <3>3
  <2>5. Is(q, m + 1)
    BY <2>4, Zenon
  <2> QED
    BY <2>1, <2>5
<1>3. N \in 0 .. N
  OBVIOUS
<1> HIDE DEF T
<1>4. 0 .. N \subseteq T
  BY <1>1, <1>2, UpTo
<1> QED
  BY <1>3, <1>4 DEF T, Runs

-----------------------------------------------------------------------------
(* Plans.                                                                  *)

RcFiles == ToSet(Rcs)
ExeAction == Action("install", "exe", "exe")
EnvAction == Action("write", "env", "env")
FishAction == Action("write", "hook", "fish_conf")
GithubAction == Action("append", "hook", "github")
RegistryAction == Action("registry", "hook", NoFile)
RcAction(f) == Action("append", "hook", f)
ActionSet == {ExeAction, EnvAction, FishAction, GithubAction, RegistryAction} \cup {RcAction(f) : f \in Files}
PlanSet == [actions : Seq(ActionSet), state : {"ok", "manual", "ci", "updated"}, live : Nat, posix : BOOLEAN]

Distinct(p) == \A i, j \in DOMAIN p.actions : p.actions[i].path = p.actions[j].path => i = j
NoFish(p) == \A i \in DOMAIN p.actions : p.actions[i] # FishAction

(* A file has no line, or w does not let it be seen.                       *)
Clear(h, w, f) == h.lines[f] = 0 \/ f \in Blind(w)

(* What the loops keep of a plan that begins with base, made in a home h   *)
(* seen as w lets it, for choices whose custom file is c.                  *)
Growing(h, w, base, c, p) ==
  /\ p \in PlanSet /\ p.state = base.state /\ Distinct(p)
  /\ Len(base.actions) <= Len(p.actions)
  /\ \A i \in 1 .. Len(base.actions) : p.actions[i] = base.actions[i]
  /\ \A i \in Len(base.actions) + 1 .. Len(p.actions) :
       p.actions[i] = FishAction \/ \E f \in RcFiles \cup {c} : f \in Files /\ Clear(h, w, f) /\ p.actions[i] = RcAction(f)
  /\ p.live > 0 => Hooked(h) \/ h.fish_conf = "current"

(* What is asked of the facts and of a choice.                             *)
FactsOf(h, w, facts) ==
  /\ facts.has_line \subseteq {f \in h.exists : h.lines[f] > 0}
  /\ \A f \in Files \ facts.has_line : Clear(h, w, f)
  /\ facts.fish_current => h.fish_conf = "current"
ChoiceOf(h, w, c, choice) ==
  \/ choice.kind \in {"bash", "zsh", "fish"}
  \/ /\ choice.kind = "custom" /\ choice.custom = c /\ c \in Customs
     /\ IF choice.has_line THEN Hooked(h) ELSE Clear(h, w, c)
HomeOf(h) == h \in HomeType /\ \A f \in Files : h.lines[f] > 0 => f \in h.exists
ChoiceSet == [kind : {"bash", "zsh", "fish", "custom"}, custom : Customs \cup {NoFile}, has_line : BOOLEAN]
OneFish(choices) == \A i, j \in DOMAIN choices.path : choices.path[i].kind = "fish" /\ choices.path[j].kind = "fish" => i = j
ChoicesOf(h, w, choices) ==
  /\ choices.path \in Seq(ChoiceSet)
  /\ OneFish(choices)
  /\ \E c \in Customs \cup {NoFile} : \A i \in DOMAIN choices.path : ChoiceOf(h, w, c, choices.path[i])

LEMMA RcsAre ==
  /\ Len(Rcs) = 6
  /\ \A n \in 1 .. 6 : Rcs[n] \in RcFiles
  /\ RcFiles = {"profile", "bashrc", "bash_profile", "bash_login", "zshenv", "zshrc"}
  /\ RcFiles \subseteq Files
BY DEF Rcs, RcFiles, ToSet, Files

(* The paths of the actions tell them apart.                               *)
LEMMA PathsDiffer ==
  /\ \A f \in Files : f \notin {"exe", "env", "fish_conf", "github", NoFile}
  /\ NoFile \notin {"exe", "env", "fish_conf", "github"}
  /\ \A a, b \in ActionSet : a.path = b.path => a = b
  /\ \A a \in ActionSet : a.path \in Files => a = RcAction(a.path)
<1>0. NoFile \notin {"exe", "env", "fish_conf", "github", "profile", "bashrc", "bash_profile", "bash_login", "zshenv", "zshrc"}
  BY Zenon DEF NoFile
<1>1. \A f \in Files : f \notin {"exe", "env", "fish_conf", "github", NoFile}
  BY <1>0, RcsAre, CustomsAssumption DEF CustomsAssumption, Files, RcFiles
<1>2. \A a \in ActionSet : \/ a = ExeAction /\ a.path = "exe"
                           \/ a = EnvAction /\ a.path = "env"
                           \/ a = FishAction /\ a.path = "fish_conf"
                           \/ a = GithubAction /\ a.path = "github"
                           \/ a = RegistryAction /\ a.path = NoFile
                           \/ a.path \in Files /\ a = RcAction(a.path)
  <2>1. /\ ExeAction.path = "exe" /\ EnvAction.path = "env" /\ FishAction.path = "fish_conf"
        /\ GithubAction.path = "github" /\ RegistryAction.path = NoFile
    BY DEF ExeAction, EnvAction, FishAction, GithubAction, RegistryAction, Action
  <2>2. \A f \in Files : RcAction(f).path = f
    BY DEF RcAction, Action
  <2> QED
    BY <2>1, <2>2 DEF ActionSet
<1> QED
  BY <1>0, <1>1, <1>2

LEMMA PushIs ==
  ASSUME NEW p \in PlanSet, NEW a \in ActionSet
  PROVE  LET q == push_action(p, a)
             L == Len(p.actions)
         IN  /\ q \in PlanSet /\ q.state = p.state /\ q.live = p.live
             /\ L \in Nat /\ DOMAIN p.actions = 1 .. L
             /\ Len(q.actions) = L + 1 /\ DOMAIN q.actions = 1 .. L + 1
             /\ q.actions[L + 1] = a /\ \A i \in 1 .. L : q.actions[i] = p.actions[i]
<1> DEFINE s == Append(p.actions, a)
           q == push_action(p, a)
           L == Len(p.actions)
<1>1. p.actions \in Seq(ActionSet)
  BY DEF PlanSet
<1>2. L \in Nat /\ DOMAIN p.actions = 1 .. L
  BY <1>1
<1>3. s \in Seq(ActionSet) /\ Len(s) = L + 1 /\ DOMAIN s = 1 .. L + 1 /\ s[L + 1] = a /\ \A i \in 1 .. L : s[i] = p.actions[i]
  BY <1>1
<1>4. q = [p EXCEPT !.actions = s]
  BY DEF push_action
<1> HIDE DEF s, q, L
<1>5. q \in PlanSet /\ q.actions = s /\ q.state = p.state /\ q.live = p.live
  BY <1>3, <1>4 DEF PlanSet
<1> QED
  BY <1>2, <1>3, <1>5 DEF q, L

(* An action with a new path goes to the end of a plan.                    *)
LEMMA Pushed ==
  ASSUME NEW h, NEW w, NEW base \in PlanSet, NEW c, NEW p, Growing(h, w, base, c, p), NEW a \in ActionSet,
         ~planned(p, a.path),
         a = FishAction \/ \E f \in RcFiles \cup {c} : f \in Files /\ Clear(h, w, f) /\ a = RcAction(f)
  PROVE  Growing(h, w, base, c, push_action(p, a))
<1> DEFINE q == push_action(p, a)
           L == Len(p.actions)
<1>1. p \in PlanSet /\ p.actions \in Seq(ActionSet) /\ L \in Nat /\ DOMAIN p.actions = 1 .. L /\ Len(base.actions) \in Nat
  BY DEF Growing, PlanSet
<1>2. q \in PlanSet /\ q.state = p.state /\ q.live = p.live
  BY <1>1, PushIs
<1>3. Len(q.actions) = L + 1 /\ DOMAIN q.actions = 1 .. L + 1 /\ q.actions[L + 1] = a /\ \A i \in 1 .. L : q.actions[i] = p.actions[i]
  BY <1>1, PushIs
<1> HIDE DEF q, L
<1>4. Distinct(q)
  <2>1. \A i \in 1 .. L : q.actions[i].path # a.path
    BY <1>1, <1>3 DEF planned
  <2>2. \A i, j \in 1 .. L : q.actions[i].path = q.actions[j].path => i = j
    BY <1>1, <1>3 DEF Growing, Distinct
  <2> QED
    BY <1>1, <1>3, <2>1, <2>2 DEF Distinct
<1>5. Len(base.actions) <= L + 1 /\ \A i \in 1 .. Len(base.actions) : q.actions[i] = base.actions[i]
  BY <1>1, <1>3 DEF Growing, L
<1>6. \A i \in Len(base.actions) + 1 .. L + 1 :
        q.actions[i] = FishAction \/ \E f \in RcFiles \cup {c} : f \in Files /\ Clear(h, w, f) /\ q.actions[i] = RcAction(f)
  <2> TAKE i \in Len(base.actions) + 1 .. L + 1
  <2>1. CASE i = L + 1
    BY <1>3, <2>1
  <2>2. CASE i # L + 1
    <3>1. i \in Len(base.actions) + 1 .. L /\ i \in 1 .. L
      BY <1>1, <2>2
    <3>2. p.actions[i] = FishAction \/ \E f \in RcFiles \cup {c} : f \in Files /\ Clear(h, w, f) /\ p.actions[i] = RcAction(f)
      BY <3>1 DEF Growing, L
    <3> QED
      BY <1>3, <3>1, <3>2
  <2> QED
    BY <2>1, <2>2
<1> QED
  BY <1>2, <1>3, <1>4, <1>5, <1>6 DEF Growing, q

LEMMA PosixHook ==
  ASSUME NEW h, NEW w, NEW base \in PlanSet, NEW c, NEW p, Growing(h, w, base, c, p),
         NEW f \in RcFiles \cup {c}, f \in Files, Clear(h, w, f)
  PROVE  /\ Growing(h, w, base, c, plan_posix_hook(p, f))
         /\ NoFish(p) => NoFish(plan_posix_hook(p, f))
<1> DEFINE x == [p EXCEPT !.posix = TRUE]
<1>1. p \in PlanSet
  BY DEF Growing
<1>2. x \in PlanSet /\ x.actions = p.actions /\ x.state = p.state /\ x.live = p.live
  BY <1>1 DEF PlanSet
<1> HIDE DEF x
<1>3. Growing(h, w, base, c, x)
  BY <1>2 DEF Growing, Distinct
<1>4. CASE planned(p, f)
  <2>1. plan_posix_hook(p, f) = x
    BY <1>4 DEF plan_posix_hook, x
  <2> QED
    BY <1>2, <1>3, <2>1 DEF NoFish
<1>5. CASE ~planned(p, f)
  <2>1. plan_posix_hook(p, f) = push_action(x, RcAction(f))
    BY <1>5, Zenon DEF plan_posix_hook, RcAction, x
  <2>2. RcAction(f) \in ActionSet /\ RcAction(f).path = f
    BY DEF ActionSet, RcAction, Action
  <2>3. ~planned(x, f)
    BY <1>2, <1>5 DEF planned
  <2>4. Growing(h, w, base, c, push_action(x, RcAction(f)))
    BY <1>3, <2>2, <2>3, Pushed
  <2>5. RcAction(f) # FishAction
    BY DEF RcAction, FishAction, Action
  <2>6. NoFish(p) => NoFish(push_action(x, RcAction(f)))
    <3>1. push_action(x, RcAction(f)).actions = Append(p.actions, RcAction(f))
      BY <1>2 DEF push_action, PlanSet
    <3>2. p.actions \in Seq(ActionSet)
      BY <1>1 DEF PlanSet
    <3> HIDE DEF RcAction, FishAction
    <3> QED
      BY <2>2, <2>5, <3>1, <3>2 DEF NoFish
  <2> QED
    BY <2>1, <2>4, <2>6
<1> QED
  BY <1>4, <1>5

Shelled(p, facts, kind) ==
  CHOOSE after : after = [n \in 0 .. Len(Rcs) |->
    IF n = 0 THEN p ELSE IF Rcs[n] \in spn_install_shell_hooks(facts, kind) THEN plan_posix_hook(after[n - 1], Rcs[n]) ELSE after[n - 1]]

LEMMA ShellGrows ==
  ASSUME NEW h, NEW w, HomeOf(h), NEW facts, FactsOf(h, w, facts), NEW base \in PlanSet, NEW c, NEW kind, NEW p, Growing(h, w, base, c, p)
  PROVE  /\ Growing(h, w, base, c, PlanShell(p, facts, kind))
         /\ NoFish(p) => NoFish(PlanShell(p, facts, kind))
<1> DEFINE Step(x, n) == IF Rcs[n] \in spn_install_shell_hooks(facts, kind) THEN plan_posix_hook(x, Rcs[n]) ELSE x
           A == {x \in PlanSet : Growing(h, w, base, c, x) /\ (NoFish(p) => NoFish(x))}
           S == [n \in 0 .. 6 |-> A]
           g == [q \in PlanSet \X (1 .. 6) |-> Step(q[1], q[2])]
           after == Shelled(p, facts, kind)
<1>1. ASSUME NEW n \in 1 .. 6, NEW x \in A PROVE Step(x, n) \in A
  <2>1. Growing(h, w, base, c, x) /\ Rcs[n] \in RcFiles /\ Rcs[n] \in Files
    BY RcsAre
  <2>2. CASE Rcs[n] \in spn_install_shell_hooks(facts, kind)
    <3>1. Rcs[n] \notin facts.has_line
      BY <2>2 DEF spn_install_shell_hooks
    <3>2. Clear(h, w, Rcs[n])
      BY <2>1, <3>1 DEF FactsOf
    <3>3. Growing(h, w, base, c, plan_posix_hook(x, Rcs[n])) /\ (NoFish(x) => NoFish(plan_posix_hook(x, Rcs[n])))
      BY <2>1, <3>2, PosixHook
    <3>4. plan_posix_hook(x, Rcs[n]) \in PlanSet
      BY <3>3 DEF Growing
    <3> QED
      BY <2>2, <3>3, <3>4
  <2>3. CASE Rcs[n] \notin spn_install_shell_hooks(facts, kind)
    BY <2>3
  <2> QED
    BY <2>2, <2>3
<1>2. p \in A
  BY DEF Growing
<1> HIDE DEF A, Step
<1>3. A \subseteq PlanSet
  BY DEF A
<1>4. \E f : Runs(6, S, p, g, f)
  <2>1. Leads(6, S, p, g)
    BY <1>1, <1>2, <1>3 DEF Leads
  <2> HIDE DEF g, S
  <2> QED
    BY <2>1, Loop
<1>5. \E f : f = [n \in 0 .. 6 |-> IF n = 0 THEN p ELSE Step(f[n - 1], n)]
  <2>1. PICK f : f = [n \in 0 .. 6 |-> IF n = 0 THEN p ELSE g[<<f[n - 1], n>>]] /\ \A n \in 0 .. 6 : f[n] \in S[n]
    BY <1>4, Zenon DEF Runs
  <2>2. \A n \in 1 .. 6 : g[<<f[n - 1], n>>] = Step(f[n - 1], n)
    BY <1>3, <2>1
  <2>3. f = [n \in 0 .. 6 |-> IF n = 0 THEN p ELSE Step(f[n - 1], n)]
    <3> HIDE DEF g, S
    <3>1. \A n \in 0 .. 6 : (IF n = 0 THEN p ELSE g[<<f[n - 1], n>>]) = (IF n = 0 THEN p ELSE Step(f[n - 1], n))
      BY <2>2
    <3> QED
      BY <2>1, <3>1
  <2> QED
    BY <2>3
<1>6. after = [n \in 0 .. 6 |-> IF n = 0 THEN p ELSE Step(after[n - 1], n)]
  <2>1. after = CHOOSE f : f = [n \in 0 .. 6 |-> IF n = 0 THEN p ELSE Step(f[n - 1], n)]
    BY RcsAre, Zenon DEF Shelled, Step
  <2> QED
    BY <1>5, <2>1, Zenon
<1> HIDE DEF after
<1>7. 0 .. 6 \subseteq {n \in 0 .. 6 : after[n] \in A}
  <2> DEFINE T == {n \in 0 .. 6 : after[n] \in A}
  <2>1. 0 \in T
    BY <1>2, <1>6
  <2>2. \A n \in 0 .. 6 - 1 : n \in T => n + 1 \in T
    <3> TAKE n \in 0 .. 6 - 1
    <3>1. n + 1 \in 1 .. 6 /\ n + 1 \in 0 .. 6 /\ (n + 1) - 1 = n /\ n + 1 # 0
      OBVIOUS
    <3>2. after[n + 1] = Step(after[n], n + 1)
      BY <1>6, <3>1
    <3> QED
      BY <1>1, <3>1, <3>2
  <2> HIDE DEF T
  <2>3. 0 .. 6 \subseteq T
    BY <2>1, <2>2, UpTo
  <2> QED
    BY <2>3 DEF T
<1>8. after[6] \in A
  BY <1>7
<1>9. PlanShell(p, facts, kind) = after[6]
  BY RcsAre, Zenon DEF PlanShell, Shelled, after
<1> QED
  BY <1>8, <1>9 DEF A


LEMMA ChoiceGrows ==
  ASSUME NEW h, NEW w, HomeOf(h), NEW facts, FactsOf(h, w, facts), NEW base \in PlanSet, NEW c, NEW choice, ChoiceOf(h, w, c, choice),
         NEW p, Growing(h, w, base, c, p), choice.kind = "fish" => NoFish(p)
  PROVE  /\ Growing(h, w, base, c, PlanChoice(p, facts, choice))
         /\ choice.kind # "fish" /\ NoFish(p) => NoFish(PlanChoice(p, facts, choice))
<1> DEFINE q == PlanChoice(p, facts, choice)
<1>1. p \in PlanSet /\ p.live \in Nat
  BY DEF Growing, PlanSet
<1>2. CASE choice.kind \in {"bash", "zsh"}
  <2>1. q = PlanShell(p, facts, choice.kind)
    BY <1>2, Zenon DEF PlanChoice
  <2>2. Growing(h, w, base, c, PlanShell(p, facts, choice.kind)) /\ (NoFish(p) => NoFish(PlanShell(p, facts, choice.kind)))
    BY ShellGrows
  <2> QED
    BY <2>1, <2>2
<1>3. CASE choice.kind = "fish"
  <2>1. q = IF facts.fish_current THEN [p EXCEPT !.live = @ + 1] ELSE push_action(p, FishAction)
    BY <1>3 DEF PlanChoice, FishAction
  <2>2. CASE facts.fish_current
    <3>1. q = [p EXCEPT !.live = @ + 1]
      BY <2>1, <2>2
    <3>2. q \in PlanSet /\ q.actions = p.actions /\ q.state = p.state
      BY <1>1, <3>1 DEF PlanSet
    <3>3. h.fish_conf = "current"
      BY <2>2 DEF FactsOf
    <3> HIDE DEF q
    <3>4. Growing(h, w, base, c, q)
      BY <3>2, <3>3 DEF Growing, Distinct
    <3> QED
      BY <1>3, <3>4 DEF q
  <2>3. CASE ~facts.fish_current
    <3>1. q = push_action(p, FishAction)
      BY <2>1, <2>3
    <3>2. FishAction \in ActionSet /\ FishAction.path = "fish_conf"
      BY DEF ActionSet, FishAction, Action
    <3>3. ~planned(p, "fish_conf")
      <4>1. NoFish(p)
        BY <1>3
      <4>2. \A i \in DOMAIN p.actions : p.actions[i] \in ActionSet
        BY <1>1 DEF PlanSet
      <4> HIDE DEF FishAction
      <4> QED
        BY <3>2, <4>1, <4>2, PathsDiffer DEF NoFish, planned
    <3>4. Growing(h, w, base, c, push_action(p, FishAction))
      BY <3>2, <3>3, Pushed
    <3> QED
      BY <1>3, <3>1, <3>4
  <2> QED
    BY <2>2, <2>3
<1>4. CASE choice.kind = "custom"
  <2>0. choice.custom = c /\ c \in Customs /\ c \in Files /\ IF choice.has_line THEN Hooked(h) ELSE Clear(h, w, c)
    BY <1>4 DEF ChoiceOf, Files
  <2>1. q = IF choice.has_line THEN [p EXCEPT !.posix = TRUE, !.live = IF rc_live(facts, c) THEN @ ELSE @ + 1]
            ELSE plan_posix_hook(p, c)
    BY <1>4, <2>0 DEF PlanChoice
  <2>2. CASE choice.has_line
    <3> DEFINE n == IF rc_live(facts, c) THEN p.live ELSE p.live + 1
    <3>1. n \in Nat
      BY <1>1
    <3>2. q = [p EXCEPT !.posix = TRUE, !.live = n]
      BY <2>1, <2>2
    <3> HIDE DEF n
    <3>3. q \in PlanSet /\ q.actions = p.actions /\ q.state = p.state
      BY <1>1, <3>1, <3>2 DEF PlanSet
    <3>4. Hooked(h)
      BY <2>0, <2>2
    <3> HIDE DEF q
    <3>5. Growing(h, w, base, c, q)
      BY <3>3, <3>4 DEF Growing, Distinct
    <3>6. NoFish(p) => NoFish(q)
      BY <3>3 DEF NoFish
    <3> QED
      BY <3>5, <3>6 DEF q
  <2>3. CASE ~choice.has_line
    <3>1. q = plan_posix_hook(p, c) /\ c \in RcFiles \cup {c} /\ Clear(h, w, c)
      BY <2>0, <2>1, <2>3
    <3> HIDE DEF q
    <3>2. Growing(h, w, base, c, q) /\ (NoFish(p) => NoFish(q))
      BY <2>0, <3>1, PosixHook
    <3> QED
      BY <3>2 DEF q
  <2> QED
    BY <2>2, <2>3
<1> QED
  BY <1>2, <1>3, <1>4 DEF ChoiceOf

Hooking(p, facts, choices) ==
  CHOOSE after : after = [n \in 0 .. Len(choices.path) |->
    IF n = 0 THEN [p EXCEPT !.live = @ + Cardinality(facts.has_line \cap ToSet(Rcs)), !.posix = @ \/ Cardinality(facts.has_line \cap ToSet(Rcs)) > 0]
    ELSE PlanChoice(after[n - 1], facts, choices.path[n])]

(* The hooks of all choices, after a plan that has none.                   *)
LEMMA HooksGrow ==
  ASSUME NEW h, NEW w, HomeOf(h), NEW facts, FactsOf(h, w, facts), NEW base \in PlanSet, Distinct(base), NoFish(base), base.live = 0,
         NEW choices, Len(choices.path) \in Nat, DOMAIN choices.path = 1 .. Len(choices.path), OneFish(choices),
         NEW c, \A i \in DOMAIN choices.path : ChoiceOf(h, w, c, choices.path[i])
  PROVE  Growing(h, w, base, c, plan_unix_hooks(base, facts, choices))
<1> DEFINE N == Len(choices.path)
           live == Cardinality(facts.has_line \cap ToSet(Rcs))
           p == [base EXCEPT !.live = @ + live, !.posix = @ \/ live > 0]
           Step(x, n) == PlanChoice(x, facts, choices.path[n])
           A(n) == {x \in PlanSet : Growing(h, w, base, c, x) /\ ((\A j \in 1 .. n : choices.path[j].kind # "fish") => NoFish(x))}
           S == [n \in 0 .. N |-> A(n)]
           g == [q \in PlanSet \X (1 .. N) |-> Step(q[1], q[2])]
           after == Hooking(base, facts, choices)
<1>0. N \in Nat
  OBVIOUS
<1>1. ASSUME NEW n \in 1 .. N, NEW x \in A(n - 1) PROVE Step(x, n) \in A(n)
  <2>1. Growing(h, w, base, c, x) /\ n \in DOMAIN choices.path
    OBVIOUS
  <2>2. ChoiceOf(h, w, c, choices.path[n])
    BY <2>1
  <2>3. choices.path[n].kind = "fish" => NoFish(x)
    <3>1. \A j \in 1 .. n - 1 : j \in DOMAIN choices.path /\ j # n
      BY <1>0
    <3> QED
      BY <2>1, <3>1 DEF OneFish
  <2>4. Growing(h, w, base, c, Step(x, n)) /\ (choices.path[n].kind # "fish" /\ NoFish(x) => NoFish(Step(x, n)))
    BY <2>1, <2>2, <2>3, ChoiceGrows
  <2>5. Step(x, n) \in PlanSet
    BY <2>4 DEF Growing
  <2>6. (\A j \in 1 .. n : choices.path[j].kind # "fish") => NoFish(x) /\ choices.path[n].kind # "fish"
    <3>1. \A j \in 1 .. n - 1 : j \in 1 .. n
      BY <1>0
    <3>2. n \in 1 .. n
      BY <1>0
    <3> QED
      BY <3>1, <3>2
  <2> HIDE DEF Step
  <2> QED
    BY <2>4, <2>5, <2>6
<1>2. p \in A(0)
  <2>1. live \in Nat /\ (live > 0 => \E f \in RcFiles : f \in facts.has_line)
    <3>1. IsFiniteSet(RcFiles)
      <4>1. RcFiles = {"profile", "bashrc", "bash_profile", "bash_login", "zshenv", "zshrc"}
        BY RcsAre
      <4>2. IsFiniteSet({"profile"} \cup {"bashrc"})
        BY FS_Singleton, FS_AddElement
      <4>3. IsFiniteSet(({"profile"} \cup {"bashrc"}) \cup {"bash_profile"})
        BY <4>2, FS_AddElement
      <4>4. IsFiniteSet((({"profile"} \cup {"bashrc"}) \cup {"bash_profile"}) \cup {"bash_login"})
        BY <4>3, FS_AddElement
      <4>5. IsFiniteSet({"zshenv"} \cup {"zshrc"})
        BY FS_Singleton, FS_AddElement
      <4>6. IsFiniteSet(((({"profile"} \cup {"bashrc"}) \cup {"bash_profile"}) \cup {"bash_login"}) \cup ({"zshenv"} \cup {"zshrc"}))
        BY <4>4, <4>5, FS_Union
      <4>7. RcFiles = ((({"profile"} \cup {"bashrc"}) \cup {"bash_profile"}) \cup {"bash_login"}) \cup ({"zshenv"} \cup {"zshrc"})
        BY <4>1
      <4> QED
        BY <4>6, <4>7
    <3>2. IsFiniteSet(facts.has_line \cap RcFiles)
      BY <3>1, FS_Intersection
    <3>3. live \in Nat /\ (live = 0 <=> facts.has_line \cap RcFiles = {})
      BY <3>2, FS_CardinalityType, FS_EmptySet DEF RcFiles
    <3> QED
      BY <3>3
  <2>2. live > 0 => Hooked(h)
    BY <2>1 DEF FactsOf, Hooked
  <2> HIDE DEF live
  <2> DEFINE b == base.posix \/ live > 0
             n == base.live + live
  <2>3. b \in BOOLEAN /\ n \in Nat /\ n = live
    BY <2>1 DEF PlanSet
  <2>4. p = [base EXCEPT !.live = n, !.posix = b]
    OBVIOUS
  <2> HIDE DEF b, n
  <2>5. p \in PlanSet /\ p.actions = base.actions /\ p.state = base.state /\ p.live = n
    BY <2>3, <2>4 DEF PlanSet
  <2> HIDE DEF p
  <2>6. Len(base.actions) \in Nat /\ DOMAIN base.actions = 1 .. Len(base.actions)
    BY DEF PlanSet
  <2>7. Growing(h, w, base, c, p)
    BY <2>2, <2>3, <2>5, <2>6 DEF Growing, Distinct
  <2> QED
    BY <2>5, <2>7 DEF NoFish
<1> HIDE DEF A, Step
<1>3. \A n \in 0 .. N : A(n) \subseteq PlanSet
  BY DEF A
<1>4. \E f : Runs(N, S, p, g, f)
  <2> HIDE DEF p
  <2>1. p \in S[0]
    BY <1>0, <1>2
  <2>2. \A n \in 1 .. N : \A x \in S[n - 1] : g[<<x, n>>] \in S[n]
    <3> SUFFICES ASSUME NEW n \in 1 .. N, NEW x \in S[n - 1] PROVE g[<<x, n>>] \in S[n]
      OBVIOUS
    <3>1. n - 1 \in 0 .. N /\ n \in 0 .. N
      BY <1>0
    <3>2. x \in A(n - 1) /\ x \in PlanSet /\ S[n] = A(n)
      BY <1>3, <3>1
    <3>3. Step(x, n) \in A(n)
      BY <1>1, <3>2
    <3>4. g[<<x, n>>] = Step(x, n)
      BY <3>2
    <3> QED
      BY <3>2, <3>3, <3>4
  <2> HIDE DEF g, S, N
  <2>3. Leads(N, S, p, g)
    BY <2>1, <2>2 DEF Leads
  <2> QED
    BY <1>0, <2>3, Loop
<1>5. \E f : f = [n \in 0 .. N |-> IF n = 0 THEN p ELSE Step(f[n - 1], n)]
  <2> HIDE DEF p
  <2>1. PICK f : f = [n \in 0 .. N |-> IF n = 0 THEN p ELSE g[<<f[n - 1], n>>]] /\ \A n \in 0 .. N : f[n] \in S[n]
    BY <1>4, Zenon DEF Runs
  <2>2. \A n \in 1 .. N : g[<<f[n - 1], n>>] = Step(f[n - 1], n)
    <3> TAKE n \in 1 .. N
    <3>1. n - 1 \in 0 .. N
      BY <1>0
    <3>2. f[n - 1] \in PlanSet
      BY <1>3, <2>1, <3>1
    <3> QED
      BY <3>2
  <2>3. f = [n \in 0 .. N |-> IF n = 0 THEN p ELSE Step(f[n - 1], n)]
    <3> HIDE DEF g, S, N
    <3>1. \A n \in 0 .. N : (IF n = 0 THEN p ELSE g[<<f[n - 1], n>>]) = (IF n = 0 THEN p ELSE Step(f[n - 1], n))
      BY <1>0, <2>2
    <3> QED
      BY <2>1, <3>1
  <2> QED
    BY <2>3
<1>6. after = [n \in 0 .. N |-> IF n = 0 THEN p ELSE Step(after[n - 1], n)]
  <2>1. after = CHOOSE f : f = [n \in 0 .. N |-> IF n = 0 THEN p ELSE Step(f[n - 1], n)]
    BY Zenon DEF Hooking, Step
  <2> HIDE DEF p, N, after
  <2> QED
    BY <1>5, <2>1, Zenon
<1> HIDE DEF after, p
<1>7. 0 .. N \subseteq {n \in 0 .. N : after[n] \in A(n)}
  <2> HIDE DEF N
  <2> DEFINE T == {n \in 0 .. N : after[n] \in A(n)}
  <2>1. 0 \in T
    <3>1. 0 \in 0 .. N
      BY <1>0
    <3> QED
      BY <1>2, <1>6, <3>1
  <2>2. \A n \in 0 .. N - 1 : n \in T => n + 1 \in T
    <3> TAKE n \in 0 .. N - 1
    <3>1. n + 1 \in 1 .. N /\ n + 1 \in 0 .. N /\ (n + 1) - 1 = n /\ n + 1 # 0
      BY <1>0
    <3>2. after[n + 1] = Step(after[n], n + 1)
      BY <1>6, <3>1
    <3>3. after[n] \in A(n) => Step(after[n], n + 1) \in A(n + 1)
      BY <1>1, <3>1
    <3> QED
      BY <3>1, <3>2, <3>3
  <2> HIDE DEF T
  <2>3. 0 .. N \subseteq T
    BY <1>0, <2>1, <2>2, UpTo
  <2> QED
    BY <2>3 DEF T
<1>8. after[N] \in A(N)
  BY <1>0, <1>7
<1>9. plan_unix_hooks(base, facts, choices) = after[N]
  BY Zenon DEF plan_unix_hooks, Hooking, after
<1> QED
  BY <1>8, <1>9 DEF A

-----------------------------------------------------------------------------
(* The choices.                                                            *)

ShellSet == {Choice("bash"), Choice("zsh"), Choice("fish")}

LEMMA ShellSetIs ==
  /\ ShellSet \subseteq ChoiceSet
  /\ \A x \in ShellSet : x.kind \in {"bash", "zsh", "fish"}
  /\ Choice("bash").kind = "bash" /\ Choice("zsh").kind = "zsh" /\ Choice("fish").kind = "fish"
<1>1. \A kind \in {"bash", "zsh", "fish"} : Choice(kind).kind = kind
  BY DEF Choice
<1>3. FALSE \in BOOLEAN
  BY Zenon
<1>4. \A kind \in {"bash", "zsh", "fish"} : Choice(kind) \in ChoiceSet
  BY <1>3, Zenon DEF Choice, ChoiceSet
<1> QED
  BY <1>1, <1>4 DEF ShellSet

(* A choice is put after others, or not.                                   *)
LEMMA PutAfter ==
  ASSUME NEW X, NEW s \in Seq(X), NEW x \in X
  PROVE  /\ s \o <<x>> \in Seq(X) /\ Len(s \o <<x>>) = Len(s) + 1
         /\ (s \o <<x>>)[Len(s) + 1] = x /\ \A i \in 1 .. Len(s) : (s \o <<x>>)[i] = s[i]
         /\ s \o <<>> = s
OBVIOUS

LEMMA ShellsAre ==
  ASSUME NEW picked
  PROVE  /\ Shells(picked) \in Seq(ShellSet)
         /\ \A i, j \in DOMAIN Shells(picked) : Shells(picked)[i].kind = "fish" /\ Shells(picked)[j].kind = "fish" => i = j
<1> DEFINE bash == IF "bash" \in picked THEN <<Choice("bash")>> ELSE <<>>
           zsh == IF "zsh" \in picked THEN <<Choice("zsh")>> ELSE <<>>
           fish == IF "fish" \in picked THEN <<Choice("fish")>> ELSE <<>>
           Two == {Choice("bash"), Choice("zsh")}
           s == bash \o zsh
<1>1. Shells(picked) = s \o fish
  BY Zenon DEF Shells
<1>2. s \in Seq(Two)
  <2>1. <<>> \in Seq(Two) /\ <<Choice("bash")>> \in Seq(Two) /\ <<Choice("zsh")>> \in Seq(Two)
    OBVIOUS
  <2>2. bash \in Seq(Two) /\ zsh \in Seq(Two)
    BY <2>1, Zenon
  <2> HIDE DEF bash, zsh, Two
  <2> QED
    BY <2>2
<1>3. s \in Seq(ShellSet) /\ \A i \in DOMAIN s : s[i].kind # "fish"
  <2>1. Two \subseteq ShellSet /\ \A x \in Two : x.kind # "fish"
    BY ShellSetIs DEF ShellSet
  <2> HIDE DEF s, Two
  <2> QED
    BY <1>2, <2>1
<1> HIDE DEF s
<1>4. CASE "fish" \in picked
  <2> DEFINE x == Choice("fish")
             t == s \o <<x>>
  <2>1. Shells(picked) = t /\ x \in ShellSet
    BY <1>1, <1>4 DEF ShellSet
  <2> HIDE DEF x
  <2>2. t \in Seq(ShellSet) /\ Len(t) = Len(s) + 1 /\ \A i \in 1 .. Len(s) : t[i] = s[i]
    BY <1>3, <2>1, PutAfter
  <2> HIDE DEF t
  <2>3. \A i \in DOMAIN t : t[i].kind = "fish" => i = Len(s) + 1
    BY <1>3, <2>2
  <2> QED
    BY <2>1, <2>2, <2>3
<1>5. CASE "fish" \notin picked
  BY <1>1, <1>3, <1>5
<1> QED
  BY <1>4, <1>5

LEMMA FirstChoices ==
  ASSUME NEW h, NEW os, NEW w, NEW facts
  PROVE  ChoicesOf(h, w, spn_install_choices(os, w, facts))
<1> DEFINE choices == spn_install_choices(os, w, facts)
<1>1. (\E picked : choices.path = Shells(picked)) \/ choices.path = <<>>
  BY DEF spn_install_choices
<1> HIDE DEF choices
<1>2. choices.path \in Seq(ShellSet) /\ OneFish(choices)
  <2>1. CASE \E picked : choices.path = Shells(picked)
    <3>1. PICK picked : choices.path = Shells(picked)
      BY <2>1
    <3> QED
      BY <3>1, ShellsAre DEF OneFish
  <2>2. CASE choices.path = <<>>
    <3>1. DOMAIN choices.path = {} /\ choices.path \in Seq(ShellSet)
      BY <2>2
    <3> QED
      BY <3>1 DEF OneFish
  <2> QED
    BY <1>1, <2>1, <2>2
<1>3. choices.path \in Seq(ChoiceSet) /\ \A i \in DOMAIN choices.path : choices.path[i].kind \in {"bash", "zsh", "fish"}
  BY <1>2, ShellSetIs
<1> QED
  BY <1>2, <1>3 DEF ChoicesOf, ChoiceOf, choices

LEMMA PromptChoices ==
  ASSUME HomeOf(home), NEW choices \in prompt_choices
  PROVE  ChoicesOf(home, install.world, choices)
<1>1. CASE choices.path = <<>>
  <2>1. choices.path \in Seq(ChoiceSet) /\ DOMAIN choices.path = {}
    BY <1>1
  <2> QED
    BY <2>1 DEF ChoicesOf, OneFish
<1>2. CASE \E picked : \E custom \in custom_file : choices.path = Shells(picked) \o (IF "custom" \in picked /\ custom.custom # NoFile THEN <<custom>> ELSE <<>>)
  <2>1. PICK picked : \E custom \in custom_file : choices.path = Shells(picked) \o (IF "custom" \in picked /\ custom.custom # NoFile THEN <<custom>> ELSE <<>>)
    BY <1>2
  <2>0. PICK custom \in custom_file : choices.path = Shells(picked) \o (IF "custom" \in picked /\ custom.custom # NoFile THEN <<custom>> ELSE <<>>)
    BY <2>1
  <2> DEFINE s == Shells(picked)
  <2>2. s \in Seq(ShellSet) /\ \A i, j \in DOMAIN s : s[i].kind = "fish" /\ s[j].kind = "fish" => i = j
    BY ShellsAre
  <2>3. s \in Seq(ChoiceSet) /\ \A i \in DOMAIN s : s[i].kind \in {"bash", "zsh", "fish"}
    BY <2>2, ShellSetIs
  <2> HIDE DEF s
  <2>4. CASE "custom" \in picked /\ custom.custom # NoFile
    <3> DEFINE t == s \o <<custom>>
    <3>1. choices.path = t
      BY <2>0, <2>4 DEF s
    <3>2. custom \in ChoiceSet /\ ChoiceOf(home, install.world, custom.custom, custom) /\ custom.custom \in Customs /\ custom.kind # "fish"
      <4>1. PICK f \in Customs : custom = [kind |-> "custom", custom |-> f, has_line |-> f \in home.exists \ install.world.blind.unread /\ home.lines[f] > 0]
        <5>1. Choice("custom").custom = NoFile
          BY DEF Choice
        <5> QED
          BY <2>4, <5>1, Zenon DEF custom_file
      <4>2. f \in STRING /\ f \in Files
        BY CustomsAssumption DEF CustomsAssumption, Files
      <4>3. custom.kind = "custom" /\ custom.custom = f
        BY <4>1
      <4>4. custom.has_line <=> f \in home.exists \ install.world.blind.unread /\ home.lines[f] > 0
        BY <4>1, Zenon
      <4>5. IF custom.has_line THEN Hooked(home) ELSE Clear(home, install.world, f)
        <5>1. home.lines[f] \in Nat /\ (home.lines[f] > 0 => f \in home.exists)
          BY <4>2 DEF HomeOf, HomeType
        <5>2. ~(f \in home.exists \ install.world.blind.unread /\ home.lines[f] > 0) => Clear(home, install.world, f)
          BY <5>1 DEF Clear, Blind
        <5>3. f \in home.exists \ install.world.blind.unread /\ home.lines[f] > 0 => Hooked(home)
          BY DEF Hooked
        <5> QED
          BY <4>4, <5>2, <5>3
      <4>6. custom \in ChoiceSet
        <5>1. (f \in home.exists \ install.world.blind.unread /\ home.lines[f] > 0) \in BOOLEAN
          OBVIOUS
        <5> DEFINE b == f \in home.exists \ install.world.blind.unread /\ home.lines[f] > 0
        <5>2. b \in BOOLEAN /\ custom = [kind |-> "custom", custom |-> f, has_line |-> b]
          BY <4>1, <5>1
        <5> HIDE DEF b
        <5> QED
          BY <4>2, <5>2 DEF ChoiceSet
      <4> QED
        BY <4>3, <4>5, <4>6 DEF ChoiceOf
    <3>3. t \in Seq(ChoiceSet) /\ Len(t) = Len(s) + 1 /\ t[Len(s) + 1] = custom /\ \A i \in 1 .. Len(s) : t[i] = s[i]
      BY <2>3, <3>2, PutAfter
    <3> HIDE DEF t
    <3>4. \A i \in DOMAIN t : (i \in DOMAIN s /\ t[i] = s[i]) \/ (i = Len(s) + 1 /\ t[i] = custom)
      BY <2>3, <3>3
    <3>5. OneFish(choices)
      BY <2>2, <3>1, <3>2, <3>4 DEF OneFish
    <3>6. \A i \in DOMAIN t : ChoiceOf(home, install.world, custom.custom, t[i])
      BY <2>3, <3>2, <3>4 DEF ChoiceOf
    <3> QED
      BY <3>1, <3>2, <3>3, <3>5, <3>6 DEF ChoicesOf
  <2>5. CASE ~("custom" \in picked /\ custom.custom # NoFile)
    <3>1. choices.path = s
      <4>1. choices.path = s \o <<>>
        BY <2>0, <2>5 DEF s
      <4> QED
        BY <2>2, <4>1
    <3>2. OneFish(choices)
      BY <2>2, <3>1 DEF OneFish
    <3> QED
      BY <2>3, <3>1, <3>2 DEF ChoicesOf, ChoiceOf
  <2> QED
    BY <2>4, <2>5
<1>3. choices.path = <<>> \/ \E picked : \E custom \in custom_file : choices.path = Shells(picked) \o (IF "custom" \in picked /\ custom.custom # NoFile THEN <<custom>> ELSE <<>>)
  <2>1. CASE home.os = "unix"
    <3>1. choices \in prompt_path
      BY <2>1 DEF prompt_choices
    <3>2. \E picked : \E custom \in custom_file : choices = [path |-> Picked(picked, custom), registry |-> FALSE]
      BY <3>1, SMT DEF prompt_path
    <3>3. \E picked : \E custom \in custom_file : choices.path = Picked(picked, custom)
      BY <3>2
    <3> QED
      BY <3>3, Zenon DEF Picked
  <2>2. CASE home.os # "unix"
    <3>1. PICK b \in BOOLEAN : choices = [path |-> <<>>, registry |-> b]
      BY <2>2, Zenon DEF prompt_choices
    <3> QED
      BY <3>1
  <2> QED
    BY <2>1, <2>2
<1> QED
  BY <1>1, <1>2, <1>3

-----------------------------------------------------------------------------
(* The inductive invariant.                                                *)

IsHook(a) == a.role = "hook"

(* What a plan is good for, whenever it is carried out.                    *)
PlanOf(h, w, facts, p) ==
  /\ p \in PlanSet /\ Distinct(p) /\ Len(p.actions) <= 10
  /\ facts.own \/ (Len(p.actions) >= 1 /\ p.actions[1] = ExeAction)
  /\ \A i \in DOMAIN p.actions : p.actions[i] = RegistryAction => facts.registry.kind # "other"
  /\ p.state = "ok" => w.on_path
  /\ p.state = "ci" => p.live = 0 /\ \A i \in DOMAIN p.actions : IsHook(p.actions[i]) => p.actions[i] = GithubAction
  /\ p.state = "updated" /\ h.os = "unix" =>
       /\ facts.env_current \/ \E i \in DOMAIN p.actions : p.actions[i] = EnvAction
       /\ \A i \in DOMAIN p.actions : IsHook(p.actions[i]) => p.actions[i] = FishAction \/ \E f \in Files : p.actions[i] = RcAction(f)
       /\ p.live > 0 => Hooked(h) \/ h.fish_conf = "current"
  /\ p.state = "updated" /\ h.os # "unix" =>
       /\ \A i \in DOMAIN p.actions : IsHook(p.actions[i]) => p.actions[i] = RegistryAction
       /\ p.live > 0 => registry_contains(h.registry.path)
(* The files a plan has yet to append to do not source the env file.       *)
Fresh(h, w, p, at) == \A i \in DOMAIN p.actions, f \in Files : i >= at /\ p.actions[i] = RcAction(f) => Clear(h, w, f)
(* The facts, after any of the steps.                                      *)
RegistryOf(registry) ==
  /\ registry \in [kind : {"none", "sz", "expand", "other"}, path : Seq(Dirs)]
  /\ registry.path # <<>> => Last(registry.path) \in {"user", "bin"}
  /\ registry.kind = "expand" => registry.path # <<>> /\ Last(registry.path) = "user"
FactsKept(h, facts) ==
  /\ facts.own => h.exe # "none"
  /\ facts.env_current => h.env = "current"
  /\ RegistryOf(facts.registry)
(* What a run knows of the home when it plans.                             *)
Found(h, w, facts) ==
  /\ FactsOf(h, w, facts) /\ FactsKept(h, facts)
  /\ facts.registry.kind = "other" \/ facts.registry = h.registry
  /\ registry_contains(facts.registry.path) => registry_contains(h.registry.path)
(* What an action that went through has left.                              *)
Effect(h, a) ==
  /\ a = ExeAction => h.exe # "none"
  /\ a = EnvAction => h.env = "current"
  /\ a = FishAction => h.fish_conf = "current"
  /\ a = GithubAction => h.github
  /\ a = RegistryAction => registry_contains(h.registry.path)
  /\ \A f \in Files : a = RcAction(f) => Hooked(h)
StuckOf(p, at, stuck) ==
  /\ stuck \in Seq(Nat) /\ Len(stuck) < at
  /\ \A k \in DOMAIN stuck : stuck[k] \in 1 .. at - 1 /\ p.actions[stuck[k]] # ExeAction
Shape(r) ==
  r = [stage |-> r.stage, world |-> r.world, facts |-> r.facts, choices |-> r.choices, can_path |-> r.can_path, plan |-> r.plan,
       at |-> r.at, stuck |-> r.stuck, err |-> r.err, msgs |-> r.msgs, runs |-> r.runs]

Asking(h, r) == r.stage \in {"prompt", "confirm"} => Found(h, r.world, r.facts) /\ ChoicesOf(h, r.world, r.choices) /\ r.at = 1
Going(h, r) ==
  /\ PlanOf(h, r.world, r.facts, r.plan)
  /\ FactsKept(h, r.facts)
  /\ Fresh(h, r.world, r.plan, r.at)
  /\ r.at \in 1 .. Len(r.plan.actions) + 1
  /\ r.at > 1 => h.exe # "none"
  /\ StuckOf(r.plan, r.at, r.stuck)
  /\ \A i \in 1 .. r.at - 1 : i \in ToSet(r.stuck) \/ Effect(h, r.plan.actions[i])
Reported(h, r) ==
  IF r.err = "exe" THEN r.msgs = <<>>
  ELSE /\ r.at = Len(r.plan.actions) + 1
       /\ r.err = IF r.stuck # <<>> THEN "stuck" ELSE "ok"
       /\ r.msgs = spn_install_report(h.os, r.facts, r.plan, r.stuck)
RunOf(h, r) ==
  r.stage # "idle" =>
    /\ Shape(r) /\ Asking(h, r) /\ Going(h, r)
    /\ IF r.stage = "done" THEN Reported(h, r) ELSE r.msgs = <<>>
HomeInv == HomeOf(home) /\ HomeSound(home)
RunInv == install.stage \in {"idle", "prompt", "confirm", "run", "done"} /\ RunOf(home, install)
IInv == HomeInv /\ RunInv

-----------------------------------------------------------------------------
(* The plan is good.                                                       *)

PathRank(path) ==
  IF path = "exe" THEN 1 ELSE IF path = "env" THEN 2 ELSE IF path = "fish_conf" THEN 3 ELSE IF path = "profile" THEN 4
  ELSE IF path = "bashrc" THEN 5 ELSE IF path = "bash_profile" THEN 6 ELSE IF path = "bash_login" THEN 7
  ELSE IF path = "zshenv" THEN 8 ELSE IF path = "zshrc" THEN 9 ELSE 10

LEMMA ActionsAre ==
  /\ ExeAction \in ActionSet /\ EnvAction \in ActionSet /\ FishAction \in ActionSet /\ GithubAction \in ActionSet /\ RegistryAction \in ActionSet
  /\ \A f \in Files : RcAction(f) \in ActionSet
  /\ ExeAction.path = "exe" /\ EnvAction.path = "env" /\ FishAction.path = "fish_conf" /\ GithubAction.path = "github" /\ RegistryAction.path = NoFile
  /\ \A f : RcAction(f).path = f /\ RcAction(f).role = "hook"
  /\ ExeAction.role = "exe" /\ EnvAction.role = "env" /\ FishAction.role = "hook" /\ GithubAction.role = "hook" /\ RegistryAction.role = "hook"
  /\ \A a \in ActionSet : a.role = "exe" <=> a = ExeAction
  /\ \A a \in ActionSet : a.role = "env" <=> a = EnvAction
  /\ \A a \in ActionSet : IsHook(a) <=> a \notin {ExeAction, EnvAction}
<1>1. ExeAction.path = "exe" /\ EnvAction.path = "env" /\ FishAction.path = "fish_conf" /\ GithubAction.path = "github" /\ RegistryAction.path = NoFile
  BY DEF ExeAction, EnvAction, FishAction, GithubAction, RegistryAction, Action
<1>2. ExeAction.role = "exe" /\ EnvAction.role = "env" /\ FishAction.role = "hook" /\ GithubAction.role = "hook" /\ RegistryAction.role = "hook"
  BY DEF ExeAction, EnvAction, FishAction, GithubAction, RegistryAction, Action
<1>3. \A f : RcAction(f).path = f /\ RcAction(f).role = "hook"
  BY DEF RcAction, Action
<1>4. \A a \in ActionSet : a \in {ExeAction, EnvAction, FishAction, GithubAction, RegistryAction} \/ \E f \in Files : a = RcAction(f)
  BY DEF ActionSet
<1>5. /\ ExeAction \in ActionSet /\ EnvAction \in ActionSet /\ FishAction \in ActionSet /\ GithubAction \in ActionSet /\ RegistryAction \in ActionSet
      /\ \A f \in Files : RcAction(f) \in ActionSet
  BY DEF ActionSet
<1>6. /\ \A a \in ActionSet : a.role = "exe" <=> a = ExeAction
      /\ \A a \in ActionSet : a.role = "env" <=> a = EnvAction
      /\ \A a \in ActionSet : a.role = "hook" <=> a \notin {ExeAction, EnvAction}
  BY <1>2, <1>3, <1>4
<1> QED
  BY <1>1, <1>2, <1>3, <1>5, <1>6, Zenon DEF IsHook

(* A plan has room for each file once.                                     *)
LEMMA FewActions ==
  ASSUME NEW p \in PlanSet, Distinct(p), NEW c,
         \A i \in DOMAIN p.actions : p.actions[i].path \in {"exe", "env", "fish_conf"} \cup RcFiles \cup {c}
  PROVE  Len(p.actions) <= 10
<1> DEFINE L == Len(p.actions)
           P == {"exe", "env", "fish_conf"} \cup RcFiles \cup {c}
           f == [i \in 1 .. L |-> PathRank(p.actions[i].path)]
<1>1. L \in Nat /\ DOMAIN p.actions = 1 .. L
  BY DEF PlanSet
<1>2. \A x \in P : PathRank(x) \in 1 .. 10
  BY DEF PathRank
<1>3. \A x, y \in P : PathRank(x) = PathRank(y) => x = y
  BY RcsAre DEF PathRank
<1>4. f \in Injection(1 .. L, 1 .. 10)
  <2>1. \A i \in 1 .. L : p.actions[i].path \in P
    BY <1>1
  <2>2. f \in [1 .. L -> 1 .. 10]
    BY <1>2, <2>1
  <2>3. \A i, j \in 1 .. L : f[i] = f[j] => i = j
    BY <1>1, <1>3, <2>1 DEF Distinct
  <2> QED
    BY <2>2, <2>3 DEF Injection, IsInjective
<1>5. IsFiniteSet(1 .. 10) /\ Cardinality(1 .. 10) = 10
  <2>1. 1 \in Int /\ 10 \in Int /\ ~(1 > 10) /\ 10 - 1 + 1 = 10
    OBVIOUS
  <2> QED
    BY <2>1, FS_Interval
<1>6. Cardinality(1 .. L) = L
  BY <1>1, FS_Interval
<1>7. Cardinality(1 .. L) <= Cardinality(1 .. 10)
  BY <1>4, <1>5, FS_Injection
<1> QED
  BY <1>5, <1>6, <1>7

Start(os, w, facts, choices) ==
  [actions |-> IF facts.own THEN <<>> ELSE <<Action("install", "exe", "exe")>>,
   state |-> spn_install_path_state(os, w, facts, choices), live |-> 0, posix |-> FALSE]

LEMMA StartFacts ==
  ASSUME NEW os, NEW w, NEW facts, NEW choices
  PROVE  LET p == Start(os, w, facts, choices)
         IN  /\ p \in PlanSet /\ p.live = 0 /\ p.state = spn_install_path_state(os, w, facts, choices)
             /\ (facts.own /\ p.actions = <<>>) \/ (~facts.own /\ p.actions = <<ExeAction>>)
             /\ p.state = "ok" => w.on_path
             /\ p.state = "updated" /\ os # "unix" => facts.registry.kind # "other"
<1> DEFINE p == Start(os, w, facts, choices)
           s == spn_install_path_state(os, w, facts, choices)
           a == IF facts.own THEN <<>> ELSE <<ExeAction>>
<1>1. s \in {"ok", "manual", "ci", "updated"} /\ (s = "ok" => w.on_path) /\ (s = "updated" /\ os # "unix" => facts.registry.kind # "other")
  BY DEF spn_install_path_state
<1>2. a \in Seq(ActionSet) /\ ((facts.own /\ a = <<>>) \/ (~facts.own /\ a = <<ExeAction>>))
  <2>0. ExeAction \in ActionSet
    BY ActionsAre
  <2>1. <<>> \in Seq(ActionSet) /\ <<ExeAction>> \in Seq(ActionSet)
    BY <2>0
  <2> QED
    BY <2>1, Zenon
<1>3. p = [actions |-> a, state |-> s, live |-> 0, posix |-> FALSE]
  BY Zenon DEF Start, ExeAction
<1> HIDE DEF p, s, a
<1>4. p.live = 0 /\ p.actions = a /\ p.state = s
  BY <1>3
<1>5. p \in PlanSet
  <2>1. FALSE \in BOOLEAN /\ 0 \in Nat
    OBVIOUS
  <2> QED
    BY <1>1, <1>2, <1>3, <2>1 DEF PlanSet
<1> QED
  BY <1>1, <1>2, <1>4, <1>5 DEF s, p

(* The files that are in before the hooks.                                 *)
Prefix(p, facts) ==
  /\ p \in PlanSet /\ p.live = 0 /\ Len(p.actions) <= 2
  /\ \A i \in DOMAIN p.actions : p.actions[i] = ExeAction \/ p.actions[i] = EnvAction
  /\ Distinct(p)
  /\ facts.own \/ (Len(p.actions) >= 1 /\ p.actions[1] = ExeAction)
Bare(p) == \A i \in DOMAIN p.actions : p.actions[i] = ExeAction

WithEnv(os, w, facts, choices) ==
  IF os = "unix" /\ ~facts.env_current THEN push_action(Start(os, w, facts, choices), EnvAction) ELSE Start(os, w, facts, choices)

LEMMA PrefixFacts ==
  ASSUME NEW os, NEW w, NEW facts, NEW choices
  PROVE  /\ Prefix(Start(os, w, facts, choices), facts) /\ Bare(Start(os, w, facts, choices))
         /\ Prefix(WithEnv(os, w, facts, choices), facts)
         /\ WithEnv(os, w, facts, choices).state = Start(os, w, facts, choices).state
         /\ os = "unix" => \/ facts.env_current
                          \/ \E i \in DOMAIN WithEnv(os, w, facts, choices).actions : WithEnv(os, w, facts, choices).actions[i] = EnvAction
<1> DEFINE start == Start(os, w, facts, choices)
           pushed == push_action(start, EnvAction)
           env == WithEnv(os, w, facts, choices)
<1>1. start \in PlanSet /\ start.live = 0 /\ ((facts.own /\ start.actions = <<>>) \/ (~facts.own /\ start.actions = <<ExeAction>>))
  BY StartFacts
<1> HIDE DEF start
<1>2. ExeAction \in ActionSet /\ EnvAction \in ActionSet /\ ExeAction.path = "exe" /\ EnvAction.path = "env"
  BY ActionsAre
<1>3. Prefix(start, facts) /\ Bare(start) /\ Len(start.actions) <= 1
  <2>1. CASE facts.own
    <3>1. Len(start.actions) = 0 /\ DOMAIN start.actions = {}
      BY <1>1, <2>1
    <3> QED
      BY <1>1, <2>1, <3>1 DEF Prefix, Bare, Distinct
  <2>2. CASE ~facts.own
    <3>0. start.actions = <<ExeAction>>
      BY <1>1, <2>2, Zenon
    <3>1. Len(start.actions) = 1 /\ DOMAIN start.actions = {1} /\ start.actions[1] = ExeAction
      BY <3>0
    <3> QED
      BY <1>1, <2>2, <3>1 DEF Prefix, Bare, Distinct
  <2> QED
    BY <2>1, <2>2
<1>4. Prefix(pushed, facts) /\ pushed.state = start.state /\ \E i \in DOMAIN pushed.actions : pushed.actions[i] = EnvAction
  <2> DEFINE L == Len(start.actions)
  <2>1. /\ pushed \in PlanSet /\ pushed.state = start.state /\ pushed.live = 0
        /\ L \in Nat /\ DOMAIN start.actions = 1 .. L /\ DOMAIN pushed.actions = 1 .. L + 1 /\ Len(pushed.actions) = L + 1
        /\ pushed.actions[L + 1] = EnvAction /\ \A i \in 1 .. L : pushed.actions[i] = start.actions[i]
    BY <1>1, <1>2, PushIs
  <2>2. L <= 1
    BY <1>3
  <2>3. facts.own \/ (L >= 1 /\ start.actions[1] = ExeAction)
    BY <1>3 DEF Prefix
  <2>4. \A i \in 1 .. L : start.actions[i] = ExeAction
    BY <1>3, <2>1 DEF Bare
  <2> HIDE DEF L, pushed
  <2>5. Distinct(pushed)
    BY <1>2, <2>1, <2>2, <2>4 DEF Distinct
  <2>6. \A i \in DOMAIN pushed.actions : pushed.actions[i] = ExeAction \/ pushed.actions[i] = EnvAction
    BY <2>1, <2>4
  <2>7. facts.own \/ (L + 1 >= 1 /\ pushed.actions[1] = ExeAction)
    BY <2>1, <2>3
  <2>8. \E i \in DOMAIN pushed.actions : pushed.actions[i] = EnvAction
    BY <2>1
  <2> QED
    BY <2>1, <2>2, <2>5, <2>6, <2>7, <2>8 DEF Prefix
<1>6. CASE os = "unix" /\ ~facts.env_current
  <2>1. env = pushed
    BY <1>6, Zenon DEF WithEnv, start
  <2> HIDE DEF env, pushed
  <2> QED
    BY <1>3, <1>4, <2>1 DEF start, env, pushed
<1>7. CASE ~(os = "unix" /\ ~facts.env_current)
  <2>1. env = start
    BY <1>7, Zenon DEF WithEnv, start
  <2> QED
    BY <1>3, <1>7, <2>1 DEF start
<1> QED
  BY <1>6, <1>7

LEMMA Planned ==
  ASSUME NEW h, HomeOf(h), NEW w, NEW facts, Found(h, w, facts), NEW choices, ChoicesOf(h, w, choices)
  PROVE  LET p == spn_install_plan(h.os, w, facts, choices) IN PlanOf(h, w, facts, p) /\ Fresh(h, w, p, 1)
<1> DEFINE start == Start(h.os, w, facts, choices)
           env == WithEnv(h.os, w, facts, choices)
           p == spn_install_plan(h.os, w, facts, choices)
<1>1. /\ Prefix(start, facts) /\ Bare(start) /\ Prefix(env, facts) /\ env.state = start.state
      /\ h.os = "unix" => facts.env_current \/ \E i \in DOMAIN env.actions : env.actions[i] = EnvAction
  BY PrefixFacts
<1>2. /\ start \in PlanSet /\ start.live = 0 /\ (start.state = "ok" => w.on_path)
      /\ start.state = "updated" /\ h.os # "unix" => facts.registry.kind # "other"
  BY StartFacts
<1>3. /\ start.state \in {"ok", "manual"} => p = start
      /\ start.state = "ci" => p = push_action(env, GithubAction)
      /\ start.state = "updated" /\ h.os = "unix" => p = plan_unix_hooks(env, facts, choices)
      /\ start.state = "updated" /\ h.os # "unix" /\ registry_contains(facts.registry.path) => p = [start EXCEPT !.live = 1]
      /\ start.state = "updated" /\ h.os # "unix" /\ ~registry_contains(facts.registry.path) => p = push_action(start, RegistryAction)
  BY Zenon DEF spn_install_plan, Start, WithEnv, EnvAction, GithubAction, RegistryAction
<1> SUFFICES PlanOf(h, w, facts, p) /\ Fresh(h, w, p, 1)
  OBVIOUS
<1> HIDE DEF start, env, p
<1>4. start.state \in {"ok", "manual", "ci", "updated"}
  BY <1>2 DEF PlanSet
<1>5. /\ ExeAction \in ActionSet /\ EnvAction \in ActionSet /\ GithubAction \in ActionSet /\ RegistryAction \in ActionSet
      /\ ExeAction.role # "hook" /\ EnvAction.role # "hook" /\ GithubAction.path = "github" /\ RegistryAction.path = NoFile
      /\ ExeAction.path = "exe" /\ EnvAction.path = "env" /\ FishAction.path = "fish_conf"
      /\ \A f : RcAction(f).path = f
      /\ \A f \in Files : f \notin {"exe", "env", "fish_conf", "github", NoFile}
      /\ NoFile \notin {"exe", "env", "fish_conf", "github"}
  BY ActionsAre, PathsDiffer
<1>6. env \in PlanSet /\ env.live = 0 /\ DOMAIN env.actions = 1 .. Len(env.actions) /\ DOMAIN start.actions = 1 .. Len(start.actions)
      /\ Len(env.actions) \in Nat /\ Len(start.actions) \in Nat
  BY <1>1, <1>2 DEF Prefix, PlanSet
<1>7. CASE start.state \in {"ok", "manual"}
  <2>1. p = start
    BY <1>3, <1>7
  <2>2. \A i \in DOMAIN p.actions : p.actions[i] = ExeAction
    BY <1>1, <2>1 DEF Bare
  <2>3. Fresh(h, w, p, 1)
    BY <1>5, <2>2 DEF Fresh
  <2>4. p.state # "ci" /\ p.state # "updated"
    BY <1>7, <2>1
  <2>5. \A i \in DOMAIN p.actions : p.actions[i] # RegistryAction
    BY <1>5, <2>2
  <2>6. Len(p.actions) <= 10
    BY <1>1, <1>6, <2>1 DEF Prefix
  <2> QED
    BY <1>1, <1>2, <2>1, <2>3, <2>4, <2>5, <2>6, Zenon DEF PlanOf, Prefix
<1>8. CASE start.state = "ci"
  <2> DEFINE L == Len(env.actions)
  <2>1. p = push_action(env, GithubAction)
    BY <1>3, <1>8
  <2>2. /\ p \in PlanSet /\ p.state = "ci" /\ p.live = 0 /\ L \in Nat /\ Len(p.actions) = L + 1 /\ DOMAIN p.actions = 1 .. L + 1
        /\ p.actions[L + 1] = GithubAction /\ \A i \in 1 .. L : p.actions[i] = env.actions[i]
    <3> DEFINE q == push_action(env, GithubAction)
    <3>1. /\ q \in PlanSet /\ q.state = env.state /\ q.live = env.live /\ L \in Nat
          /\ Len(q.actions) = L + 1 /\ DOMAIN q.actions = 1 .. L + 1 /\ q.actions[L + 1] = GithubAction /\ \A i \in 1 .. L : q.actions[i] = env.actions[i]
      <4>1. env \in PlanSet /\ start \in PlanSet /\ GithubAction \in ActionSet /\ RegistryAction \in ActionSet
        BY <1>2, <1>5, <1>6
      <4> QED
        BY <4>1, PushIs
    <3> HIDE DEF q
    <3>2. p = q
      BY <2>1 DEF q
    <3> QED
      BY <1>1, <1>2, <1>6, <1>8, <3>1, <3>2
  <2>3. \A i \in 1 .. L : p.actions[i] = ExeAction \/ p.actions[i] = EnvAction
    BY <1>1, <1>6, <2>2 DEF Prefix
  <2>4. L <= 2 /\ (facts.own \/ (L >= 1 /\ p.actions[1] = ExeAction))
    BY <1>1, <1>6, <2>2 DEF Prefix
  <2>5. Distinct(p)
    <3>1. \A i, j \in 1 .. L : p.actions[i].path = p.actions[j].path => i = j
      BY <1>1, <1>6, <2>2 DEF Prefix, Distinct
    <3>2. \A i \in 1 .. L : p.actions[i].path # p.actions[L + 1].path
      BY <1>5, <2>2, <2>3
    <3>3. \A i \in DOMAIN p.actions : i \in 1 .. L \/ i = L + 1
      BY <2>2
    <3> HIDE DEF L
    <3> QED
      BY <3>1, <3>2, <3>3 DEF Distinct
  <2> HIDE DEF L
  <2>6. \A i \in DOMAIN p.actions : p.actions[i] \in {ExeAction, EnvAction, GithubAction}
    BY <2>2, <2>3
  <2>7. Fresh(h, w, p, 1)
    BY <1>5, <2>6 DEF Fresh
  <2>8. \A i \in DOMAIN p.actions : p.actions[i] # RegistryAction
    BY <1>5, <2>6
  <2>9. \A i \in DOMAIN p.actions : IsHook(p.actions[i]) => p.actions[i] = GithubAction
    BY <1>5, <2>6 DEF IsHook
  <2>10. Len(p.actions) <= 10 /\ (facts.own \/ (Len(p.actions) >= 1 /\ p.actions[1] = ExeAction))
    BY <2>2, <2>4
  <2>11. p.state # "ok" /\ p.state # "updated"
    BY <2>2
  <2> QED
    BY <2>2, <2>5, <2>7, <2>8, <2>9, <2>10, <2>11, Zenon DEF PlanOf
<1>9. CASE start.state = "updated" /\ h.os = "unix"
  <2> DEFINE L == Len(env.actions)
             K == Len(p.actions)
  <2>1. p = plan_unix_hooks(env, facts, choices)
    BY <1>3, <1>9
  <2>2. PICK c \in Customs \cup {NoFile} : \A i \in DOMAIN choices.path : ChoiceOf(h, w, c, choices.path[i])
    BY DEF ChoicesOf
  <2>3. NoFish(env)
    <3>1. \A i \in DOMAIN env.actions : env.actions[i] = ExeAction \/ env.actions[i] = EnvAction
      BY <1>1 DEF Prefix
    <3> QED
      BY <1>5, <3>1 DEF NoFish
  <2>4. Growing(h, w, env, c, p)
    <3>1. Len(choices.path) \in Nat /\ DOMAIN choices.path = 1 .. Len(choices.path) /\ OneFish(choices)
      BY DEF ChoicesOf
    <3>2. FactsOf(h, w, facts) /\ Distinct(env)
      BY <1>1 DEF Found, Prefix
    <3> QED
      BY <1>6, <2>1, <2>2, <2>3, <3>1, <3>2, HooksGrow
  <2>5. p \in PlanSet /\ p.state = "updated" /\ Distinct(p) /\ (p.live > 0 => Hooked(h) \/ h.fish_conf = "current") /\ K \in Nat /\ L <= K /\ DOMAIN p.actions = 1 .. K
    BY <1>1, <1>9, <2>4 DEF Growing, PlanSet
  <2>6. \A i \in 1 .. K : \/ i \in 1 .. L /\ p.actions[i] = env.actions[i] /\ p.actions[i] \in {ExeAction, EnvAction}
                          \/ p.actions[i] = FishAction
                          \/ \E f \in RcFiles \cup {c} : f \in Files /\ Clear(h, w, f) /\ p.actions[i] = RcAction(f)
    <3> TAKE i \in 1 .. K
    <3>1. CASE i <= L
      <4>1. i \in 1 .. L
        BY <1>6, <2>5, <3>1
      <4>2. p.actions[i] = env.actions[i] /\ env.actions[i] \in {ExeAction, EnvAction}
        BY <1>1, <1>6, <2>4, <4>1 DEF Growing, Prefix
      <4> QED
        BY <4>1, <4>2
    <3>2. CASE ~(i <= L)
      <4>1. i \in L + 1 .. K
        BY <1>6, <2>5, <3>2
      <4> QED
        BY <2>4, <4>1 DEF Growing
    <3> QED
      BY <3>1, <3>2
  <2>7. K <= 10
    <3>1. \A i \in DOMAIN p.actions : p.actions[i].path \in {"exe", "env", "fish_conf"} \cup RcFiles \cup {c}
      BY <1>5, <2>5, <2>6
    <3> QED
      BY <2>5, <3>1, FewActions
  <2>8. facts.own \/ (K >= 1 /\ p.actions[1] = ExeAction)
    <3>1. facts.own \/ (L >= 1 /\ env.actions[1] = ExeAction)
      BY <1>1 DEF Prefix
    <3>2. L >= 1 => p.actions[1] = env.actions[1]
      BY <1>6, <2>4 DEF Growing
    <3> QED
      BY <1>6, <2>5, <3>1, <3>2
  <2>9. facts.env_current \/ \E i \in DOMAIN p.actions : p.actions[i] = EnvAction
    <3>1. \A i \in DOMAIN env.actions : i \in DOMAIN p.actions /\ p.actions[i] = env.actions[i]
      BY <1>6, <2>4, <2>5 DEF Growing
    <3> QED
      BY <1>1, <1>9, <3>1
  <2> HIDE DEF L, K
  <2>10. Fresh(h, w, p, 1)
    <3>1. \A i \in 1 .. K, f \in Files : p.actions[i] = RcAction(f) => Clear(h, w, f)
      BY <1>5, <2>6
    <3> QED
      BY <2>5, <3>1 DEF Fresh
  <2>11. \A i \in DOMAIN p.actions : p.actions[i] # RegistryAction
    BY <1>5, <2>5, <2>6
  <2>12. \A i \in DOMAIN p.actions : IsHook(p.actions[i]) => p.actions[i] = FishAction \/ \E f \in Files : p.actions[i] = RcAction(f)
    BY <1>5, <2>5, <2>6 DEF IsHook
  <2> QED
    BY <1>9, <2>5, <2>7, <2>8, <2>9, <2>10, <2>11, <2>12, Zenon DEF PlanOf, K
<1>10. CASE start.state = "updated" /\ h.os # "unix" /\ registry_contains(facts.registry.path)
  <2>1. p = [start EXCEPT !.live = 1]
    BY <1>3, <1>10
  <2>2. p \in PlanSet /\ p.actions = start.actions /\ p.state = "updated"
    BY <1>2, <1>10, <2>1 DEF PlanSet
  <2>3. \A i \in DOMAIN p.actions : p.actions[i] = ExeAction
    BY <1>1, <2>2 DEF Bare
  <2>4. Fresh(h, w, p, 1)
    BY <1>5, <2>3 DEF Fresh
  <2>5. \A i \in DOMAIN p.actions : p.actions[i] # RegistryAction /\ ~IsHook(p.actions[i])
    BY <1>5, <2>3 DEF IsHook
  <2>6. registry_contains(h.registry.path)
    BY <1>10 DEF Found
  <2>7. Len(p.actions) <= 10 /\ Distinct(p) /\ (facts.own \/ (Len(p.actions) >= 1 /\ p.actions[1] = ExeAction))
    BY <1>1, <1>6, <2>2 DEF Prefix, Distinct
  <2> QED
    BY <1>10, <2>2, <2>4, <2>5, <2>6, <2>7, Zenon DEF PlanOf
<1>11. CASE start.state = "updated" /\ h.os # "unix" /\ ~registry_contains(facts.registry.path)
  <2> DEFINE L == Len(start.actions)
  <2>1. p = push_action(start, RegistryAction)
    BY <1>3, <1>11
  <2>2. /\ p \in PlanSet /\ p.state = "updated" /\ p.live = 0 /\ L \in Nat /\ Len(p.actions) = L + 1 /\ DOMAIN p.actions = 1 .. L + 1
        /\ p.actions[L + 1] = RegistryAction /\ \A i \in 1 .. L : p.actions[i] = start.actions[i]
    <3> DEFINE q == push_action(start, RegistryAction)
    <3>1. /\ q \in PlanSet /\ q.state = start.state /\ q.live = start.live /\ L \in Nat
          /\ Len(q.actions) = L + 1 /\ DOMAIN q.actions = 1 .. L + 1 /\ q.actions[L + 1] = RegistryAction /\ \A i \in 1 .. L : q.actions[i] = start.actions[i]
      <4>1. env \in PlanSet /\ start \in PlanSet /\ GithubAction \in ActionSet /\ RegistryAction \in ActionSet
        BY <1>2, <1>5, <1>6
      <4> QED
        BY <4>1, PushIs
    <3> HIDE DEF q
    <3>2. p = q
      BY <2>1 DEF q
    <3> QED
      BY <1>1, <1>2, <1>6, <1>11, <3>1, <3>2
  <2>3. \A i \in 1 .. L : p.actions[i] = ExeAction
    BY <1>1, <1>6, <2>2 DEF Bare
  <2>4. L <= 2 /\ (facts.own \/ (L >= 1 /\ p.actions[1] = ExeAction))
    BY <1>1, <1>6, <2>2 DEF Prefix
  <2>5. Distinct(p)
    <3>1. \A i, j \in 1 .. L : p.actions[i].path = p.actions[j].path => i = j
      BY <1>1, <1>6, <2>2 DEF Prefix, Distinct
    <3>2. \A i \in 1 .. L : p.actions[i].path # p.actions[L + 1].path
      BY <1>5, <2>2, <2>3
    <3> QED
      BY <2>2, <3>1, <3>2 DEF Distinct
  <2> HIDE DEF L
  <2>6. \A i \in DOMAIN p.actions : p.actions[i] \in {ExeAction, RegistryAction}
    BY <2>2, <2>3
  <2>7. Fresh(h, w, p, 1)
    BY <1>5, <2>6 DEF Fresh
  <2>8. facts.registry.kind # "other"
    BY <1>2, <1>11
  <2>9. \A i \in DOMAIN p.actions : IsHook(p.actions[i]) => p.actions[i] = RegistryAction
    BY <1>5, <2>6 DEF IsHook
  <2>10. Len(p.actions) <= 10 /\ (facts.own \/ (Len(p.actions) >= 1 /\ p.actions[1] = ExeAction))
    BY <2>2, <2>4
  <2>11. p.state # "ok" /\ p.state # "ci" /\ ~(p.live > 0)
    BY <2>2
  <2> QED
    BY <1>11, <2>2, <2>5, <2>7, <2>8, <2>9, <2>10, <2>11, Zenon DEF PlanOf
<1> QED
  BY <1>4, <1>7, <1>8, <1>9, <1>10, <1>11

-----------------------------------------------------------------------------
(* The probe and the actions.                                              *)

LEMMA NoneIn == \A path : path = <<>> => ~registry_contains(path)
BY DEF registry_contains

LEMMA ProbeFound ==
  ASSUME HomeInv, NEW w \in Worlds
  PROVE  Found(home, w, probe_facts(w))
<1> DEFINE facts == probe_facts(w)
           none == [kind |-> "other", path |-> <<>>]
<1>1. /\ facts.has_line = {f \in home.exists \ w.blind.links : f \notin w.blind.unread /\ home.lines[f] > 0}
      /\ facts.registry = probe_registry(w)
  BY Zenon DEF probe_facts
<1>2. /\ facts.own <=> w.own
      /\ facts.fish_current => home.fish_conf = "current"
      /\ facts.env_current => home.env = "current"
  BY Zenon DEF probe_facts
<1>3. w.own => home.exe # "none"
  BY DEF Worlds
<1>4. RegistryOf(home.registry)
  BY DEF HomeInv, HomeOf, HomeType, HomeSound, RegistryOf
<1>5. RegistryOf(none) /\ none.kind = "other" /\ none.path = <<>>
  <2>1. <<>> \in Seq(Dirs)
    OBVIOUS
  <2> QED
    BY <2>1 DEF RegistryOf
<1> HIDE DEF facts, none
<1>6. facts.registry = none \/ facts.registry = home.registry
  BY <1>1 DEF probe_registry, none
<1>7. /\ RegistryOf(facts.registry)
      /\ facts.registry.kind = "other" \/ facts.registry = home.registry
      /\ registry_contains(facts.registry.path) => registry_contains(home.registry.path)
  BY <1>4, <1>5, <1>6, NoneIn
<1>8. FactsOf(home, w, facts)
  <2>1. facts.has_line \subseteq {f \in home.exists : home.lines[f] > 0}
    BY <1>1
  <2>2. ASSUME NEW f \in Files \ facts.has_line PROVE Clear(home, w, f)
    <3>1. home.lines[f] \in Nat /\ (home.lines[f] > 0 => f \in home.exists)
      BY DEF HomeInv, HomeOf, HomeType
    <3> QED
      BY <1>1, <3>1 DEF Clear, Blind
  <2> QED
    BY <1>2, <2>1, <2>2 DEF FactsOf
<1>9. FactsKept(home, facts)
  BY <1>2, <1>3, <1>7, Zenon DEF FactsKept
<1> QED
  BY <1>7, <1>8, <1>9, Zenon DEF Found, facts

(* What only grows.                                                        *)
Grows(h, k) ==
  /\ k.os = h.os
  /\ h.exe # "none" => k.exe # "none"
  /\ h.env = "current" => k.env = "current"
  /\ h.fish_conf = "current" => k.fish_conf = "current"
  /\ h.github => k.github
  /\ Hooked(h) => Hooked(k)
  /\ registry_contains(h.registry.path) => registry_contains(k.registry.path)

LEMMA GrowsKeeps ==
  ASSUME NEW h, NEW k, Grows(h, k)
  PROVE  /\ \A w, facts, p : PlanOf(h, w, facts, p) => PlanOf(k, w, facts, p)
         /\ \A facts : FactsKept(h, facts) => FactsKept(k, facts)
         /\ \A a : Effect(h, a) => Effect(k, a)
<1>1. ASSUME NEW w, NEW facts, NEW p, PlanOf(h, w, facts, p) PROVE PlanOf(k, w, facts, p)
  BY <1>1, Zenon DEF PlanOf, Grows
<1>2. ASSUME NEW facts, FactsKept(h, facts) PROVE FactsKept(k, facts)
  BY <1>2, Zenon DEF FactsKept, Grows
<1>3. ASSUME NEW a, Effect(h, a) PROVE Effect(k, a)
  BY <1>3, Zenon DEF Effect, Grows
<1> QED
  BY <1>1, <1>2, <1>3

LEMMA ApplyIs ==
  ASSUME NEW h, NEW facts
  PROVE  /\ apply(h, facts, ExeAction) = [h EXCEPT !.exe = "new"]
         /\ apply(h, facts, EnvAction) = [h EXCEPT !.env = "current"]
         /\ apply(h, facts, FishAction) = [h EXCEPT !.fish_conf = "current", !.fish_dir = TRUE]
         /\ apply(h, facts, GithubAction) = [h EXCEPT !.github = TRUE]
         /\ apply(h, facts, RegistryAction) = [h EXCEPT !.registry = set_user_path(facts)]
<1>1. /\ ExeAction.kind = "install" /\ EnvAction.kind = "write" /\ FishAction.kind = "write" /\ GithubAction.kind = "append" /\ RegistryAction.kind = "registry"
  BY DEF ExeAction, EnvAction, FishAction, GithubAction, RegistryAction, Action
<1>2. EnvAction.path = "env" /\ FishAction.path = "fish_conf" /\ GithubAction.path = "github"
  BY ActionsAre
<1>3. apply(h, facts, ExeAction) = [h EXCEPT !.exe = "new"]
  BY <1>1, Zenon DEF apply
<1>4. apply(h, facts, EnvAction) = [h EXCEPT !.env = "current"]
  BY <1>1, <1>2, Zenon DEF apply
<1>5. apply(h, facts, FishAction) = [h EXCEPT !.fish_conf = "current", !.fish_dir = TRUE]
  BY <1>1, <1>2, Zenon DEF apply
<1>6. apply(h, facts, GithubAction) = [h EXCEPT !.github = TRUE]
  BY <1>1, <1>2, Zenon DEF apply
<1>7. apply(h, facts, RegistryAction) = [h EXCEPT !.registry = set_user_path(facts)]
  BY <1>1, Zenon DEF apply
<1> QED
  BY <1>3, <1>4, <1>5, <1>6, <1>7

Appended(h, f) == [h EXCEPT !.exists = @ \cup {f}, !.lines[f] = @ + 1]
LEMMA ApplyRc ==
  ASSUME NEW h, NEW facts, NEW f \in Files
  PROVE  apply(h, facts, RcAction(f)) = Appended(h, f)
<1>1. RcAction(f).kind = "append" /\ RcAction(f).path = f
  BY DEF RcAction, Action
<1>2. f # "github"
  BY PathsDiffer
<1> QED
  BY <1>1, <1>2, Zenon DEF apply, Appended

LEMMA PutBefore ==
  ASSUME NEW X, NEW x \in X, NEW s \in Seq(X)
  PROVE  <<x>> \o s \in Seq(X) /\ Len(<<x>> \o s) = Len(s) + 1 /\ (<<x>> \o s)[1] = x /\ \A i \in 1 .. Len(s) : (<<x>> \o s)[i + 1] = s[i]
OBVIOUS

(* The PATH that is written ends as the one that was read.                 *)
LEMMA UserPath ==
  ASSUME NEW facts, RegistryOf(facts.registry), facts.registry.kind # "other"
  PROVE  RegistryOf(set_user_path(facts)) /\ registry_contains(set_user_path(facts).path)
<1> DEFINE path == facts.registry.path
           new == <<"bin">> \o path
           kind == IF facts.registry.kind = "expand" THEN "expand" ELSE "sz"
<1>1. path \in Seq(Dirs) /\ (path # <<>> => Last(path) \in {"user", "bin"}) /\ (facts.registry.kind = "expand" => path # <<>> /\ Last(path) = "user")
  BY DEF RegistryOf
<1> HIDE DEF path
<1>2. new \in Seq(Dirs) /\ Len(new) = Len(path) + 1 /\ new[1] = "bin" /\ \A i \in 1 .. Len(path) : new[i + 1] = path[i]
  <2>1. "bin" \in Dirs
    BY DEF Dirs
  <2> QED
    BY <1>1, <2>1, PutBefore
<1>3. Len(path) \in Nat /\ (path # <<>> <=> Len(path) > 0)
  BY <1>1
<1> HIDE DEF new
<1>4. new # <<>> /\ Last(new) = new[Len(path) + 1]
  BY <1>2, <1>3 DEF Last
<1>5. path = <<>> => Last(new) = "bin"
  BY <1>2, <1>3, <1>4
<1>6. path # <<>> => Last(new) = Last(path)
  BY <1>2, <1>3, <1>4 DEF Last
<1>7. set_user_path(facts) = [kind |-> kind, path |-> new]
  BY DEF set_user_path, new, path
<1>8. kind \in {"expand", "sz"} /\ (kind = "expand" => facts.registry.kind = "expand")
  OBVIOUS
<1> HIDE DEF kind
<1>9. RegistryOf([kind |-> kind, path |-> new])
  BY <1>1, <1>2, <1>4, <1>5, <1>6, <1>8 DEF RegistryOf
<1>10. registry_contains(new)
  <2>1. 1 \in DOMAIN new
    BY <1>2, <1>3
  <2> QED
    BY <1>2, <2>1 DEF registry_contains
<1> QED
  BY <1>7, <1>9, <1>10

(* An action leaves the home sound, and what it is for.                    *)
LEMMA ApplyStep ==
  ASSUME NEW h, HomeOf(h), HomeSound(h), NEW facts, RegistryOf(facts.registry), NEW a \in ActionSet,
         a # ExeAction => h.exe # "none",
         a = RegistryAction => facts.registry.kind # "other",
         \A f \in Files : a = RcAction(f) => h.lines[f] = 0 \/ f \in h.unseen
  PROVE  LET k == apply(h, facts, a)
         IN  /\ HomeOf(k) /\ HomeSound(k) /\ Grows(h, k) /\ Effect(k, a) /\ k.exe # "none"
             /\ \A f \in Files : a # RcAction(f) => k.lines[f] = h.lines[f]
<1> DEFINE k == apply(h, facts, a)
<1>1. h \in HomeType
  BY DEF HomeOf
<1>2. /\ ExeAction.path = "exe" /\ EnvAction.path = "env" /\ FishAction.path = "fish_conf" /\ GithubAction.path = "github" /\ RegistryAction.path = NoFile
      /\ \A f : RcAction(f).path = f
      /\ \A f \in Files : f \notin {"exe", "env", "fish_conf", "github", NoFile}
      /\ NoFile \notin {"exe", "env", "fish_conf", "github"}
  BY ActionsAre, PathsDiffer
<1> SUFFICES /\ HomeOf(k) /\ HomeSound(k) /\ Grows(h, k) /\ Effect(k, a) /\ k.exe # "none"
             /\ \A f \in Files : a # RcAction(f) => k.lines[f] = h.lines[f]
  OBVIOUS
<1> HIDE DEF k
<1>3. ASSUME k \in HomeType, k.lines = h.lines, k.unseen = h.unseen, k.exists = h.exists, k.os = h.os, k.registry = h.registry, k.exe # "none",
             h.env = "current" => k.env = "current", h.fish_conf = "current" => k.fish_conf = "current", h.github => k.github
      PROVE  /\ HomeOf(k) /\ HomeSound(k) /\ Grows(h, k)
             /\ \A f \in Files : k.lines[f] = h.lines[f]
  <2>1. Hooked(k) <=> Hooked(h)
    BY <1>3 DEF Hooked
  <2>2. HomeOf(k)
    BY <1>3 DEF HomeOf
  <2>3. HomeSound(k)
    BY <1>3 DEF HomeSound
  <2>4. Grows(h, k)
    BY <1>3, <2>1, Zenon DEF Grows
  <2> QED
    BY <1>3, <2>2, <2>3, <2>4
<1>4. CASE a = ExeAction
  <2>1. k = [h EXCEPT !.exe = "new"]
    BY <1>4, ApplyIs DEF k
  <2>2. /\ k \in HomeType /\ k.lines = h.lines /\ k.unseen = h.unseen /\ k.exists = h.exists /\ k.os = h.os /\ k.registry = h.registry /\ k.exe # "none"
        /\ k.env = h.env /\ k.fish_conf = h.fish_conf
    BY <1>1, <2>1 DEF HomeType
  <2>3. k.github = h.github
    BY <1>1, <2>1 DEF HomeType
  <2>4. Effect(k, a)
    BY <1>2, <1>4, <2>2 DEF Effect
  <2> QED
    BY <1>3, <2>2, <2>3, <2>4
<1>5. CASE a = EnvAction
  <2>1. k = [h EXCEPT !.env = "current"]
    BY <1>5, ApplyIs DEF k
  <2>2. /\ k \in HomeType /\ k.lines = h.lines /\ k.unseen = h.unseen /\ k.exists = h.exists /\ k.os = h.os /\ k.registry = h.registry /\ k.exe # "none"
        /\ k.env = "current" /\ k.fish_conf = h.fish_conf
    BY <1>1, <1>2, <1>5, <2>1 DEF HomeType
  <2>3. k.github = h.github
    BY <1>1, <2>1 DEF HomeType
  <2>4. Effect(k, a)
    BY <1>2, <1>5, <2>2 DEF Effect
  <2> QED
    BY <1>3, <2>2, <2>3, <2>4
<1>6. CASE a = FishAction
  <2>1. k = [h EXCEPT !.fish_conf = "current", !.fish_dir = TRUE]
    BY <1>6, ApplyIs DEF k
  <2>2. /\ k \in HomeType /\ k.lines = h.lines /\ k.unseen = h.unseen /\ k.exists = h.exists /\ k.os = h.os /\ k.registry = h.registry /\ k.exe # "none"
        /\ k.env = h.env /\ k.fish_conf = "current"
    BY <1>1, <1>2, <1>6, <2>1 DEF HomeType
  <2>3. k.github = h.github
    BY <1>1, <2>1 DEF HomeType
  <2>4. Effect(k, a)
    BY <1>2, <1>6, <2>2 DEF Effect
  <2> QED
    BY <1>3, <2>2, <2>3, <2>4
<1>7. CASE a = GithubAction
  <2>1. k = [h EXCEPT !.github = TRUE]
    BY <1>7, ApplyIs DEF k
  <2>2. /\ k \in HomeType /\ k.lines = h.lines /\ k.unseen = h.unseen /\ k.exists = h.exists /\ k.os = h.os /\ k.registry = h.registry /\ k.exe # "none"
        /\ k.env = h.env /\ k.fish_conf = h.fish_conf
    BY <1>1, <1>2, <1>7, <2>1 DEF HomeType
  <2>3. k.github = TRUE
    BY <1>1, <2>1 DEF HomeType
  <2>4. Effect(k, a)
    BY <1>2, <1>7, <2>3 DEF Effect
  <2> QED
    BY <1>3, <2>2, <2>3, <2>4
<1>8. CASE a = RegistryAction
  <2> DEFINE r == set_user_path(facts)
  <2>1. RegistryOf(r) /\ registry_contains(r.path)
    BY <1>8, UserPath
  <2>2. k = [h EXCEPT !.registry = r]
    BY <1>8, ApplyIs DEF k
  <2> HIDE DEF r
  <2>3. /\ k \in HomeType /\ k.lines = h.lines /\ k.unseen = h.unseen /\ k.exists = h.exists /\ k.os = h.os /\ k.registry = r /\ k.exe = h.exe /\ k.exe # "none"
        /\ k.env = h.env /\ k.fish_conf = h.fish_conf
    BY <1>1, <1>2, <1>8, <2>1, <2>2 DEF HomeType, RegistryOf
  <2>4. k.github = h.github
    BY <1>1, <2>2 DEF HomeType
  <2>5. Hooked(k) <=> Hooked(h)
    BY <2>3 DEF Hooked
  <2>6. HomeOf(k)
    BY <2>3 DEF HomeOf
  <2>7. HomeSound(k)
    BY <2>1, <2>3 DEF HomeSound, RegistryOf
  <2>8. Grows(h, k)
    BY <2>1, <2>3, <2>4, <2>5, Zenon DEF Grows
  <2>9. Effect(k, a)
    BY <1>2, <1>8, <2>1, <2>3 DEF Effect
  <2> QED
    BY <2>3, <2>6, <2>7, <2>8, <2>9
<1>9. CASE \E f \in Files : a = RcAction(f)
  <2>1. PICK f \in Files : a = RcAction(f)
    BY <1>9
  <2>2. a.path = f /\ (h.lines[f] = 0 \/ f \in h.unseen) /\ f \notin {"exe", "env", "fish_conf", "github", NoFile} /\ h.exe # "none"
    BY <1>2, <2>1
  <2>3. k = Appended(h, f)
    BY <2>1, ApplyRc DEF k
  <2> DEFINE lines == [h.lines EXCEPT ![f] = @ + 1]
             exists == h.exists \cup {f}
  <2>4. lines \in [Files -> Nat] /\ exists \in SUBSET Files /\ lines[f] = h.lines[f] + 1 /\ h.lines[f] \in Nat /\ \A x \in Files : x # f => lines[x] = h.lines[x]
    BY <1>1, <2>2 DEF HomeType
  <2>5. k = [h EXCEPT !.exists = exists, !.lines = lines]
    <3>1. Appended(h, f) = [h EXCEPT !.exists = exists, !.lines = lines]
      BY <1>1 DEF HomeType, Appended
    <3> QED
      BY <2>3, <3>1, Zenon
  <2> HIDE DEF lines, exists
  <2>6. /\ k \in HomeType /\ k.lines = lines /\ k.unseen = h.unseen /\ k.exists = exists /\ k.os = h.os /\ k.registry = h.registry /\ k.exe = h.exe
        /\ k.env = h.env /\ k.fish_conf = h.fish_conf
    BY <1>1, <2>4, <2>5 DEF HomeType
  <2>7. k.github = h.github
    BY <1>1, <2>5 DEF HomeType
  <2>8. Hooked(k)
    BY <2>4, <2>6 DEF Hooked, exists
  <2>9. HomeOf(k)
    BY <2>4, <2>6 DEF HomeOf, exists
  <2>10. HomeSound(k)
    <3>1. \A x \in Files \ k.unseen : k.lines[x] <= 1
      BY <2>2, <2>4, <2>6 DEF HomeSound
    <3> QED
      BY <2>2, <2>6, <3>1 DEF HomeSound
  <2>11. Grows(h, k)
    BY <2>6, <2>7, <2>8, Zenon DEF Grows
  <2>12. Effect(k, a)
    BY <1>2, <2>2, <2>8 DEF Effect
  <2>13. \A x \in Files : a # RcAction(x) => k.lines[x] = h.lines[x]
    BY <2>1, <2>4, <2>6
  <2> QED
    BY <2>2, <2>6, <2>9, <2>10, <2>11, <2>12, <2>13
<1> QED
  BY <1>4, <1>5, <1>6, <1>7, <1>8, <1>9 DEF ActionSet

-----------------------------------------------------------------------------
(* The report.                                                             *)

Says(msgs, kind) == \E i \in DOMAIN msgs : msgs[i][1] = kind

LEMMA Joined ==
  ASSUME NEW X, NEW a \in Seq(X), NEW b \in Seq(X), NEW c \in Seq(X)
  PROVE  /\ Len(a \o b \o c) = Len(a) + Len(b) + Len(c)
         /\ \A kind : Says(a \o b \o c, kind) <=> Says(a, kind) \/ Says(b, kind) \/ Says(c, kind)
<1> DEFINE ab == a \o b
           s == ab \o c
<1>1. ab \in Seq(X) /\ Len(ab) = Len(a) + Len(b) /\ (\A i \in 1 .. Len(a) : ab[i] = a[i]) /\ (\A i \in 1 .. Len(b) : ab[Len(a) + i] = b[i])
      /\ DOMAIN a = 1 .. Len(a) /\ DOMAIN b = 1 .. Len(b) /\ Len(a) \in Nat /\ Len(b) \in Nat
  OBVIOUS
<1> HIDE DEF ab
<1>2. s \in Seq(X) /\ Len(s) = Len(ab) + Len(c) /\ (\A i \in 1 .. Len(ab) : s[i] = ab[i]) /\ (\A i \in 1 .. Len(c) : s[Len(ab) + i] = c[i])
      /\ DOMAIN c = 1 .. Len(c) /\ DOMAIN ab = 1 .. Len(ab) /\ DOMAIN s = 1 .. Len(s) /\ Len(c) \in Nat
  <2>1. s \in Seq(X) /\ Len(s) = Len(ab) + Len(c) /\ DOMAIN c = 1 .. Len(c) /\ DOMAIN ab = 1 .. Len(ab) /\ Len(c) \in Nat /\ Len(ab) \in Nat
    BY <1>1
  <2>2. \A i \in 1 .. Len(ab) : s[i] = ab[i]
    BY <1>1
  <2>3. \A i \in 1 .. Len(c) : s[Len(ab) + i] = c[i]
    BY <1>1
  <2> HIDE DEF s
  <2>4. DOMAIN s = 1 .. Len(s)
    BY <2>1
  <2> QED
    BY <2>1, <2>2, <2>3, <2>4
<1> HIDE DEF s
<1>3. ASSUME NEW kind PROVE Says(s, kind) <=> Says(a, kind) \/ Says(b, kind) \/ Says(c, kind)
  <2>1. ASSUME NEW i \in DOMAIN s
        PROVE  (\E j \in DOMAIN a : s[i] = a[j]) \/ (\E j \in DOMAIN b : s[i] = b[j]) \/ (\E j \in DOMAIN c : s[i] = c[j])
    <3>1. CASE i <= Len(a)
      BY <1>1, <1>2, <2>1, <3>1
    <3>2. CASE i > Len(a) /\ i <= Len(ab)
      <4>1. i - Len(a) \in 1 .. Len(b) /\ i = Len(a) + (i - Len(a)) /\ i \in 1 .. Len(ab)
        BY <1>1, <1>2, <2>1, <3>2
      <4> QED
        BY <1>1, <1>2, <4>1
    <3>3. CASE i > Len(ab)
      <4>1. i - Len(ab) \in 1 .. Len(c) /\ i = Len(ab) + (i - Len(ab))
        BY <1>1, <1>2, <2>1, <3>3
      <4> QED
        BY <1>1, <1>2, <4>1
    <3> QED
      BY <1>1, <1>2, <2>1, <3>1, <3>2, <3>3
  <2>2. \A j \in DOMAIN a : \E i \in DOMAIN s : s[i] = a[j]
    <3> TAKE j \in DOMAIN a
    <3>1. j \in DOMAIN s /\ j \in 1 .. Len(ab)
      BY <1>1, <1>2
    <3> QED
      BY <1>1, <1>2, <3>1
  <2>3. \A j \in DOMAIN b : \E i \in DOMAIN s : s[i] = b[j]
    <3> TAKE j \in DOMAIN b
    <3>1. Len(a) + j \in DOMAIN s /\ Len(a) + j \in 1 .. Len(ab)
      BY <1>1, <1>2
    <3> QED
      BY <1>1, <1>2, <3>1
  <2>4. \A j \in DOMAIN c : \E i \in DOMAIN s : s[i] = c[j]
    <3> TAKE j \in DOMAIN c
    <3>1. Len(ab) + j \in DOMAIN s
      BY <1>1, <1>2
    <3> QED
      BY <1>2, <3>1
  <2> QED
    BY <2>1, <2>2, <2>3, <2>4 DEF Says
<1> QED
  BY <1>1, <1>2, <1>3 DEF s, ab

Subjects == {a.path : a \in ActionSet} \cup {"bin"}
MsgSet == {"stuck_write", "stuck_append", "stuck_registry", "manual", "restart_shell", "restart_terminal", "shadow"} \X Subjects

LEMMA OneMsg ==
  ASSUME NEW kind, NEW subject
  PROVE  /\ \A k : Says(<<Msg(kind, subject)>>, k) <=> k = kind
         /\ Len(<<Msg(kind, subject)>>) = 1
         /\ kind \in {"stuck_write", "stuck_append", "stuck_registry", "manual", "restart_shell", "restart_terminal", "shadow"} /\ subject \in Subjects
            => <<Msg(kind, subject)>> \in Seq(MsgSet)
<1> DEFINE m == Msg(kind, subject)
           s == <<m>>
<1>1. m[1] = kind
  BY DEF Msg
<1>2. kind \in {"stuck_write", "stuck_append", "stuck_registry", "manual", "restart_shell", "restart_terminal", "shadow"} /\ subject \in Subjects => m \in MsgSet
  BY DEF Msg, MsgSet
<1> HIDE DEF m
<1>3. DOMAIN s = {1} /\ s[1] = m /\ Len(s) = 1 /\ (m \in MsgSet => s \in Seq(MsgSet))
  OBVIOUS
<1> HIDE DEF s
<1>4. \A k : Says(s, k) <=> k = kind
  BY <1>1, <1>3 DEF Says
<1> QED
  BY <1>2, <1>3, <1>4 DEF s, m

LEMMA NoMsg == /\ <<>> \in Seq(MsgSet) /\ Len(<<>>) = 0
               /\ \A k : ~Says(<<>>, k)
BY DEF Says

StuckKinds == {"stuck_write", "stuck_append", "stuck_registry"}

LEMMA StuckMsg ==
  ASSUME NEW a \in ActionSet, a # ExeAction
  PROVE  push_stuck(a) \in MsgSet /\ push_stuck(a)[1] \in StuckKinds
<1>1. a.path \in Subjects /\ NoFile \in Subjects
  BY ActionsAre DEF Subjects
<1>2. a.kind \in {"write", "append", "registry"}
  BY DEF ActionSet, EnvAction, FishAction, GithubAction, RegistryAction, RcAction, Action
<1>3. push_stuck(a) = Msg("stuck_write", a.path) \/ push_stuck(a) = Msg("stuck_append", a.path) \/ push_stuck(a) = Msg("stuck_registry", NoFile)
  BY <1>2 DEF push_stuck
<1>4. \A kind \in StuckKinds, subject \in Subjects : Msg(kind, subject) \in MsgSet /\ Msg(kind, subject)[1] = kind
  BY DEF Msg, MsgSet, StuckKinds
<1> QED
  BY <1>1, <1>3, <1>4 DEF StuckKinds

LEMMA ReportFacts ==
  ASSUME NEW os, NEW facts, NEW p \in PlanSet, NEW stuck \in Seq(Nat),
         \A k \in DOMAIN stuck : stuck[k] \in DOMAIN p.actions /\ p.actions[stuck[k]] # ExeAction,
         NEW msgs, msgs = spn_install_report(os, facts, p, stuck)
  PROVE  /\ Len(msgs) \in Nat /\ Len(msgs) <= Len(stuck) + 2
         /\ (\E kind \in StuckKinds : Says(msgs, kind)) <=> stuck # <<>>
         /\ Says(msgs, "manual") <=> p.state = "manual" \/ (p.state \in {"ci", "updated"} /\ path_broken(p, stuck))
         /\ Says(msgs, "restart_shell") <=> p.state = "updated" /\ ~path_broken(p, stuck) /\ os = "unix"
         /\ Says(msgs, "restart_terminal") <=> p.state = "updated" /\ ~path_broken(p, stuck) /\ os # "unix"
<1> DEFINE broken == path_broken(p, stuck)
           manual == <<Msg("manual", "bin")>>
           a == [i \in DOMAIN stuck |-> push_stuck(p.actions[stuck[i]])]
           shell == <<Msg("restart_shell", IF p.posix THEN "env" ELSE NoFile)>>
           terminal == <<Msg("restart_terminal", NoFile)>>
           b == CASE p.state = "ok" -> <<>> [] p.state = "manual" -> manual [] p.state = "ci" -> IF broken THEN manual ELSE <<>>
                  [] p.state = "updated" -> IF broken THEN manual ELSE IF os = "unix" THEN shell ELSE terminal
           c == IF facts.shadow THEN <<Msg("shadow", "exe")>> ELSE <<>>
<1>1. msgs = a \o b \o c
  BY Zenon DEF spn_install_report
<1>2. /\ a \in Seq(MsgSet) /\ Len(a) = Len(stuck)
      /\ \A kind : Says(a, kind) => kind \in StuckKinds
      /\ stuck # <<>> => \E kind \in StuckKinds : Says(a, kind)
  <2>1. DOMAIN stuck = 1 .. Len(stuck) /\ Len(stuck) \in Nat /\ (stuck # <<>> => Len(stuck) > 0)
    OBVIOUS
  <2>2. \A i \in 1 .. Len(stuck) : p.actions[stuck[i]] \in ActionSet /\ p.actions[stuck[i]] # ExeAction
    <3>1. \A i \in DOMAIN p.actions : p.actions[i] \in ActionSet
      BY DEF PlanSet
    <3> QED
      BY <2>1, <3>1
  <2>3. \A i \in 1 .. Len(stuck) : a[i] \in MsgSet /\ a[i][1] \in StuckKinds
    BY <2>1, <2>2, StuckMsg
  <2>4. a = [i \in 1 .. Len(stuck) |-> push_stuck(p.actions[stuck[i]])]
    BY <2>1
  <2>5. \A i \in 1 .. Len(stuck) : push_stuck(p.actions[stuck[i]]) \in MsgSet
    BY <2>2, StuckMsg
  <2>6. a \in [1 .. Len(stuck) -> MsgSet]
    BY <2>4, <2>5
  <2> HIDE DEF a
  <2>7. a \in Seq(MsgSet) /\ Len(a) = Len(stuck) /\ DOMAIN a = 1 .. Len(stuck)
    BY <2>1, <2>6
  <2>8. stuck # <<>> => 1 \in DOMAIN a
    BY <2>1, <2>7
  <2> QED
    BY <2>3, <2>7, <2>8 DEF Says
<1>3. "bin" \in Subjects /\ "exe" \in Subjects /\ "env" \in Subjects /\ NoFile \in Subjects
  BY ActionsAre DEF Subjects
<1> HIDE DEF a
<1>4. /\ manual \in Seq(MsgSet) /\ Len(manual) = 1 /\ \A k : Says(manual, k) <=> k = "manual"
      /\ terminal \in Seq(MsgSet) /\ Len(terminal) = 1 /\ \A k : Says(terminal, k) <=> k = "restart_terminal"
  BY <1>3, OneMsg
<1>5. shell \in Seq(MsgSet) /\ Len(shell) = 1 /\ \A k : Says(shell, k) <=> k = "restart_shell"
  <2> DEFINE subject == IF p.posix THEN "env" ELSE NoFile
  <2>1. subject \in Subjects
    BY <1>3
  <2> HIDE DEF subject
  <2>2. <<Msg("restart_shell", subject)>> \in Seq(MsgSet) /\ Len(<<Msg("restart_shell", subject)>>) = 1 /\ \A k : Says(<<Msg("restart_shell", subject)>>, k) <=> k = "restart_shell"
    BY <2>1, OneMsg
  <2> QED
    BY <2>2 DEF subject
<1>6. c \in Seq(MsgSet) /\ Len(c) <= 1 /\ \A k : Says(c, k) => k = "shadow"
  <2> DEFINE shadow == <<Msg("shadow", "exe")>>
             none == <<>>
  <2>1. shadow \in Seq(MsgSet) /\ Len(shadow) <= 1 /\ \A k : Says(shadow, k) <=> k = "shadow"
    BY <1>3, OneMsg
  <2>2. none \in Seq(MsgSet) /\ Len(none) <= 1 /\ \A k : ~Says(none, k)
    BY NoMsg
  <2>3. c = shadow \/ c = none
    BY Zenon
  <2> HIDE DEF c, shadow, none
  <2> QED
    BY <2>1, <2>2, <2>3, Zenon
<1> HIDE DEF manual, shell, terminal, c, broken
<1>7. /\ p.state = "ok" \/ (p.state = "ci" /\ ~broken) => b = <<>>
      /\ p.state = "manual" \/ (p.state \in {"ci", "updated"} /\ broken) => b = manual
      /\ p.state = "updated" /\ ~broken /\ os = "unix" => b = shell
      /\ p.state = "updated" /\ ~broken /\ os # "unix" => b = terminal
  BY SMT
<1>8. p.state \in {"ok", "manual", "ci", "updated"}
  BY DEF PlanSet
<1> HIDE DEF b
<1>9. /\ b \in Seq(MsgSet) /\ Len(b) <= 1 /\ Len(b) \in Nat
      /\ \A k : Says(b, k) => k \in {"manual", "restart_shell", "restart_terminal"}
      /\ Says(b, "manual") <=> p.state = "manual" \/ (p.state \in {"ci", "updated"} /\ broken)
      /\ Says(b, "restart_shell") <=> p.state = "updated" /\ ~broken /\ os = "unix"
      /\ Says(b, "restart_terminal") <=> p.state = "updated" /\ ~broken /\ os # "unix"
  <2> DEFINE none == <<>>
  <2>1. none \in Seq(MsgSet) /\ Len(none) <= 1 /\ Len(none) \in Nat /\ \A k : ~Says(none, k)
    BY NoMsg
  <2>2. p.state = "ok" \/ (p.state = "ci" /\ ~broken) => b = none
    BY <1>7
  <2>0. /\ Len(manual) <= 1 /\ Len(manual) \in Nat /\ Len(terminal) <= 1 /\ Len(terminal) \in Nat /\ Len(shell) <= 1 /\ Len(shell) \in Nat
    BY <1>4, <1>5
  <2> HIDE DEF none
  <2>3. CASE p.state = "ok" \/ (p.state = "ci" /\ ~broken)
    BY <2>1, <2>2, <2>3, Zenon
  <2>4. CASE p.state = "manual" \/ (p.state \in {"ci", "updated"} /\ broken)
    BY <1>4, <1>7, <2>0, <2>4, Zenon
  <2>5. CASE p.state = "updated" /\ ~broken /\ os = "unix"
    BY <1>5, <1>7, <2>0, <2>5, Zenon
  <2>6. CASE p.state = "updated" /\ ~broken /\ os # "unix"
    BY <1>4, <1>7, <2>0, <2>6, Zenon
  <2> QED
    BY <1>8, <2>3, <2>4, <2>5, <2>6
<1>10. Len(msgs) = Len(a) + Len(b) + Len(c) /\ \A kind : Says(msgs, kind) <=> Says(a, kind) \/ Says(b, kind) \/ Says(c, kind)
  BY <1>1, <1>2, <1>6, <1>9, Joined
<1>11. Len(msgs) \in Nat /\ Len(msgs) <= Len(stuck) + 2
  <2>1. Len(c) \in Nat /\ Len(stuck) \in Nat
    BY <1>6
  <2> QED
    BY <1>2, <1>6, <1>9, <1>10, <2>1
<1>12. (\E kind \in StuckKinds : Says(msgs, kind)) <=> stuck # <<>>
  <2>1. \A kind \in StuckKinds : ~Says(b, kind) /\ ~Says(c, kind)
    BY <1>6, <1>9 DEF StuckKinds
  <2>2. stuck = <<>> => \A kind : ~Says(a, kind)
    <3>1. stuck = <<>> => Len(stuck) = 0 /\ DOMAIN a = 1 .. Len(a)
      BY <1>2
    <3> QED
      BY <1>2, <3>1 DEF Says
  <2> QED
    BY <1>2, <1>10, <2>1, <2>2
<1>13. \A kind \in {"manual", "restart_shell", "restart_terminal"} : Says(msgs, kind) <=> Says(b, kind)
  <2>1. \A kind \in {"manual", "restart_shell", "restart_terminal"} : ~Says(a, kind) /\ ~Says(c, kind)
    BY <1>2, <1>6 DEF StuckKinds
  <2> QED
    BY <1>10, <2>1
<1> QED
  BY <1>9, <1>11, <1>12, <1>13, Zenon DEF broken

(* Not broken, a plan has a hook that is live or went in.                  *)
LEMMA NotBroken ==
  ASSUME NEW p \in PlanSet, NEW stuck, ~path_broken(p, stuck)
  PROVE  /\ \A i \in ToSet(stuck) : p.actions[i].role # "env"
         /\ p.live > 0 \/ \E i \in DOMAIN p.actions : IsHook(p.actions[i]) /\ i \notin ToSet(stuck)
<1> DEFINE H == Hooks(p)
           C == Cardinality(H)
<1>1. \A i \in ToSet(stuck) : p.actions[i].role # "env"
  BY DEF path_broken
<1>2. p.live + C - Cardinality(ToSet(stuck) \cap H) # 0
  BY DEF path_broken
<1>3. ASSUME H \subseteq ToSet(stuck) PROVE p.live > 0
  <2>1. ToSet(stuck) \cap H = H
    BY <1>3
  <2>2. C \in Nat
    <3>1. DOMAIN p.actions = 1 .. Len(p.actions) /\ Len(p.actions) \in Nat
      BY DEF PlanSet
    <3>2. IsFiniteSet(1 .. Len(p.actions))
      BY <3>1, FS_Interval
    <3>3. H \in SUBSET (1 .. Len(p.actions))
      BY <3>1 DEF Hooks
    <3> QED
      BY <3>2, <3>3, FS_Subset, FS_CardinalityType
  <2> HIDE DEF C
  <2>3. p.live \in Nat /\ p.live + C - C # 0
    BY <1>2, <2>1 DEF PlanSet, C
  <2> QED
    BY <2>2, <2>3
<1>4. ~(H \subseteq ToSet(stuck)) => \E i \in DOMAIN p.actions : IsHook(p.actions[i]) /\ i \notin ToSet(stuck)
  BY DEF Hooks, IsHook
<1> QED
  BY <1>1, <1>3, <1>4

-----------------------------------------------------------------------------
(* The steps.                                                              *)

LEMMA Rests ==
  ASSUME NEW h, NEW runs
  PROVE  Idle(runs).stage = "idle" /\ RunOf(h, Idle(runs))
<1>1. Idle(runs).stage = "idle"
  BY DEF Idle
<1> QED
  BY <1>1 DEF RunOf

(* A run that goes on with the plan, the place and the stuck steps it had. *)
LEMMA GoesOn ==
  ASSUME NEW h, NEW r, NEW q, Going(h, r), q.world = r.world, q.facts = r.facts, q.plan = r.plan, q.at = r.at, q.stuck = r.stuck
  PROVE  Going(h, q)
BY Zenon DEF Going

(* A run that has not begun has no stuck step.                             *)
LEMMA Begins ==
  ASSUME NEW h, NEW r, PlanOf(h, r.world, r.facts, r.plan), FactsKept(h, r.facts), Fresh(h, r.world, r.plan, 1), r.at = 1, r.stuck = <<>>
  PROVE  Going(h, r)
<1>1. Len(r.plan.actions) \in Nat
  BY DEF PlanOf, PlanSet
<1>2. Len(r.stuck) = 0 /\ r.stuck \in Seq(Nat) /\ DOMAIN r.stuck = {}
  OBVIOUS
<1>3. StuckOf(r.plan, r.at, r.stuck)
  BY <1>2 DEF StuckOf
<1>4. r.at \in 1 .. Len(r.plan.actions) + 1 /\ ~(r.at > 1) /\ \A i \in 1 .. r.at - 1 : FALSE
  BY <1>1
<1> QED
  BY <1>3, <1>4, Zenon DEF Going

LEMMA RecordIs ==
  ASSUME NEW stage, NEW world, NEW facts, NEW choices, NEW can_path, NEW plan, NEW at, NEW stuck, NEW err, NEW msgs, NEW runs,
         NEW r, r = [stage |-> stage, world |-> world, facts |-> facts, choices |-> choices, can_path |-> can_path, plan |-> plan,
                     at |-> at, stuck |-> stuck, err |-> err, msgs |-> msgs, runs |-> runs]
  PROVE  /\ Shape(r) /\ r.stage = stage /\ r.world = world /\ r.facts = facts /\ r.choices = choices /\ r.plan = plan
         /\ r.at = at /\ r.stuck = stuck /\ r.err = err /\ r.msgs = msgs
BY DEF Shape

LEMMA ProbeStep ==
  ASSUME IInv, Probe
  PROVE  IInv'
<1>1. HomeInv /\ home' = home
  BY DEF IInv, Probe
<1>2. PICK w \in Worlds, prompt \in BOOLEAN :
        install' = IF ~w.home_set THEN Idle(install.runs + 1)
                   ELSE [stage |-> IF prompt THEN "prompt" ELSE "run", world |-> w, facts |-> probe_facts(w), choices |-> spn_install_choices(home.os, w, probe_facts(w)),
                         can_path |-> spn_install_path_state(home.os, w, probe_facts(w), spn_install_choices(home.os, w, probe_facts(w))) = "updated",
                         plan |-> spn_install_plan(home.os, w, probe_facts(w), spn_install_choices(home.os, w, probe_facts(w))),
                         at |-> 1, stuck |-> <<>>, err |-> "ok", msgs |-> <<>>, runs |-> install.runs + 1]
  BY Zenon DEF Probe
<1>3. CASE ~w.home_set
  <2>1. install' = Idle(install.runs + 1)
    BY <1>2, <1>3, Zenon
  <2> QED
    BY <1>1, <2>1, Rests DEF IInv, HomeInv, RunInv
<1>4. CASE w.home_set
  <2> DEFINE facts == probe_facts(w)
             choices == spn_install_choices(home.os, w, facts)
             plan == spn_install_plan(home.os, w, facts, choices)
             stage == IF prompt THEN "prompt" ELSE "run"
             can_path == spn_install_path_state(home.os, w, facts, choices) = "updated"
             none == <<>>
             runs == install.runs + 1
             r == [stage |-> stage, world |-> w, facts |-> facts, choices |-> choices, can_path |-> can_path, plan |-> plan,
                   at |-> 1, stuck |-> none, err |-> "ok", msgs |-> none, runs |-> runs]
  <2>1. install' = r
    BY <1>2, <1>4, Zenon
  <2>2. Found(home, w, facts)
    BY <1>1, ProbeFound
  <2>3. ChoicesOf(home, w, choices)
    BY FirstChoices
  <2>4. stage \in {"prompt", "run"}
    OBVIOUS
  <2> HIDE DEF facts, choices
  <2>5. PlanOf(home, w, facts, plan) /\ Fresh(home, w, plan, 1)
    BY <1>1, <2>2, <2>3, Planned DEF HomeInv
  <2> HIDE DEF plan, stage, can_path, runs
  <2>6. /\ Shape(r) /\ r.stage = stage /\ r.world = w /\ r.facts = facts /\ r.choices = choices /\ r.plan = plan
        /\ r.at = 1 /\ r.stuck = none /\ r.err = "ok" /\ r.msgs = none
    BY RecordIs
  <2> HIDE DEF r
  <2>7. Going(home, r)
    <3>1. FactsKept(home, facts)
      BY <2>2 DEF Found
    <3> QED
      BY <2>5, <2>6, <3>1, Begins
  <2>8. RunOf(home, r)
    BY <2>2, <2>3, <2>4, <2>6, <2>7, Zenon DEF RunOf, Asking, none
  <2> QED
    BY <1>1, <2>1, <2>4, <2>6, <2>8 DEF IInv, HomeInv, RunInv
<1> QED
  BY <1>3, <1>4

LEMMA PromptStep ==
  ASSUME IInv, Prompt
  PROVE  IInv'
<1> DEFINE r == install
           q == install'
<1>1. HomeInv /\ home' = home /\ r.stage = "prompt"
  BY DEF IInv, Prompt
<1>2. Shape(r) /\ Asking(home, r) /\ Going(home, r) /\ r.msgs = <<>>
  BY <1>1 DEF IInv, RunInv, RunOf
<1>3. PICK choices \in IF install.can_path THEN prompt_choices ELSE {install.choices} :
        q = [r EXCEPT !.choices = choices, !.plan = spn_install_plan(home.os, r.world, r.facts, choices),
                      !.stage = IF spn_install_plan(home.os, r.world, r.facts, choices).actions = <<>> THEN "run" ELSE "confirm"]
  BY Zenon DEF Prompt
<1>4. Found(home, r.world, r.facts) /\ ChoicesOf(home, r.world, r.choices) /\ r.at = 1
  BY <1>1, <1>2 DEF Asking
<1>5. ChoicesOf(home, r.world, choices)
  <2>1. choices \in prompt_choices \/ choices = r.choices
    BY <1>3, Zenon
  <2> QED
    BY <1>1, <1>4, <2>1, PromptChoices DEF HomeInv
<1> DEFINE plan == spn_install_plan(home.os, r.world, r.facts, choices)
           stage == IF plan.actions = <<>> THEN "run" ELSE "confirm"
<1>6. PlanOf(home, r.world, r.facts, plan) /\ Fresh(home, r.world, plan, 1)
  BY <1>1, <1>4, <1>5, Planned DEF HomeInv
<1>7. stage \in {"run", "confirm"} /\ q = [r EXCEPT !.choices = choices, !.plan = plan, !.stage = stage]
  BY <1>3
<1>8. r.stuck = <<>>
  <2>1. r.stuck \in Seq(Nat) /\ Len(r.stuck) < 1
    BY <1>2, <1>4 DEF Going, StuckOf
  <2> QED
    BY <2>1
<1> HIDE DEF plan, stage, r, q
<1>9. Shape(q) /\ q.stage = stage /\ q.world = r.world /\ q.facts = r.facts /\ q.choices = choices /\ q.plan = plan /\ q.at = r.at /\ q.stuck = r.stuck /\ q.msgs = r.msgs
  BY <1>2, <1>7 DEF Shape
<1>10. Going(home, q)
  <2>1. FactsKept(home, r.facts)
    BY <1>4 DEF Found
  <2> QED
    BY <1>4, <1>6, <1>8, <1>9, <2>1, Begins
<1>11. RunOf(home, q)
  BY <1>2, <1>4, <1>5, <1>7, <1>9, <1>10, Zenon DEF RunOf, Asking
<1> QED
  BY <1>1, <1>7, <1>9, <1>11 DEF IInv, HomeInv, RunInv, q

LEMMA AnswerStep ==
  ASSUME IInv, Proceed \/ Decline
  PROVE  IInv'
<1> DEFINE r == install
           q == install'
<1>1. HomeInv /\ home' = home /\ r.stage = "confirm" /\ (q = [r EXCEPT !.stage = "run"] \/ q = [r EXCEPT !.stage = "prompt"])
  BY DEF IInv, Proceed, Decline
<1>2. Shape(r) /\ Asking(home, r) /\ Going(home, r) /\ r.msgs = <<>>
  BY <1>1 DEF IInv, RunInv, RunOf
<1>3. PICK stage \in {"run", "prompt"} : q = [r EXCEPT !.stage = stage]
  BY <1>1
<1> HIDE DEF r, q
<1>4. /\ Shape(q) /\ q.stage = stage /\ q.world = r.world /\ q.facts = r.facts /\ q.choices = r.choices /\ q.plan = r.plan /\ q.at = r.at
      /\ q.stuck = r.stuck /\ q.msgs = r.msgs
  BY <1>2, <1>3 DEF Shape
<1>5. Going(home, q)
  BY <1>2, <1>4, GoesOn
<1>6. RunOf(home, q)
  BY <1>1, <1>2, <1>4, <1>5, Zenon DEF RunOf, Asking
<1> QED
  BY <1>1, <1>4, <1>6 DEF IInv, HomeInv, RunInv, q

LEMMA EndStep ==
  ASSUME IInv, Cancel \/ Killed \/ Again
  PROVE  IInv'
<1>1. HomeInv /\ home' = home /\ install' = Idle(install.runs)
  BY DEF IInv, Cancel, Killed, Again
<1> QED
  BY <1>1, Rests DEF IInv, HomeInv, RunInv

LEMMA ReportStep ==
  ASSUME IInv, Report
  PROVE  IInv'
<1> DEFINE r == install
           q == install'
           err == IF r.stuck # <<>> THEN "stuck" ELSE "ok"
           msgs == spn_install_report(home.os, r.facts, r.plan, r.stuck)
<1>1. HomeInv /\ home' = home /\ r.stage = "run" /\ r.at > Len(r.plan.actions) /\ q = [r EXCEPT !.stage = "done", !.err = err, !.msgs = msgs]
  BY DEF IInv, Report
<1>2. Shape(r) /\ Going(home, r)
  BY <1>1 DEF IInv, RunInv, RunOf
<1>3. r.at = Len(r.plan.actions) + 1
  BY <1>1, <1>2 DEF Going, PlanOf, PlanSet
<1> HIDE DEF r, q, err, msgs
<1>4. /\ Shape(q) /\ q.stage = "done" /\ q.world = r.world /\ q.facts = r.facts /\ q.plan = r.plan /\ q.at = r.at
      /\ q.stuck = r.stuck /\ q.msgs = msgs /\ q.err = err
  BY <1>1, <1>2 DEF Shape
<1>5. Going(home, q)
  BY <1>2, <1>4, GoesOn
<1>6. err # "exe"
  BY DEF err
<1>7. Reported(home, q)
  BY <1>3, <1>4, <1>6, Zenon DEF Reported, err, msgs
<1>8. RunOf(home, q)
  BY <1>4, <1>5, <1>7, Zenon DEF RunOf, Asking
<1> QED
  BY <1>1, <1>4, <1>8 DEF IInv, HomeInv, RunInv, q

(* Marking what a run could not see changes nothing else.                  *)
LEMMA MarkedIs ==
  ASSUME HomeOf(home), HomeSound(home), NEW w, NEW a
  PROVE  /\ HomeOf(Marked(w, a)) /\ HomeSound(Marked(w, a)) /\ Grows(home, Marked(w, a)) /\ Marked(w, a).exe = home.exe
         /\ Marked(w, a).lines = home.lines
         /\ \A f \in Files : a = RcAction(f) /\ Clear(home, w, f) => home.lines[f] = 0 \/ f \in Marked(w, a).unseen
<1> DEFINE unseen == home.unseen \cup {f \in Files \cap Blind(w) : a.kind = "append" /\ a.path = f /\ home.lines[f] > 0}
           k == [home EXCEPT !.unseen = unseen]
<1>1. home \in HomeType
  BY DEF HomeOf
<1>2. unseen \in SUBSET Files /\ home.unseen \subseteq unseen
  BY <1>1 DEF HomeType
<1>3. Marked(w, a) = k
  BY <1>1 DEF Marked, HomeType
<1>4. \A f \in Files : a = RcAction(f) /\ Clear(home, w, f) => home.lines[f] = 0 \/ f \in unseen
  <2> SUFFICES ASSUME NEW f \in Files, a = RcAction(f), f \in Blind(w), home.lines[f] # 0 PROVE f \in unseen
    BY DEF Clear
  <2>1. a.kind = "append" /\ a.path = f
    BY DEF RcAction, Action
  <2>2. home.lines[f] > 0
    BY <1>1 DEF HomeType
  <2> QED
    BY <2>1, <2>2
<1> HIDE DEF unseen
<1>5. /\ k \in HomeType /\ k.lines = home.lines /\ k.unseen = unseen /\ k.exists = home.exists /\ k.os = home.os /\ k.registry = home.registry
      /\ k.exe = home.exe /\ k.env = home.env /\ k.fish_conf = home.fish_conf
  BY <1>1, <1>2 DEF HomeType
<1>6. k.github = home.github
  BY <1>1, <1>2 DEF HomeType
<1> HIDE DEF k
<1>7. Hooked(k) <=> Hooked(home)
  BY <1>5 DEF Hooked
<1>8. HomeOf(k)
  BY <1>5 DEF HomeOf
<1>9. HomeSound(k)
  BY <1>2, <1>5, <1>6, <1>7 DEF HomeSound
<1>10. Grows(home, k)
  BY <1>5, <1>6, <1>7, Zenon DEF Grows
<1> QED
  BY <1>3, <1>4, <1>5, <1>8, <1>9, <1>10

LEMMA ExecuteStep ==
  ASSUME IInv, Execute
  PROVE  IInv'
<1> DEFINE r == install
           q == install'
           a == r.plan.actions[r.at]
           L == Len(r.plan.actions)
<1>1. HomeOf(home) /\ HomeSound(home) /\ r.stage = "run" /\ r.at <= L
  BY DEF IInv, HomeInv, Execute
<1>2. \/ home' = apply(Marked(r.world, a), r.facts, a) /\ q = [r EXCEPT !.at = @ + 1]
      \/ home' = home /\ a.role = "exe" /\ q = [r EXCEPT !.stage = "done", !.err = "exe"]
      \/ home' = home /\ a.role # "exe" /\ q = [r EXCEPT !.at = @ + 1, !.stuck = Append(@, r.at)]
  BY Zenon DEF Execute
<1>3. Shape(r) /\ Going(home, r) /\ r.msgs = <<>>
  BY <1>1 DEF IInv, RunInv, RunOf
<1> HIDE DEF r, q, a, L
<1>4. /\ PlanOf(home, r.world, r.facts, r.plan) /\ FactsKept(home, r.facts) /\ Fresh(home, r.world, r.plan, r.at) /\ r.at \in 1 .. L + 1
      /\ r.at > 1 => home.exe # "none"
      /\ StuckOf(r.plan, r.at, r.stuck)
      /\ \A i \in 1 .. r.at - 1 : i \in ToSet(r.stuck) \/ Effect(home, r.plan.actions[i])
  BY <1>3, Zenon DEF Going, L
<1>5. r.plan \in PlanSet /\ L \in Nat /\ DOMAIN r.plan.actions = 1 .. L /\ r.at \in 1 .. L /\ r.at \in Nat /\ Distinct(r.plan)
  BY <1>1, <1>4 DEF PlanOf, PlanSet, L
<1>6. a \in ActionSet
  BY <1>5 DEF PlanSet, a
<1>7. a # ExeAction => home.exe # "none"
  <2>1. CASE r.at > 1
    BY <1>4, <2>1
  <2>2. CASE ~(r.at > 1)
    <3>1. r.at = 1
      BY <1>5, <2>2
    <3>2. r.facts.own \/ r.plan.actions[1] = ExeAction
      BY <1>4, Zenon DEF PlanOf
    <3>3. r.facts.own => home.exe # "none"
      BY <1>4, Zenon DEF FactsKept
    <3> QED
      BY <3>1, <3>2, <3>3, Zenon DEF a
  <2> QED
    BY <2>1, <2>2
<1>8. a = RegistryAction => r.facts.registry.kind # "other"
  BY <1>4, <1>5 DEF PlanOf, a
<1>9. \A f \in Files : a = RcAction(f) => Clear(home, r.world, f)
  BY <1>4, <1>5 DEF Fresh, a
<1>10. RegistryOf(r.facts.registry)
  BY <1>4 DEF FactsKept
<1>11. \A i \in 1 .. r.at : i \in 1 .. r.at - 1 \/ i = r.at
  BY <1>5
<1>12. \A i \in DOMAIN r.plan.actions, f \in Files : i >= r.at + 1 /\ r.plan.actions[i] = RcAction(f) => a # RcAction(f) /\ Clear(home, r.world, f)
  <2> SUFFICES ASSUME NEW i \in DOMAIN r.plan.actions, NEW f \in Files, i >= r.at + 1, r.plan.actions[i] = RcAction(f)
               PROVE  a # RcAction(f) /\ Clear(home, r.world, f)
    OBVIOUS
  <2>1. i # r.at /\ i >= r.at
    BY <1>5
  <2>2. Clear(home, r.world, f)
    BY <1>4, <2>1 DEF Fresh
  <2>3. a # RcAction(f)
    BY <1>5, <2>1 DEF Distinct, a
  <2> QED
    BY <2>2, <2>3
<1>13. CASE home' = apply(Marked(r.world, a), r.facts, a) /\ q = [r EXCEPT !.at = @ + 1]
  <2> DEFINE k == home'
  <2>1. /\ HomeOf(k) /\ HomeSound(k) /\ Grows(home, k) /\ Effect(k, a) /\ k.exe # "none"
        /\ \A f \in Files : a # RcAction(f) => k.lines[f] = home.lines[f]
    <3> DEFINE h == Marked(r.world, a)
    <3>1. /\ HomeOf(h) /\ HomeSound(h) /\ Grows(home, h) /\ h.exe = home.exe /\ h.lines = home.lines
          /\ \A f \in Files : a = RcAction(f) => h.lines[f] = 0 \/ f \in h.unseen
      BY <1>1, <1>9, MarkedIs
    <3> HIDE DEF h
    <3>2. LET x == apply(h, r.facts, a)
          IN  /\ HomeOf(x) /\ HomeSound(x) /\ Grows(h, x) /\ Effect(x, a) /\ x.exe # "none"
              /\ \A f \in Files : a # RcAction(f) => x.lines[f] = h.lines[f]
      BY <1>6, <1>7, <1>8, <1>10, <3>1, ApplyStep
    <3>3. k = apply(h, r.facts, a)
      BY <1>13 DEF h
    <3>4. HomeOf(k) /\ HomeSound(k) /\ Grows(h, k) /\ Effect(k, a) /\ k.exe # "none"
      BY <3>2, <3>3, Zenon
    <3>5. \A f \in Files : a # RcAction(f) => k.lines[f] = home.lines[f]
      BY <3>1, <3>2, <3>3
    <3>6. Grows(home, k)
      BY <3>1, <3>4, Zenon DEF Grows
    <3> QED
      BY <3>4, <3>5, <3>6, Zenon
  <2> HIDE DEF k
  <2>2. /\ Shape(q) /\ q.stage = "run" /\ q.world = r.world /\ q.facts = r.facts /\ q.plan = r.plan /\ q.at = r.at + 1
        /\ q.stuck = r.stuck /\ q.msgs = r.msgs
    BY <1>1, <1>3, <1>13 DEF Shape
  <2>3. PlanOf(k, r.world, r.facts, r.plan) /\ FactsKept(k, r.facts) /\ \A i \in 1 .. r.at - 1 : i \in ToSet(r.stuck) \/ Effect(k, r.plan.actions[i])
    <3>1. /\ \A w, facts, p : PlanOf(home, w, facts, p) => PlanOf(k, w, facts, p)
          /\ \A facts : FactsKept(home, facts) => FactsKept(k, facts)
          /\ \A b : Effect(home, b) => Effect(k, b)
      <4>1. Grows(home, k)
        BY <2>1
      <4> QED
        BY <4>1, GrowsKeeps
    <3>2. PlanOf(k, r.world, r.facts, r.plan)
      BY <1>4, <3>1, Zenon
    <3>3. FactsKept(k, r.facts)
      BY <1>4, <3>1, Zenon
    <3>4. ASSUME NEW i \in 1 .. r.at - 1 PROVE i \in ToSet(r.stuck) \/ Effect(k, r.plan.actions[i])
      BY <1>4, <3>1, Zenon
    <3> QED
      BY <3>2, <3>3, <3>4
  <2>4. Fresh(k, r.world, r.plan, r.at + 1)
    BY <1>12, <2>1 DEF Fresh, Clear
  <2>5. r.at + 1 \in 1 .. L + 1 /\ (r.at + 1) - 1 = r.at
    BY <1>5
  <2>6. StuckOf(r.plan, r.at + 1, r.stuck)
    BY <1>4, <1>5 DEF StuckOf
  <2>7. \A i \in 1 .. r.at : i \in ToSet(r.stuck) \/ Effect(k, r.plan.actions[i])
    BY <1>11, <2>1, <2>3, Zenon DEF a
  <2>8. Going(k, q)
    BY <2>1, <2>2, <2>3, <2>4, <2>5, <2>6, <2>7, Zenon DEF Going, L
  <2>9. RunOf(k, q)
    BY <1>3, <2>2, <2>8, Zenon DEF RunOf, Asking
  <2> QED
    BY <2>1, <2>2, <2>9, Zenon DEF IInv, HomeInv, RunInv, q, k
<1>14. CASE home' = home /\ a.role = "exe" /\ q = [r EXCEPT !.stage = "done", !.err = "exe"]
  <2>1. /\ Shape(q) /\ q.stage = "done" /\ q.world = r.world /\ q.facts = r.facts /\ q.plan = r.plan /\ q.at = r.at
        /\ q.stuck = r.stuck /\ q.msgs = r.msgs /\ q.err = "exe"
    BY <1>3, <1>14 DEF Shape
  <2>2. Going(home, q)
    BY <1>3, <2>1, GoesOn
  <2>3. RunOf(home, q)
    BY <1>3, <2>1, <2>2, Zenon DEF RunOf, Asking, Reported
  <2> QED
    BY <1>1, <1>14, <2>1, <2>3, Zenon DEF IInv, HomeInv, RunInv, q
<1>15. CASE home' = home /\ a.role # "exe" /\ q = [r EXCEPT !.at = @ + 1, !.stuck = Append(@, r.at)]
  <2> DEFINE stuck == Append(r.stuck, r.at)
  <2>1. a # ExeAction /\ home.exe # "none"
    BY <1>7, <1>15, ActionsAre
  <2>2. r.stuck \in Seq(Nat) /\ Len(r.stuck) < r.at /\ \A j \in DOMAIN r.stuck : r.stuck[j] \in 1 .. r.at - 1 /\ r.plan.actions[r.stuck[j]] # ExeAction
    BY <1>4 DEF StuckOf
  <2>3. stuck \in Seq(Nat) /\ Len(stuck) = Len(r.stuck) + 1 /\ Len(r.stuck) \in Nat /\ stuck[Len(r.stuck) + 1] = r.at
        /\ (\A j \in 1 .. Len(r.stuck) : stuck[j] = r.stuck[j]) /\ DOMAIN r.stuck = 1 .. Len(r.stuck) /\ DOMAIN stuck = 1 .. Len(r.stuck) + 1
    BY <1>5, <2>2
  <2> HIDE DEF stuck
  <2>4. /\ Shape(q) /\ q.stage = "run" /\ q.world = r.world /\ q.facts = r.facts /\ q.plan = r.plan /\ q.at = r.at + 1
        /\ q.stuck = stuck /\ q.msgs = r.msgs
    <3>1. q = [r EXCEPT !.at = r.at + 1, !.stuck = stuck]
      BY <1>15 DEF stuck
    <3> QED
      BY <1>1, <1>3, <3>1 DEF Shape
  <2>5. StuckOf(r.plan, r.at + 1, stuck)
    <3>1. \A j \in DOMAIN stuck : stuck[j] \in 1 .. (r.at + 1) - 1 /\ r.plan.actions[stuck[j]] # ExeAction
      <4> TAKE j \in DOMAIN stuck
      <4>1. CASE j = Len(r.stuck) + 1
        BY <1>5, <2>1, <2>3, <4>1 DEF a
      <4>2. CASE j # Len(r.stuck) + 1
        <5>1. j \in DOMAIN r.stuck /\ stuck[j] = r.stuck[j]
          BY <2>3, <4>2
        <5> QED
          BY <1>5, <2>2, <5>1
      <4> QED
        BY <4>1, <4>2
    <3> QED
      BY <1>5, <2>2, <2>3, <3>1 DEF StuckOf
  <2>6. \A i \in 1 .. r.at : i \in ToSet(stuck) \/ Effect(home, r.plan.actions[i])
    <3>1. r.at \in ToSet(stuck) /\ ToSet(r.stuck) \subseteq ToSet(stuck)
      BY <2>3 DEF ToSet
    <3> QED
      BY <1>4, <1>11, <3>1
  <2>7. r.at + 1 \in 1 .. L + 1 /\ (r.at + 1) - 1 = r.at
    BY <1>5
  <2>8. Fresh(home, r.world, r.plan, r.at + 1)
    BY <1>12 DEF Fresh
  <2>9. Going(home, q)
    BY <1>4, <2>1, <2>4, <2>5, <2>6, <2>7, <2>8, Zenon DEF Going, L
  <2>10. RunOf(home, q)
    BY <1>3, <2>4, <2>9, Zenon DEF RunOf, Asking
  <2> QED
    BY <1>1, <1>15, <2>4, <2>10, Zenon DEF IInv, HomeInv, RunInv, q
<1> QED
  BY <1>2, <1>13, <1>14, <1>15

-----------------------------------------------------------------------------
(* What the user is told.                                                  *)

(* A report that finds the path whole: the env file is current, and one of *)
(* the hooks is in place.                                                  *)
LEMMA PathWhole ==
  ASSUME NEW h, NEW w, NEW facts, NEW p, NEW stuck, PlanOf(h, w, facts, p), FactsKept(h, facts), ~path_broken(p, stuck),
         \A i \in DOMAIN p.actions : i \in ToSet(stuck) \/ Effect(h, p.actions[i])
  PROVE  /\ p.state = "updated" /\ h.os = "unix" => h.env = "current" /\ (Hooked(h) \/ h.fish_conf = "current")
         /\ p.state = "updated" /\ h.os # "unix" => registry_contains(h.registry.path)
         /\ p.state = "ci" => h.github
<1>1. p \in PlanSet
  BY DEF PlanOf
<1>2. /\ \A i \in ToSet(stuck) : p.actions[i].role # "env"
      /\ p.live > 0 \/ \E i \in DOMAIN p.actions : IsHook(p.actions[i]) /\ i \notin ToSet(stuck)
  BY <1>1, NotBroken
<1>3. p.live > 0 \/ \E i \in DOMAIN p.actions : IsHook(p.actions[i]) /\ Effect(h, p.actions[i])
  BY <1>2
<1>4. ASSUME p.state = "updated", h.os = "unix" PROVE h.env = "current" /\ (Hooked(h) \/ h.fish_conf = "current")
  <2>1. /\ facts.env_current \/ \E i \in DOMAIN p.actions : p.actions[i] = EnvAction
        /\ \A i \in DOMAIN p.actions : IsHook(p.actions[i]) => p.actions[i] = FishAction \/ \E f \in Files : p.actions[i] = RcAction(f)
        /\ p.live > 0 => Hooked(h) \/ h.fish_conf = "current"
    BY <1>4, Zenon DEF PlanOf
  <2>2. EnvAction.role = "env"
    BY DEF EnvAction, Action
  <2>3. (\E i \in DOMAIN p.actions : p.actions[i] = EnvAction) => h.env = "current"
    BY <1>2, <2>2, Zenon DEF Effect
  <2>4. h.env = "current"
    BY <2>1, <2>3, Zenon DEF FactsKept
  <2>5. Hooked(h) \/ h.fish_conf = "current"
    BY <1>3, <2>1, Zenon DEF Effect
  <2> QED
    BY <2>4, <2>5
<1>5. ASSUME p.state = "updated", h.os # "unix" PROVE registry_contains(h.registry.path)
  <2>1. /\ \A i \in DOMAIN p.actions : IsHook(p.actions[i]) => p.actions[i] = RegistryAction
        /\ p.live > 0 => registry_contains(h.registry.path)
    BY <1>5, Zenon DEF PlanOf
  <2> QED
    BY <1>3, <2>1, Zenon DEF Effect
<1>6. ASSUME p.state = "ci" PROVE h.github
  <2>1. p.live = 0 /\ \A i \in DOMAIN p.actions : IsHook(p.actions[i]) => p.actions[i] = GithubAction
    BY <1>6, Zenon DEF PlanOf
  <2>2. ~(p.live > 0)
    BY <2>1
  <2> QED
    BY <1>3, <2>1, <2>2, Zenon DEF Effect
<1> QED
  BY <1>4, <1>5, <1>6

(* A run that has ended: what it told, and what is there.                  *)
LEMMA DoneTells ==
  ASSUME NEW h, HomeOf(h), NEW r, Going(h, r), Reported(h, r), r.err # "exe"
  PROVE  /\ h.exe # "none"
         /\ Says(r.msgs, "restart_shell") => h.env = "current" /\ (Hooked(h) \/ h.fish_conf = "current")
         /\ Says(r.msgs, "restart_terminal") => registry_contains(h.registry.path)
         /\ ~r.world.on_path /\ ~Says(r.msgs, "manual") /\ ~Says(r.msgs, "restart_shell") /\ ~Says(r.msgs, "restart_terminal") => h.github
         /\ r.err = "stuck" <=> \E kind \in StuckKinds : Says(r.msgs, kind)
         /\ Len(r.plan.actions) <= 12 /\ Len(r.msgs) <= 12
<1>1. /\ PlanOf(h, r.world, r.facts, r.plan) /\ FactsKept(h, r.facts) /\ StuckOf(r.plan, r.at, r.stuck)
      /\ r.at > 1 => h.exe # "none"
      /\ \A i \in 1 .. r.at - 1 : i \in ToSet(r.stuck) \/ Effect(h, r.plan.actions[i])
  BY Zenon DEF Going
<1>2. r.at = Len(r.plan.actions) + 1 /\ r.err = (IF r.stuck # <<>> THEN "stuck" ELSE "ok") /\ r.msgs = spn_install_report(h.os, r.facts, r.plan, r.stuck)
  BY Zenon DEF Reported
<1> DEFINE p == r.plan
           L == Len(p.actions)
<1>3. p \in PlanSet /\ L \in Nat /\ DOMAIN p.actions = 1 .. L /\ L <= 10 /\ p.state \in {"ok", "manual", "ci", "updated"}
  BY <1>1 DEF PlanOf, PlanSet
<1>4. r.at - 1 = L
  BY <1>2, <1>3
<1>5. \A i \in DOMAIN p.actions : i \in ToSet(r.stuck) \/ Effect(h, p.actions[i])
  BY <1>1, <1>3, <1>4
<1>6. r.stuck \in Seq(Nat) /\ Len(r.stuck) \in Nat /\ Len(r.stuck) <= L
      /\ \A k \in DOMAIN r.stuck : r.stuck[k] \in DOMAIN p.actions /\ p.actions[r.stuck[k]] # ExeAction
  BY <1>1, <1>2, <1>3, <1>4 DEF StuckOf
<1>7. h.exe # "none"
  <2>1. CASE L > 0
    BY <1>1, <1>2, <1>3, <2>1
  <2>2. CASE ~(L > 0)
    <3>1. r.facts.own
      <4>1. r.facts.own \/ L >= 1
        BY <1>1, Zenon DEF PlanOf
      <4>2. ~(L >= 1)
        BY <1>3, <2>2
      <4> QED
        BY <4>1, <4>2, Zenon
    <3> QED
      BY <1>1, <3>1, Zenon DEF FactsKept
  <2> QED
    BY <2>1, <2>2
<1>8. p.state = "ok" => r.world.on_path
  BY <1>1, Zenon DEF PlanOf
<1> DEFINE broken == path_broken(p, r.stuck)
<1> HIDE DEF p, L, broken
<1>9. /\ Len(r.msgs) \in Nat /\ Len(r.msgs) <= Len(r.stuck) + 2
      /\ (\E kind \in StuckKinds : Says(r.msgs, kind)) <=> r.stuck # <<>>
      /\ Says(r.msgs, "manual") <=> p.state = "manual" \/ (p.state \in {"ci", "updated"} /\ broken)
      /\ Says(r.msgs, "restart_shell") <=> p.state = "updated" /\ ~broken /\ h.os = "unix"
      /\ Says(r.msgs, "restart_terminal") <=> p.state = "updated" /\ ~broken /\ h.os # "unix"
  <2>1. r.msgs = spn_install_report(h.os, r.facts, p, r.stuck)
    BY <1>2 DEF p
  <2> QED
    BY <1>3, <1>6, <2>1, ReportFacts, Zenon DEF broken
<1>10. ASSUME ~broken
       PROVE  /\ p.state = "updated" /\ h.os = "unix" => h.env = "current" /\ (Hooked(h) \/ h.fish_conf = "current")
              /\ p.state = "updated" /\ h.os # "unix" => registry_contains(h.registry.path)
              /\ p.state = "ci" => h.github
  <2>1. PlanOf(h, r.world, r.facts, p)
    BY <1>1 DEF p
  <2> QED
    BY <1>1, <1>5, <1>10, <2>1, PathWhole, Zenon DEF broken
<1>11. ~r.world.on_path /\ ~Says(r.msgs, "manual") /\ ~Says(r.msgs, "restart_shell") /\ ~Says(r.msgs, "restart_terminal") => h.github
  BY <1>3, <1>8, <1>9, <1>10, Zenon
<1>12. r.err = "stuck" <=> r.stuck # <<>>
  BY <1>2
<1>13. L <= 12 /\ Len(r.msgs) <= 12
  BY <1>3, <1>6, <1>9
<1> QED
  BY <1>7, <1>9, <1>10, <1>11, <1>12, <1>13, Zenon DEF p, L

LEMMA SoundSteps ==
  /\ InstallInit => IInv
  /\ IInv /\ [InstallNext]_installVars => IInv'
  /\ IInv => InstallSound
<1>1. ASSUME InstallInit PROVE IInv
  <2>1. home \in Homes /\ install = Idle(0)
    BY <1>1 DEF InstallInit
  <2>2. HomeOf(home) /\ HomeSound(home)
    BY <2>1, HomesAssumption DEF HomesAssumption, HomeOf
  <2> QED
    BY <2>1, <2>2, Rests DEF IInv, HomeInv, RunInv
<1>2. ASSUME IInv, [InstallNext]_installVars PROVE IInv'
  <2>1. CASE Probe
    BY <1>2, <2>1, ProbeStep
  <2>2. CASE Prompt
    BY <1>2, <2>2, PromptStep
  <2>3. CASE Proceed \/ Decline
    BY <1>2, <2>3, AnswerStep
  <2>4. CASE Cancel \/ Killed \/ Again
    BY <1>2, <2>4, EndStep
  <2>5. CASE Execute
    BY <1>2, <2>5, ExecuteStep
  <2>6. CASE Report
    BY <1>2, <2>6, ReportStep
  <2>7. CASE UNCHANGED installVars
    <3>1. home' = home /\ install' = install
      BY <2>7 DEF installVars
    <3> QED
      BY <1>2, <3>1, Zenon DEF IInv, HomeInv, RunInv
  <2> QED
    BY <1>2, <2>1, <2>2, <2>3, <2>4, <2>5, <2>6, <2>7 DEF InstallNext
<1>3. ASSUME IInv PROVE InstallSound
  <2> DEFINE r == install
  <2>1. HomeOf(home) /\ HomeSound(home)
    BY <1>3 DEF IInv, HomeInv
  <2>2. ASSUME r.stage = "done" PROVE Going(home, r) /\ Reported(home, r)
    BY <1>3, <2>2 DEF IInv, RunInv, RunOf
  <2>3. \A kind : Told(kind) <=> Says(r.msgs, kind)
    BY DEF Told, Says
  <2>4. <<"restart_shell", "env">> \in ToSet(r.msgs) => Says(r.msgs, "restart_shell")
    BY DEF ToSet, Says
  <2>5. (\E kind \in StuckKinds : Says(r.msgs, kind)) <=> Told("stuck_write") \/ Told("stuck_append") \/ Told("stuck_registry")
    BY <2>3 DEF StuckKinds
  <2>6. ASSUME r.stage = "done", r.err = "exe"
        PROVE  r.msgs = <<>> /\ Len(r.msgs) = 0 /\ (\A kind : ~Told(kind)) /\ Len(r.plan.actions) <= 12
    <3>1. r.msgs = <<>> /\ PlanOf(home, r.world, r.facts, r.plan)
      BY <2>2, <2>6, Zenon DEF Reported, Going
    <3>2. Len(r.plan.actions) \in Nat /\ Len(r.plan.actions) <= 10
      BY <3>1 DEF PlanOf, PlanSet
    <3>3. DOMAIN r.msgs = {} /\ Len(r.msgs) = 0
      BY <3>1
    <3> QED
      BY <2>3, <3>1, <3>2, <3>3 DEF Says
  <2>7. ASSUME r.stage = "done", r.err # "exe"
        PROVE  /\ home.exe # "none"
               /\ Told("restart_shell") => home.env = "current" /\ (Hooked(home) \/ home.fish_conf = "current")
               /\ Told("restart_terminal") => registry_contains(home.registry.path)
               /\ ~r.world.on_path /\ ~Told("manual") /\ ~Told("restart_shell") /\ ~Told("restart_terminal") => home.github
               /\ r.err = "stuck" <=> \E kind \in StuckKinds : Says(r.msgs, kind)
               /\ Len(r.plan.actions) <= 12 /\ Len(r.msgs) <= 12
    BY <2>1, <2>2, <2>3, <2>7, DoneTells, Zenon
  <2>8. Told("restart_shell") <=> Says(r.msgs, "restart_shell")
    BY <2>3
  <2> HIDE DEF r
  <2>9. install = r
    BY DEF r
  <2>10. ASSUME r.stage = "done"
         PROVE  /\ r.err # "exe" => home.exe # "none"
                /\ Told("restart_shell") => (home.env = "current" /\ Hooked(home)) \/ home.fish_conf = "current"
                /\ <<"restart_shell", "env">> \in ToSet(r.msgs) => home.env = "current"
                /\ Told("restart_terminal") => registry_contains(home.registry.path)
                /\ r.err # "exe" /\ ~r.world.on_path /\ ~Told("manual") /\ ~Told("restart_shell") /\ ~Told("restart_terminal") => home.github
                /\ r.err = "stuck" <=> Told("stuck_write") \/ Told("stuck_append") \/ Told("stuck_registry")
                /\ Len(r.plan.actions) <= 12 /\ Len(r.msgs) <= 12
    <3>1. CASE r.err = "exe"
      <4>1. r.err # "stuck" /\ 0 <= 12
        BY <3>1
      <4> QED
        BY <2>4, <2>6, <2>8, <2>10, <3>1, <4>1, Zenon
    <3>2. CASE r.err # "exe"
      BY <2>4, <2>5, <2>7, <2>8, <2>10, <3>2, Zenon
    <3> QED
      BY <3>1, <3>2
  <2> QED
    BY <2>1, <2>9, <2>10, Zenon DEF InstallSound
<1> QED
  BY <1>1, <1>2, <1>3

(* Whatever the home directory holds at first, over any number of runs,    *)
(* stuck steps, kills, changes of mind, links and files that cannot be     *)
(* read: no file sources the env file twice, unless a run appended to it   *)
(* that could not see the line (probe_facts, custom_file); no hook is there*)
(* without the program it leads to, the user's PATH keeps its entries and  *)
(* its type, and what the report says of the hooks and of the env file is  *)
(* true (plan.c, install.c, self.c).                                       *)
THEOREM InstallSoundHolds == InstallSpec => []InstallSound
<1>1. InstallInit => IInv
  BY SoundSteps
<1>2. IInv /\ [InstallNext]_installVars => IInv'
  BY SoundSteps
<1>3. IInv => InstallSound
  BY SoundSteps
<1> QED
  BY <1>1, <1>2, <1>3, PTL DEF InstallSpec

-----------------------------------------------------------------------------
(* Toolchains.  The invariant, Sound, says stage by stage what has been    *)
(* settled; each of its parts rests on lemmas about the operator that      *)
(* settles it: the link table, the catalog, selection, the query and the   *)
(* layers of a profile.                                                    *)

(* Nothing that is there is the unset value.                               *)
LEMMA UnsetIsNot ==
  /\ \A x \in {"static", "shared", "debug", "release", "auto"} : x # Unset
  /\ \A x \in Oses \cup Arches \cup Abis : x # Unset
BY Zenon DEF Unset, Oses, Arches, Abis

LEMMA MinIn ==
  ASSUME NEW S \in SUBSET Nat, S # {}
  PROVE  Min(S) \in S /\ \A y \in S : Min(S) <= y
<1> DEFINE R == {ss \in Nat \X Nat : ss[1] < ss[2]}
<1>1. IsWellFoundedOn(R, Nat)
  BY NatLessThanWellFounded DEF OpToRel
<1> HIDE DEF R
<1>2. PICK x \in S : \A y \in S : ~(<<y, x>> \in R)
  BY <1>1, WFMin
<1>3. \A y \in S : ~(y < x)
  BY <1>2 DEF R
<1>4. \A y \in S : x <= y
  BY <1>3
<1> QED
  BY <1>4 DEF Min

LEMMA MaxIn ==
  ASSUME NEW N \in Nat, NEW S \in SUBSET (1 .. N), S # {}
  PROVE  Max(S) \in S
<1> DEFINE D == {N - y : y \in S}
<1>1. D \in SUBSET Nat /\ D # {}
  <2>1. \A y \in S : N - y \in Nat
    OBVIOUS
  <2> QED
    BY <2>1
<1>2. Min(D) \in D /\ \A d \in D : Min(D) <= d
  BY <1>1, MinIn
<1>3. PICK x \in S : Min(D) = N - x
  BY <1>2
<1>4. ASSUME NEW y \in S PROVE x >= y
  <2>1. N - y \in D /\ x \in Int /\ y \in Int
    OBVIOUS
  <2>2. N - x <= N - y
    BY <1>2, <1>3, <2>1
  <2> QED
    BY <2>1, <2>2
<1> QED
  BY <1>4 DEF Max

-----------------------------------------------------------------------------
(* The link table.                                                         *)

LinkRows == [runtime : {"static", "shared"}, libc : {"static", "shared"}]

(* The real systems and libcs, one by one.                                 *)
LEMMA RealCases ==
  ASSUME NEW t, Real(t)
  PROVE  \/ t.os = "linux" /\ t.abi \in {"gnu", "musl", "bare"}
         \/ t.os = "windows" /\ t.abi \in {"gnu", "msvc"}
         \/ t.os = "macos" /\ t.abi = "apple"
         \/ t.os = "wasi" /\ t.abi = "musl"
         \/ t.os = "freestanding" /\ t.abi \in {"bare", "elf"}
BY DEF Real, Oses, os_abis, ToSet

LEMMA TableIs ==
  ASSUME NEW t, Real(t)
  PROVE  /\ LinkTable(t) \in Seq(LinkRows)
         /\ DOMAIN LinkTable(t) \subseteq Nat
<1>1. Link("static", "static") \in LinkRows /\ Link("static", "shared") \in LinkRows /\ Link("shared", "shared") \in LinkRows
  BY DEF Link, LinkRows
<1>2. LinkTable(t) \in Seq(LinkRows)
  BY <1>1, RealCases DEF LinkTable
<1> QED
  BY <1>2

LEMMA LoaderIs ==
  ASSUME NEW t, NEW k, NEW l, k.libc = l.libc
  PROVE  spn_ld_loader(t, k) = spn_ld_loader(t, l)
BY DEF spn_ld_loader

(* What a way to link promises of the request it was asked for.            *)
Meets(t, k, r) ==
  /\ r.runtime # Unset => k.runtime = r.runtime
  /\ r.libc # Unset => k.libc = r.libc
  /\ k.linkage = "shared" => spn_ld_loader(t, k)
Requests == [linkage : Runtimes, runtime : Runtimes, libc : Runtimes]

LEMMA LinkingIs ==
  ASSUME NEW t, NEW r \in Requests, Real(t)
  PROVE  LET k == spn_ld_linking(t, r)
         IN  /\ links(t, r) => k.refusal = "none" /\ Meets(t, k, r)
             /\ ~links(t, r) => k.refusal # "none"
<1> DEFINE k == spn_ld_linking(t, r)
<1>1. CASE links(t, r)
  <2> DEFINE i == Min(serving(t, r))
             row == LinkTable(t)[i]
  <2>1. serving(t, r) \in SUBSET Nat /\ serving(t, r) # {}
    BY <1>1, TableIs DEF serving, links
  <2>2. i \in serving(t, r)
    BY <2>1, MinIn
  <2>3. Fits(t, row, r) /\ row \in LinkRows
    BY <2>2, TableIs DEF serving
  <2>4. k = [refusal |-> "none", runtime |-> row.runtime, libc |-> row.libc, linkage |-> Or(r.linkage, IF spn_ld_loader(t, row) THEN "shared" ELSE "static")]
    BY <1>1 DEF spn_ld_linking
  <2> HIDE DEF row, k
  <2>5. k.refusal = "none" /\ k.runtime = row.runtime /\ k.libc = row.libc /\ k.linkage = Or(r.linkage, IF spn_ld_loader(t, row) THEN "shared" ELSE "static")
    BY <2>4
  <2>6. spn_ld_loader(t, k) = spn_ld_loader(t, row)
    BY <2>5, LoaderIs
  <2>7. k.linkage = "shared" => spn_ld_loader(t, k)
    BY <2>3, <2>5, <2>6 DEF Fits, Or
  <2>8. (r.runtime # Unset => k.runtime = r.runtime) /\ (r.libc # Unset => k.libc = r.libc)
    BY <2>3, <2>5 DEF Fits
  <2> QED
    BY <1>1, <2>5, <2>7, <2>8 DEF Meets, k
<1>2. CASE ~links(t, r)
  BY <1>2 DEF spn_ld_linking
<1> QED
  BY <1>1, <1>2

(* A reason to refuse that is true: the part of ProfileSound about them.   *)
Reason(t, refusal, r) ==
  LET none(rs) == ~\E k \in DOMAIN LinkTable(t) : rs \subseteq {LinkTable(t)[k].runtime}
  IN  CASE refusal = "no_loader" -> ~spn_triple_dynamic(t)
        [] refusal = "os_libc" -> r.libc = "static"
        [] refusal = "os_runtime" -> r.runtime = "static" /\ none({"static"})
        [] refusal = "shared_runtime" -> r.libc = "static" /\ r.runtime = "shared"
        [] refusal = "hybrid_crt" -> {r.libc, r.runtime} = {"static", "shared"}
        [] refusal = "shared_deps" -> r.libc = "static" /\ r.linkage = "shared"

(* Links, written out.                                                     *)
LEMMA LinksIs ==
  ASSUME NEW t, NEW r \in Requests, Real(t)
  PROVE  links(t, r) <=> \E i \in DOMAIN LinkTable(t) : Fits(t, LinkTable(t)[i], r)
BY DEF links, serving

LEMMA DynamicLoads ==
  ASSUME NEW t, Real(t), spn_triple_dynamic(t)
  PROVE  links(t, Request("shared", Unset, Unset))
<1> DEFINE r == Request("shared", Unset, Unset)
<1>1. \E i \in DOMAIN LinkTable(t) : LinkTable(t)[i].libc = "shared" \/ spn_os_to_native_object_format(t.os) # "elf"
  BY RealCases DEF LinkTable, Link, spn_triple_dynamic, spn_os_to_native_object_format
<1> QED
  BY <1>1 DEF links, serving, Fits, Request, spn_ld_loader

(* The first three reasons are read off the table; for the others:         *)
LEMMA LastReason ==
  ASSUME NEW t, NEW r \in Requests, Real(t), ~links(t, r), links(t, Request("shared", Unset, Unset)),
         r.libc = "static" => links(t, Request(Unset, Unset, "static")),
         r.runtime = "static" => links(t, Request(Unset, "static", Unset)),
         ~(r.libc = "static" /\ r.runtime = "shared"),
         ~(r.runtime # Unset /\ r.libc # Unset /\ r.runtime # r.libc)
  PROVE  r.libc = "static" /\ r.linkage = "shared"
<1>1. r.linkage \in Runtimes /\ r.runtime \in Runtimes /\ r.libc \in Runtimes
  BY DEF Requests
<1>2. \A i \in DOMAIN LinkTable(t) : ~Fits(t, LinkTable(t)[i], r)
  BY LinksIs
<1>3. r.libc = "static" => \E i \in DOMAIN LinkTable(t) : LinkTable(t)[i].libc = "static"
  BY UnsetIsNot DEF links, serving, Fits, Request
<1>4. r.runtime = "static" => \E i \in DOMAIN LinkTable(t) : LinkTable(t)[i].runtime = "static"
  BY UnsetIsNot DEF links, serving, Fits, Request
<1>5. spn_triple_dynamic(t)
  BY DEF links, serving, Fits, Request, spn_ld_loader
<1>6. CASE t.os = "linux" /\ t.abi = "gnu"
  BY <1>1, <1>2, <1>3, <1>4, <1>5, <1>6 DEF LinkTable, Link, Fits, Runtimes, spn_ld_loader, spn_os_to_native_object_format
<1>7. CASE t.os = "linux" /\ t.abi = "musl"
  BY <1>1, <1>2, <1>3, <1>4, <1>5, <1>7 DEF LinkTable, Link, Fits, Runtimes, spn_ld_loader, spn_os_to_native_object_format
<1>8. CASE t.os = "windows" /\ t.abi = "gnu"
  BY <1>1, <1>2, <1>3, <1>4, <1>5, <1>8 DEF LinkTable, Link, Fits, Runtimes, spn_ld_loader, spn_os_to_native_object_format
<1>9. CASE t.os = "windows" /\ t.abi = "msvc"
  BY <1>1, <1>2, <1>3, <1>4, <1>5, <1>9 DEF LinkTable, Link, Fits, Runtimes, spn_ld_loader, spn_os_to_native_object_format
<1>10. CASE t.os = "macos"
  BY <1>1, <1>2, <1>3, <1>4, <1>5, <1>10 DEF LinkTable, Link, Fits, Runtimes, spn_ld_loader, spn_os_to_native_object_format
<1> QED
  BY <1>5, <1>6, <1>7, <1>8, <1>9, <1>10, RealCases DEF spn_triple_dynamic

LEMMA ReasonTrue ==
  ASSUME NEW t, NEW r \in Requests, Real(t), ~links(t, r)
  PROVE  Reason(t, spn_ld_linking(t, r).refusal, r)
<1> DEFINE shared == links(t, Request("shared", Unset, Unset))
           osLibc == r.libc = "static" /\ ~links(t, Request(Unset, Unset, "static"))
           osRuntime == r.runtime = "static" /\ ~links(t, Request(Unset, "static", Unset))
           crt == r.libc = "static" /\ r.runtime = "shared"
           hybrid == r.runtime # Unset /\ r.libc # Unset /\ r.runtime # r.libc
           k == spn_ld_linking(t, r)
<1>1. CASE ~shared
  <2>1. k.refusal = "no_loader"
    BY <1>1 DEF spn_ld_linking
  <2> QED
    BY <1>1, <2>1, DynamicLoads DEF Reason
<1>2. CASE shared /\ osLibc
  <2>1. k.refusal = "os_libc"
    BY <1>2 DEF spn_ld_linking
  <2> QED
    BY <1>2, <2>1 DEF Reason
<1>3. CASE shared /\ ~osLibc /\ osRuntime
  <2>1. k.refusal = "os_runtime"
    BY <1>3 DEF spn_ld_linking
  <2>2. \A i \in DOMAIN LinkTable(t) : LinkTable(t)[i].runtime # "static"
    <3>1. \A i \in DOMAIN LinkTable(t) : ~Fits(t, LinkTable(t)[i], Request(Unset, "static", Unset))
      BY <1>3 DEF links, serving
    <3> QED
      BY <3>1, UnsetIsNot DEF Fits, Request
  <2> QED
    BY <1>3, <2>1, <2>2 DEF Reason
<1>4. CASE shared /\ ~osLibc /\ ~osRuntime /\ crt
  <2>1. k.refusal = "shared_runtime"
    BY <1>4 DEF spn_ld_linking
  <2> QED
    BY <1>4, <2>1 DEF Reason
<1>5. CASE shared /\ ~osLibc /\ ~osRuntime /\ ~crt /\ hybrid
  <2>1. k.refusal = "hybrid_crt"
    BY <1>5 DEF spn_ld_linking
  <2>2. {r.libc, r.runtime} = {"static", "shared"}
    BY <1>5 DEF Requests, Runtimes
  <2> QED
    BY <2>1, <2>2 DEF Reason
<1>6. CASE shared /\ ~osLibc /\ ~osRuntime /\ ~crt /\ ~hybrid
  <2>1. k.refusal = "shared_deps"
    BY <1>6 DEF spn_ld_linking
  <2>2. r.libc = "static" /\ r.linkage = "shared"
    BY <1>6, LastReason
  <2> QED
    BY <2>1, <2>2 DEF Reason
<1> QED
  BY <1>1, <1>2, <1>3, <1>4, <1>5, <1>6

-----------------------------------------------------------------------------
(* The catalog.                                                            *)

(* What a row promises: its driver links it, with the kit it needs.        *)
RowOK(driver, row) ==
  /\ spn_toolchain_driver_composes(driver, spn_ld_dialect(row.triple))
  /\ spn_sdk_kind(row.triple) = "msvc" => row.sdk = "msvc"
Bound(driver, b) ==
  /\ \A row \in b.rows : RowOK(driver, row)
  /\ \A t \in b.unserved : spn_sdk_kind(t) = "msvc"

LEMMA FromHost ==
  ASSUME NEW sdks, NEW t, spn_sdk_kind(t) = "msvc", spn_sdk_from_host(sdks, t) # "none"
  PROVE  spn_sdk_from_host(sdks, t) = "msvc"
BY DEF spn_sdk_from_host

LEMMA TargetsBound ==
  ASSUME NEW sdks, NEW targets, NEW driver,
         \A i \in DOMAIN targets : spn_toolchain_driver_composes(driver, spn_ld_dialect(targets[i].triple))
  PROVE  Bound(driver, bind_target(sdks, targets))
<1> DEFINE bound == {i \in DOMAIN targets : targets[i].sdk \/ spn_sdk_default(sdks, targets[i].triple)}
           sdk(target) == IF target.sdk THEN spn_sdk_kind(target.triple) ELSE spn_sdk_from_host(sdks, target.triple)
           b == bind_target(sdks, targets)
<1>1. \A row \in b.rows : \E i \in bound : row = Row(targets[i].triple, sdk(targets[i]), targets[i].sanitizers)
  BY DEF bind_target, Bindings
<1>2. \A t \in b.unserved : \E i \in DOMAIN targets \ bound : t = targets[i].triple
  BY DEF bind_target, Bindings
<1>3. ASSUME NEW row \in b.rows PROVE RowOK(driver, row)
  <2>1. PICK i \in bound : row = Row(targets[i].triple, sdk(targets[i]), targets[i].sanitizers)
    BY <1>1
  <2>2. row.triple = targets[i].triple /\ row.sdk = sdk(targets[i])
    BY <2>1 DEF Row
  <2>3. ASSUME spn_sdk_kind(row.triple) = "msvc" PROVE row.sdk = "msvc"
    BY <2>2, <2>3, FromHost DEF spn_sdk_default
  <2> QED
    BY <2>2, <2>3 DEF RowOK
<1>4. ASSUME NEW t \in b.unserved PROVE spn_sdk_kind(t) = "msvc"
  BY <1>2 DEF spn_sdk_default
<1> QED
  BY <1>3, <1>4 DEF Bound

LEMMA StockBound ==
  ASSUME NEW listed, NEW sdks, NEW host, NEW driver
  PROVE  Bound(driver, push_stock(listed, sdks, host, driver))
<1> DEFINE own == [host EXCEPT !.abi = Or(@, spn_default_abi(driver, host.os))]
           stock == [triple |-> own, sdk |-> FALSE, sanitizers |-> spn_toolchain_stock_sanitizers(driver, own)]
           declared == has_row(listed.rows, own) \/ own \in listed.unserved
           skip == own.abi = Unset \/ ~spn_toolchain_driver_composes(driver, spn_ld_dialect(own)) \/ declared
<1>1. push_stock(listed, sdks, host, driver) = IF skip THEN Bindings({}, {}) ELSE bind_target(sdks, <<stock>>)
  BY DEF push_stock
<1> HIDE DEF own
<1>2. CASE skip
  BY <1>1, <1>2 DEF Bindings, Bound
<1>3. CASE ~skip
  <2>1. \A i \in DOMAIN <<stock>> : <<stock>>[i].triple = own
    OBVIOUS
  <2>2. spn_toolchain_driver_composes(driver, spn_ld_dialect(own))
    BY <1>3
  <2>3. Bound(driver, bind_target(sdks, <<stock>>))
    BY <2>1, <2>2, TargetsBound
  <2> QED
    BY <1>1, <1>3, <2>3
<1> QED
  BY <1>2, <1>3

LEMMA BareRows ==
  ASSUME NEW host, NEW driver \in Drivers, NEW row \in push_bare(host, driver)
  PROVE  RowOK(driver, row)
<1>1. driver \in {"gcc", "zig"}
  BY DEF push_bare, spn_toolchain_driver_caps, Drivers
<1>2. PICK os \in {"freestanding", "linux"} : row = Row(Triple(host.arch, os, "bare"), "none", {})
  BY DEF push_bare
<1>3. row.triple.os = os /\ row.triple.abi = "bare" /\ row.triple = Triple(host.arch, os, "bare")
  BY <1>2 DEF Row, Triple
<1>4. spn_ld_dialect(row.triple) = "gnu" /\ spn_sdk_kind(row.triple) = "none"
  BY <1>3 DEF spn_ld_dialect, spn_sdk_kind
<1> QED
  BY <1>1, <1>4 DEF RowOK, spn_toolchain_driver_composes

LEMMA HostedRows ==
  ASSUME NEW sdks, NEW host, NEW driver \in Drivers, NEW row \in push_hosted(sdks, host, driver)
  PROVE  RowOK(driver, row)
<1>1. PICK t \in Hosted :
        /\ spn_toolchain_driver_retargets(driver) /\ spn_sdk_served(sdks, host, t)
        /\ row = Row(t, spn_sdk_from_host(sdks, t), IF t.os = host.os THEN spn_toolchain_stock_sanitizers(driver, t) ELSE {})
  BY DEF push_hosted
<1>2. row.triple = t /\ row.sdk = spn_sdk_from_host(sdks, t)
  BY <1>1 DEF Row
<1>3. driver \in {"clang", "zig"}
  BY <1>1 DEF spn_toolchain_driver_retargets, spn_toolchain_driver_caps, Drivers
<1>4. spn_sdk_kind(t) = "msvc" => spn_sdk_from_host(sdks, t) = "msvc"
  BY <1>1, FromHost DEF spn_sdk_served
<1> QED
  BY <1>2, <1>3, <1>4 DEF RowOK, spn_toolchain_driver_composes

LEMMA RowsBound ==
  ASSUME NEW decl, NEW sdks, NEW host, decl.driver \in Drivers,
         \A i \in DOMAIN decl.targets : spn_toolchain_driver_composes(decl.driver, spn_ld_dialect(decl.targets[i].triple))
  PROVE  Bound(decl.driver, bind_rows(decl, sdks, host))
<1> DEFINE listed == bind_target(sdks, decl.targets)
           stock == push_stock(listed, sdks, host, decl.driver)
           bare == push_bare(host, decl.driver)
           hosted == push_hosted(sdks, host, decl.driver)
<1>1. bind_rows(decl, sdks, host) = IF ~decl.host_row THEN listed
        ELSE Bindings(push_row(<<listed.rows, stock.rows, bare, hosted>>), listed.unserved \cup stock.unserved)
  BY DEF bind_rows
<1>2. Bound(decl.driver, listed) /\ Bound(decl.driver, stock)
  BY TargetsBound, StockBound
<1>3. (\A row \in bare : RowOK(decl.driver, row)) /\ (\A row \in hosted : RowOK(decl.driver, row))
  BY BareRows, HostedRows
<1> HIDE DEF listed, stock, bare, hosted
<1>4. \A row \in push_row(<<listed.rows, stock.rows, bare, hosted>>) : row \in listed.rows \cup stock.rows \cup bare \cup hosted
  BY DEF push_row
<1>5. \A row \in push_row(<<listed.rows, stock.rows, bare, hosted>>) : RowOK(decl.driver, row)
  BY <1>2, <1>3, <1>4 DEF Bound
<1> QED
  BY <1>1, <1>2, <1>5 DEF Bound, Bindings

(* An entry of the catalog.                                                *)
InfoOK(info) ==
  /\ info.driver \in Drivers /\ info.lld \in BOOLEAN /\ info.place \in Nat /\ info.support # "none"
  /\ Bound(info.driver, info)

LEMMA DeclIs ==
  ASSUME NEW k \in DOMAIN Decls, DeclsAssumption
  PROVE  /\ Decls[k].driver \in Drivers /\ Decls[k].lld \in BOOLEAN /\ Decls[k].source \in {"local", "distribution", "detected"}
         /\ \A i \in DOMAIN Decls[k].targets :
              spn_toolchain_driver_composes(Decls[k].driver, spn_ld_dialect(Decls[k].targets[i].triple))
<1> DEFINE T == Seq([triple : [arch : Arches, os : Oses, abi : Abis], sdk : BOOLEAN, sanitizers : SUBSET STRING])
           H == SUBSET [arch : STRING, os : STRING, abi : STRING]
           D == [name : STRING, driver : Drivers, lld : BOOLEAN, source : {"local", "distribution", "detected"}, hosts : H, host_row : BOOLEAN, targets : T]
<1>1. Decls[k].driver \in Drivers /\ Decls[k].lld \in BOOLEAN /\ Decls[k].source \in {"local", "distribution", "detected"}
  <2>1. Decls \in Seq(D)
    BY DEF DeclsAssumption
  <2> HIDE DEF T, H
  <2>2. \A d \in D : d.driver \in Drivers /\ d.lld \in BOOLEAN /\ d.source \in {"local", "distribution", "detected"}
    OBVIOUS
  <2> HIDE DEF D
  <2>3. Decls[k] \in D
    BY <2>1
  <2> QED
    BY <2>2, <2>3
<1>2. \A j \in DOMAIN Decls : \A i \in DOMAIN Decls[j].targets :
        spn_toolchain_driver_composes(Decls[j].driver, spn_ld_dialect(Decls[j].targets[i].triple))
  BY DEF DeclsAssumption
<1> QED
  BY <1>1, <1>2

LEMMA CatalogOK ==
  ASSUME NEW sdks, NEW host, NEW info \in spn_toolchain_catalog_add(sdks, host), DeclsAssumption
  PROVE  InfoOK(info)
<1> DEFINE declares(n) == {i \in DOMAIN Decls : Decls[i].name = n}
<1>1. PICK n \in {Decls[i].name : i \in DOMAIN Decls} :
        info = bind_toolchain(Decls[Max(declares(n))], Min(declares(n)), sdks, host)
  BY DEF spn_toolchain_catalog_add
<1>2. Len(Decls) \in Nat /\ DOMAIN Decls = 1 .. Len(Decls)
  BY DEF DeclsAssumption
<1>3. declares(n) \in SUBSET (1 .. Len(Decls)) /\ declares(n) # {} /\ declares(n) \in SUBSET Nat
  BY <1>1, <1>2
<1>4. Max(declares(n)) \in DOMAIN Decls /\ Min(declares(n)) \in Nat
  BY <1>2, <1>3, MaxIn, MinIn
<1> DEFINE decl == Decls[Max(declares(n))]
<1>5. decl.driver \in Drivers /\ decl.lld \in BOOLEAN /\ decl.source \in {"local", "distribution", "detected"}
      /\ \A i \in DOMAIN decl.targets : spn_toolchain_driver_composes(decl.driver, spn_ld_dialect(decl.targets[i].triple))
  BY <1>4, DeclIs
<1> DEFINE place == Min(declares(n))
<1>6. place \in Nat /\ info = bind_toolchain(decl, place, sdks, host)
  BY <1>1, <1>4
<1> HIDE DEF decl, place
<1>7. Bound(decl.driver, bind_rows(decl, sdks, host))
  BY <1>5, RowsBound
<1>8. info.driver = decl.driver /\ info.lld = decl.lld /\ info.place = place
      /\ info.rows = bind_rows(decl, sdks, host).rows /\ info.unserved = bind_rows(decl, sdks, host).unserved
  BY <1>6 DEF bind_toolchain
<1>9. bind_support(decl, sdks, host) # "none"
  BY <1>5 DEF bind_support
<1>10. info.support # "none"
  BY <1>6, <1>9 DEF bind_toolchain
<1> QED
  BY <1>5, <1>6, <1>7, <1>8, <1>10 DEF InfoOK, Bound

-----------------------------------------------------------------------------
(* Selection.                                                              *)

Kinds == {"unserved", "unlisted", "dropped", "sanitizers", "ok"}
LEMMA RankIs ==
  ASSUME NEW a, a.kind \in Kinds
  PROVE  Rank(a) \in 1 .. 5
<1>1. DOMAIN Reaches = 1 .. 5
  BY DEF Reaches
<1>2. \E i \in 1 .. 5 : Reaches[i] = a.kind
  BY DEF Reaches, Kinds
<1> QED
  BY <1>1, <1>2 DEF Rank

(* Of any reaches there is one that is the closest.                        *)
LEMMA ClosestIs ==
  ASSUME NEW S, S # {}, \A a \in S : a.kind \in Kinds /\ a.place \in Nat
  PROVE  (CHOOSE a \in S : \A b \in S : closer(a, b)) \in S
<1> DEFINE ranks == {Rank(a) : a \in S}
           high == {a \in S : Rank(a) = Max(ranks)}
           places == {a.place : a \in high}
<1>1. \A a \in S : Rank(a) \in 1 .. 5
  BY RankIs
<1>2. ranks \in SUBSET (1 .. 5) /\ ranks # {}
  BY <1>1
<1>3. Max(ranks) \in ranks
  BY <1>2, MaxIn
<1>4. \A a \in S : Rank(a) <= Max(ranks)
  <2> DEFINE D == {5 - y : y \in ranks}
  <2>1. D \in SUBSET Nat /\ D # {}
    BY <1>2
  <2>2. Min(D) \in D /\ \A d \in D : Min(D) <= d
    BY <2>1, MinIn
  <2>3. PICK x \in ranks : Min(D) = 5 - x
    BY <2>2
  <2>4. \A y \in ranks : y <= x
    <3> TAKE y \in ranks
    <3>1. 5 - y \in D /\ 5 - x <= 5 - y
      BY <2>2, <2>3
    <3> QED
      BY <3>1, <1>2
  <2>5. \E x1 \in ranks : \A y \in ranks : x1 >= y
    BY <2>4, <1>2
  <2>6. \A y \in ranks : Max(ranks) >= y
    BY <2>5 DEF Max
  <2> QED
    BY <2>6, <1>1, <1>2, <1>3
<1>5. places \in SUBSET Nat /\ places # {}
  BY <1>3
<1>6. Min(places) \in places /\ \A p \in places : Min(places) <= p
  BY <1>5, MinIn
<1>7. PICK a \in high : a.place = Min(places)
  BY <1>6
<1>8. \A b \in S : closer(a, b)
  <2> TAKE b \in S
  <2>1. Rank(a) = Max(ranks) /\ Rank(b) <= Rank(a) /\ Rank(a) \in Nat /\ Rank(b) \in Nat
    BY <1>1, <1>4, <1>7
  <2>2. CASE Rank(b) = Rank(a)
    <3>1. b \in high
      BY <2>1, <2>2
    <3> QED
      BY <3>1, <1>6, <1>7, <2>2 DEF closer
  <2>3. CASE Rank(b) # Rank(a)
    BY <2>1, <2>3 DEF closer
  <2> QED
    BY <2>2, <2>3
<1>9. \E a1 \in S : \A b \in S : closer(a1, b)
  BY <1>7, <1>8
<1> QED
  BY <1>9

(* What an attempt that succeeds has found, and that one that fails says   *)
(* why.                                                                    *)
Heavy(query) == query.sanitizers \ {"undefined"}
Reached(info, query, c, a) ==
  /\ a.row \in info.rows /\ a.row.triple = c.triple /\ a.linking = c.linking
  /\ query.sanitizers \subseteq a.row.sanitizers
  /\ Heavy(query) # {} => spn_ld_loader(a.row.triple, a.linking)
ReachOK(info, query, c, a) ==
  /\ a.kind \in Kinds /\ a.place = c.place
  /\ a.kind = "ok" => Reached(info, query, c, a)
  /\ a.kind # "ok" => emit_reach(a) # "none"

LEMMA AttemptIs ==
  ASSUME NEW sdks, NEW host, NEW info, InfoOK(info), NEW query, NEW c
  PROVE  ReachOK(info, query, c, attempt(sdks, host, info, query, c))
<1> DEFINE a == attempt(sdks, host, info, query, c)
           row == CHOOSE row \in info.rows : row.triple = c.triple
<1>1. CASE has_row(info.rows, c.triple)
  <2>1. row \in info.rows /\ row.triple = c.triple
    BY <1>1 DEF has_row
  <2>2. a = supports(row, query, c)
    BY <1>1 DEF attempt
  <2> HIDE DEF a, row
  <2> DEFINE missing == query.sanitizers \ row.sanitizers
             static == Heavy(query) # {} /\ ~spn_ld_loader(row.triple, c.linking)
  <2>3. /\ a.kind = IF missing # {} \/ static THEN "sanitizers" ELSE "ok"
        /\ a.err = IF missing # {} THEN "sanitizer_unsupported" ELSE "sanitizer_static"
        /\ a.row = row /\ a.linking = c.linking /\ a.place = c.place
    BY <2>2 DEF supports, Heavy
  <2>4. CASE missing # {} \/ static
    <3>1. a.kind = "sanitizers" /\ a.err \in {"sanitizer_unsupported", "sanitizer_static"} /\ a.place = c.place
      BY <2>3, <2>4
    <3>2. emit_reach(a) = a.err
      BY <3>1 DEF emit_reach
    <3> QED
      BY <3>1, <3>2 DEF ReachOK, Kinds, a
  <2>5. CASE ~(missing # {} \/ static)
    <3>1. query.sanitizers \subseteq row.sanitizers
      BY <2>5
    <3>2. a.kind = "ok" /\ a.place = c.place /\ Reached(info, query, c, a)
      BY <2>1, <2>3, <2>5, <3>1 DEF Reached
    <3> QED
      BY <3>2 DEF ReachOK, Kinds, a
  <2> QED
    BY <2>4, <2>5
<1>2. CASE ~has_row(info.rows, c.triple)
  <2>1. a = [kind |-> absence(sdks, host, info, c.triple), err |-> "none", row |-> Row(c.triple, "none", {}), linking |-> c.linking, place |-> c.place]
    BY <1>2 DEF attempt
  <2> HIDE DEF a
  <2>2. a.kind = absence(sdks, host, info, c.triple) /\ a.place = c.place /\ a.row.triple = c.triple
    BY <2>1 DEF Row
  <2>3. CASE c.triple \in info.unserved
    <3>1. spn_sdk_kind(c.triple) = "msvc" /\ a.kind = "dropped"
      BY <2>2, <2>3 DEF InfoOK, Bound, absence
    <3> QED
      BY <2>2, <3>1 DEF ReachOK, a, Kinds, emit_reach, sdk_refusal
  <2>4. CASE c.triple \notin info.unserved /\ spn_toolchain_driver_retargets(info.driver) /\ ~spn_sdk_served(sdks, host, c.triple)
    <3>1. a.kind = "unserved"
      BY <2>2, <2>4 DEF absence
    <3>2. spn_sdk_kind(c.triple) \in {"macos", "msvc", "sysroot"}
      BY <2>4 DEF spn_sdk_served, spn_sdk_kind
    <3> QED
      BY <2>2, <3>1, <3>2 DEF ReachOK, a, Kinds, emit_reach, sdk_refusal
  <2>5. CASE c.triple \notin info.unserved /\ ~(spn_toolchain_driver_retargets(info.driver) /\ ~spn_sdk_served(sdks, host, c.triple))
    <3>1. a.kind = "unlisted"
      BY <2>2, <2>5 DEF absence
    <3> QED
      BY <2>2, <3>1 DEF ReachOK, a, Kinds, emit_reach
  <2> QED
    BY <2>3, <2>4, <2>5
<1> QED
  BY <1>1, <1>2

CandidatesOK(query) == query.candidates # {} /\ \A c \in query.candidates : Real(c.triple) /\ c.place \in Nat

LEMMA BestIs ==
  ASSUME NEW sdks, NEW host, NEW info, InfoOK(info), NEW query, CandidatesOK(query)
  PROVE  \E c \in query.candidates : reach_best(sdks, host, info, query) = attempt(sdks, host, info, query, c)
<1> DEFINE reaches == {attempt(sdks, host, info, query, c) : c \in query.candidates}
<1>1. reaches # {}
  BY DEF CandidatesOK
<1>2. \A a \in reaches : a.kind \in Kinds /\ a.place \in Nat
  BY AttemptIs DEF CandidatesOK, ReachOK
<1>3. reach_best(sdks, host, info, query) = CHOOSE a \in reaches : \A b \in reaches : closer(a, b)
  BY DEF reach_best
<1> HIDE DEF reaches
<1>4. reach_best(sdks, host, info, query) \in reaches
  BY <1>1, <1>2, <1>3, ClosestIs
<1> QED
  BY <1>4 DEF reaches

(* What is promised of a selection.                                        *)
SelectionOK(r, query) ==
  /\ r.info.driver \in Drivers /\ r.info.lld \in BOOLEAN /\ RowOK(r.info.driver, r.row)
  /\ \E c \in query.candidates : r.row.triple = c.triple /\ r.linking = c.linking
  /\ query.sanitizers \subseteq r.row.sanitizers
  /\ Heavy(query) # {} => spn_ld_loader(r.row.triple, r.linking)
  /\ query.ref \in {"auto", r.info.name}

LEMMA SelectedOK ==
  ASSUME NEW sdks, NEW host, NEW info, InfoOK(info), NEW query, CandidatesOK(query),
         query.ref \in {"auto", info.name}, reach_best(sdks, host, info, query).kind = "ok"
  PROVE  LET r == Selected(info, reach_best(sdks, host, info, query))
         IN  r.err = "none" /\ SelectionOK(r, query) /\ r.info.place \in Nat
<1> DEFINE reach == reach_best(sdks, host, info, query)
           r == Selected(info, reach)
<1>1. PICK c \in query.candidates : reach = attempt(sdks, host, info, query, c)
  BY BestIs
<1>2. Reached(info, query, c, reach)
  BY <1>1, AttemptIs DEF ReachOK
<1> HIDE DEF reach
<1>3. r.err = "none" /\ r.info.name = info.name /\ r.info.driver = info.driver /\ r.info.lld = info.lld /\ r.info.place = info.place
      /\ r.row = reach.row /\ r.linking = reach.linking
  BY DEF Selected
<1> HIDE DEF r
<1>4. RowOK(info.driver, reach.row)
  BY <1>2 DEF Reached, InfoOK, Bound
<1>5. SelectionOK(r, query)
  BY <1>1, <1>2, <1>3, <1>4 DEF SelectionOK, Reached, InfoOK
<1> QED
  BY <1>3, <1>5 DEF r, reach, InfoOK

LEMMA SelectOK ==
  ASSUME NEW sdks, NEW host, NEW query, CandidatesOK(query), DeclsAssumption,
         spn_toolchain_select(sdks, host, query).err = "none"
  PROVE  SelectionOK(spn_toolchain_select(sdks, host, query), query)
<1> DEFINE catalog == spn_toolchain_catalog_add(sdks, host)
           best(info) == reach_best(sdks, host, info, query)
<1>1. \A info \in catalog : InfoOK(info)
  BY CatalogOK
<1>2. CASE query.ref = "auto"
  <2> DEFINE able == {info \in catalog : satisfies(sdks, host, info, query)}
             ok == {Selected(info, best(info)) : info \in able}
             r == CHOOSE a \in ok : \A b \in ok : a.info.place <= b.info.place
  <2>1. select_auto(sdks, host, query) = IF ok = {} THEN Refused("none_found") ELSE r
    BY DEF select_auto
  <2>2. \A a \in ok : SelectionOK(a, query) /\ a.info.place \in Nat
    <3> TAKE a \in ok
    <3>1. PICK info \in able : a = Selected(info, best(info))
      OBVIOUS
    <3>2. InfoOK(info) /\ best(info).kind = "ok"
      BY <1>1 DEF satisfies
    <3> QED
      BY <1>2, <3>1, <3>2, SelectedOK
  <2>3. spn_toolchain_select(sdks, host, query) = select_auto(sdks, host, query)
    BY <1>2 DEF spn_toolchain_select
  <2> HIDE DEF ok
  <2>4. ok # {}
    BY <2>1, <2>3 DEF Refused
  <2> DEFINE places == {a.info.place : a \in ok}
  <2>5. places \in SUBSET Nat /\ places # {}
    BY <2>2, <2>4
  <2>6. Min(places) \in places /\ \A p \in places : Min(places) <= p
    BY <2>5, MinIn
  <2>7. \E a \in ok : \A b \in ok : a.info.place <= b.info.place
    BY <2>6
  <2>8. r \in ok
    BY <2>7
  <2> QED
    BY <2>1, <2>2, <2>3, <2>4, <2>8
<1>3. CASE query.ref # "auto"
  <2> DEFINE reached(info, reach) == IF reach.kind = "ok" THEN Selected(info, reach) ELSE Refused(emit_reach(reach))
             answer(info) == IF usable(info) THEN reached(info, best(info)) ELSE Refused(info.support)
             named == {info \in catalog : info.name = query.ref}
             answers == {answer(info) : info \in named}
             r == CHOOSE a \in answers : TRUE
  <2>1. spn_toolchain_select(sdks, host, query) = IF answers = {} THEN Refused("unknown") ELSE r
    BY <1>3 DEF spn_toolchain_select, select_named
  <2>2. \A a \in answers : a.err = "none" => SelectionOK(a, query)
    <3> SUFFICES ASSUME NEW info \in named, answer(info).err = "none" PROVE SelectionOK(answer(info), query)
      OBVIOUS
    <3>1. InfoOK(info) /\ query.ref = info.name
      BY <1>1
    <3>2. CASE ~usable(info)
      BY <3>1, <3>2 DEF Refused, InfoOK
    <3>3. CASE usable(info) /\ best(info).kind # "ok"
      <4>1. PICK c \in query.candidates : best(info) = attempt(sdks, host, info, query, c)
        BY <3>1, BestIs
      <4>2. emit_reach(best(info)) # "none"
        BY <3>1, <3>3, <4>1, AttemptIs DEF ReachOK
      <4>3. answer(info) = Refused(emit_reach(best(info)))
        BY <3>3
      <4> QED
        BY <4>2, <4>3 DEF Refused
    <3>4. CASE usable(info) /\ best(info).kind = "ok"
      <4>1. answer(info) = Selected(info, best(info))
        BY <3>4
      <4> QED
        BY <3>1, <3>4, <4>1, SelectedOK
    <3> QED
      BY <3>2, <3>3, <3>4
  <2> HIDE DEF answers
  <2>3. answers # {}
    BY <2>1 DEF Refused
  <2>4. r \in answers
    BY <2>3
  <2> QED
    BY <2>1, <2>2, <2>3, <2>4
<1> QED
  BY <1>2, <1>3

-----------------------------------------------------------------------------
(* The query of a profile.                                                 *)

Wanted(p) == Request(p.linkage, p.runtime, p.libc)
ProfileOK(p, host) ==
  /\ p.os \in Oses /\ p.arch \in ToSet(spn_os_archs(p.os)) /\ p.abi \in ToSet(os_abis(p.os)) \cup {Unset}
  /\ p.abi = Unset /\ p.os = "linux" => host.abi \in ToSet(os_abis(p.os))
  /\ Wanted(p) \in Requests

(* What a candidate keeps of the profile.                                  *)
Kept(c, p) ==
  /\ c.triple = Triple(p.arch, p.os, c.triple.abi)
  /\ p.abi # Unset => c.triple.abi = p.abi
  /\ Meets(c.triple, c.linking, Wanted(p))
QueryOK(query, p) ==
  /\ CandidatesOK(query) /\ query.ref = p.ref /\ query.sanitizers = p.sanitizers
  /\ \A c \in query.candidates : Kept(c, p)

(* What a query is: candidates, or a reason to refuse each libc.           *)
Answers(query, p) ==
  /\ query.err = "none" => QueryOK(query, p)
  /\ query.err # "none" => \A c \in query.refusals : Reason(c.triple, c.linking.refusal, p)

LEMMA CompletionsReal ==
  ASSUME NEW os \in Oses
  PROVE  /\ ToSet(spn_os_completions(os)) \subseteq ToSet(os_abis(os))
         /\ DOMAIN spn_os_completions(os) \subseteq Nat
BY DEF Oses, spn_os_completions, os_abis, ToSet

LEMMA MeetsLess ==
  ASSUME NEW t, NEW k, NEW r, NEW q, q.runtime = r.runtime, q.libc = r.libc, Meets(t, k, q)
  PROVE  Meets(t, k, r)
BY DEF Meets

LEMMA QueryIs ==
  ASSUME NEW s, ProfileOK(s.profile, s.host)
  PROVE  Answers(spn_profile_query(s), s.profile)
<1> DEFINE p == s.profile
           completions == spn_os_completions(p.os)
           own == IF p.os = "linux" THEN {s.host.abi} ELSE {}
           abis == IF p.abi # Unset THEN {p.abi} ELSE own \cup ToSet(completions)
           turn(a) == IF a \in own \/ a = p.abi THEN 0 ELSE Min({i \in DOMAIN completions : completions[i] = a})
           request == Request(p.linkage, p.runtime, p.libc)
           demanded == [request EXCEPT !.linkage = Or(@, IF s.demand THEN "shared" ELSE Unset)]
           asked(t) == IF links(t, demanded) THEN demanded ELSE request
           each == {[triple |-> t, linking |-> spn_ld_linking(t, asked(t))] : t \in {Triple(p.arch, p.os, a) : a \in abis}}
           able == {c \in each : c.linking.refusal = "none"}
           lean(c) == p.os = "linux" /\ c.triple.abi = "musl" /\ c.linking.libc = "static"
           place(c) == IF lean(c) THEN turn(c.triple.abi) ELSE Late + turn(c.triple.abi)
           candidates == {[triple |-> c.triple, linking |-> c.linking, place |-> place(c)] : c \in able}
           q == spn_profile_query(s)
<1>1. q = IF able = {} THEN [err |-> "profile_linking", refusals |-> each]
          ELSE [err |-> "none", ref |-> p.ref, sanitizers |-> p.sanitizers, candidates |-> candidates]
  BY DEF spn_profile_query
<1>2. p.os \in Oses /\ p.arch \in ToSet(spn_os_archs(p.os)) /\ p.abi \in ToSet(os_abis(p.os)) \cup {Unset}
      /\ (p.abi = Unset /\ p.os = "linux" => s.host.abi \in ToSet(os_abis(p.os))) /\ request \in Requests
  BY DEF ProfileOK, Wanted
<1>3. \A a \in abis : a \in ToSet(os_abis(p.os))
  BY <1>2, CompletionsReal
<1>4. \A a \in abis : turn(a) \in Nat
  <2> TAKE a \in abis
  <2> SUFFICES ASSUME a \notin own, a # p.abi PROVE Min({i \in DOMAIN completions : completions[i] = a}) \in Nat
    OBVIOUS
  <2>1. a \in ToSet(completions)
    OBVIOUS
  <2> DEFINE ii == {i \in DOMAIN completions : completions[i] = a}
  <2>2. ii # {} /\ ii \in SUBSET Nat
    BY <2>1, <1>2, CompletionsReal DEF ToSet
  <2> QED
    BY <2>2, MinIn
<1>5. demanded \in Requests /\ demanded.runtime = p.runtime /\ demanded.libc = p.libc
      /\ request.runtime = p.runtime /\ request.libc = p.libc /\ request.linkage = p.linkage
  BY <1>2 DEF Requests, Request, Or, Runtimes
<1> HIDE DEF demanded, request, completions, own, q
<1>6. ASSUME NEW c \in each
      PROVE  /\ c.triple = Triple(p.arch, p.os, c.triple.abi) /\ c.triple.abi \in abis
             /\ Real(c.triple) /\ c.linking = spn_ld_linking(c.triple, asked(c.triple))
             /\ asked(c.triple) \in Requests
  <2>1. PICK a \in abis : c = [triple |-> Triple(p.arch, p.os, a), linking |-> spn_ld_linking(Triple(p.arch, p.os, a), asked(Triple(p.arch, p.os, a)))]
    OBVIOUS
  <2>2. c.triple = Triple(p.arch, p.os, a) /\ c.linking = spn_ld_linking(c.triple, asked(c.triple))
    BY <2>1
  <2>3. c.triple.os = p.os /\ c.triple.arch = p.arch /\ c.triple.abi = a
    BY <2>2 DEF Triple
  <2>4. Real(c.triple)
    BY <1>2, <1>3, <2>3 DEF Real
  <2> QED
    BY <1>2, <1>5, <2>2, <2>3, <2>4
<1>7. CASE able = {}
  <2>1. q.err # "none" /\ q.refusals = each
    BY <1>1, <1>7
  <2>2. ASSUME NEW c \in each PROVE Reason(c.triple, c.linking.refusal, s.profile)
    <3>1. c.linking.refusal # "none"
      BY <1>7
    <3>2. ~links(c.triple, asked(c.triple))
      BY <1>6, <3>1, LinkingIs
    <3>3. ~links(c.triple, request) /\ c.linking = spn_ld_linking(c.triple, request)
      BY <1>6, <3>2
    <3>4. Reason(c.triple, c.linking.refusal, request)
      BY <1>2, <1>6, <3>3, ReasonTrue
    <3> QED
      BY <1>5, <3>4 DEF Reason
  <2> QED
    BY <2>1, <2>2 DEF q, Answers
<1>8. CASE able # {}
  <2>1. q.err = "none" /\ q.ref = p.ref /\ q.sanitizers = p.sanitizers /\ q.candidates = candidates
    BY <1>1, <1>8
  <2>2. candidates # {}
    <3> HIDE DEF place, able
    <3> QED
      BY <1>8
  <2>3. ASSUME NEW d \in candidates PROVE Real(d.triple) /\ d.place \in Nat /\ Kept(d, p)
    <3>1. PICK c \in able : d = [triple |-> c.triple, linking |-> c.linking, place |-> place(c)]
      OBVIOUS
    <3> HIDE DEF place
    <3>2. d.triple = c.triple /\ d.linking = c.linking /\ d.place = place(c)
      BY <3>1
    <3>3. c \in each /\ c.linking.refusal = "none"
      OBVIOUS
    <3>4. d.place \in Nat
      <4>1. turn(c.triple.abi) \in Nat /\ Late + turn(c.triple.abi) \in Nat
        BY <1>4, <1>6, <3>3 DEF Late
      <4> QED
        BY <3>2, <4>1 DEF place
    <3>5. Meets(c.triple, c.linking, asked(c.triple))
      BY <1>6, <3>3, LinkingIs
    <3>6. asked(c.triple).runtime = request.runtime /\ asked(c.triple).libc = request.libc
      BY <1>5
    <3>7. Meets(c.triple, c.linking, request)
      BY <3>5, <3>6, MeetsLess
    <3>8. p.abi # Unset => c.triple.abi = p.abi
      BY <1>6, <3>3
    <3> QED
      BY <1>6, <3>2, <3>3, <3>4, <3>7, <3>8 DEF Kept, Wanted, request, Meets, spn_ld_loader
  <2>4. QueryOK(q, p)
    BY <2>1, <2>2, <2>3 DEF QueryOK, CandidatesOK
  <2> QED
    BY <2>1, <2>4 DEF q, Answers
<1> QED
  BY <1>7, <1>8

-----------------------------------------------------------------------------
(* The layers of a profile.                                                *)

LEMMA PickIs ==
  ASSUME NEW S, NEW list \in Lists(S), NEW os
  PROVE  pick(list, os) \in S \cup {Unset}
<1> DEFINE ok == {i \in DOMAIN list : os \in list[i].oses}
           E == [oses : SUBSET Oses, value : S]
<1>1. pick(list, os) = IF ok = {} THEN Unset ELSE list[Min(ok)].value
  BY DEF pick
<1>2. list \in Seq(E)
  BY DEF Lists
<1>3. \A e \in E : e.value \in S
  OBVIOUS
<1>4. DOMAIN list \subseteq Nat /\ \A i \in DOMAIN list : list[i] \in E
  <2> HIDE DEF E
  <2> QED
    BY <1>2
<1>5. CASE ok # {}
  <2>1. Min(ok) \in ok
    <3>1. ok \in SUBSET Nat
      BY <1>4
    <3> QED
      BY <1>5, <3>1, MinIn
  <2> QED
    BY <1>1, <1>3, <1>4, <1>5, <2>1
<1> QED
  BY <1>1, <1>5

LayerOK(l) ==
  /\ l.os \in Oses \cup {Unset} /\ l.arch \in Arches \cup {Unset} /\ l.abi \in Abis \cup {Unset}
  /\ l.linkage \in Runtimes /\ l.runtime \in Runtimes /\ l.libc \in Runtimes

LEMMA OverlayIs ==
  ASSUME NEW a, NEW b, LayerOK(a), LayerOK(b)
  PROVE  LET l == overlay_profile(a, b)
         IN  LayerOK(l) /\ l.os = Or(b.os, a.os) /\ l.arch = Or(b.arch, a.arch) /\ l.mode = Or(b.mode, a.mode)
<1> DEFINE l == overlay_profile(a, b)
<1>1. /\ l.os = Or(b.os, a.os) /\ l.arch = Or(b.arch, a.arch) /\ l.mode = Or(b.mode, a.mode)
      /\ l.abi = IF b.os # Unset THEN b.abi ELSE Or(b.abi, a.abi)
      /\ l.linkage = Or(b.linkage, a.linkage) /\ l.runtime = Or(b.runtime, a.runtime) /\ l.libc = Or(b.libc, a.libc)
  BY DEF overlay_profile
<1> HIDE DEF l
<1>2. LayerOK(l)
  BY <1>1 DEF LayerOK, Or
<1> QED
  BY <1>1, <1>2 DEF l

DeclOK(d) ==
  /\ d.os \in Oses \cup {Unset} /\ d.arch \in Arches \cup {Unset} /\ d.abi \in Lists(Abis)
  /\ d.linkage \in Lists({"static", "shared"}) /\ d.runtime \in Lists({"static", "shared"}) /\ d.libc \in Lists({"static", "shared"})
  /\ d = [os |-> d.os, arch |-> d.arch, abi |-> d.abi, ref |-> d.ref, linkage |-> d.linkage, runtime |-> d.runtime, libc |-> d.libc,
          mode |-> d.mode, sanitizers |-> d.sanitizers, sanitizers_set |-> d.sanitizers_set]

LEMMA FindIs ==
  ASSUME NEW name, ProfilesAssumption
  PROVE  DeclOK(find_decl(name))
<1> DEFINE L2 == Lists({"static", "shared"})
           LA == Lists(Abis)
           LS == Lists(STRING)
<1>1. <<>> \in L2 /\ <<>> \in LA
  BY DEF Lists
<1>2. DeclOK(NoDecl)
  BY <1>1 DEF DeclOK, NoDecl
<1>3. ASSUME NEW d \in DeclTypes PROVE DeclOK(d)
  <2>1. DeclTypes = [os : Oses \cup {Unset}, arch : Arches \cup {Unset}, abi : LA, ref : LS, linkage : L2, runtime : L2, libc : L2,
                     mode : LS, sanitizers : SUBSET STRING, sanitizers_set : BOOLEAN]
    BY DEF DeclTypes
  <2> HIDE DEF L2, LA, LS
  <2>2. /\ d.os \in Oses \cup {Unset} /\ d.arch \in Arches \cup {Unset} /\ d.abi \in LA
        /\ d.linkage \in L2 /\ d.runtime \in L2 /\ d.libc \in L2
    BY <2>1
  <2>3. d = [os |-> d.os, arch |-> d.arch, abi |-> d.abi, ref |-> d.ref, linkage |-> d.linkage, runtime |-> d.runtime, libc |-> d.libc,
             mode |-> d.mode, sanitizers |-> d.sanitizers, sanitizers_set |-> d.sanitizers_set]
    BY <2>1
  <2> QED
    BY <2>2, <2>3 DEF DeclOK, LA, L2
<1> QED
  BY <1>2, <1>3 DEF find_decl, ProfilesAssumption

LEMMA EvaluateIs ==
  ASSUME NEW d, DeclOK(d), NEW os
  PROVE  LET l == evaluate(d, os) IN LayerOK(l) /\ l.os = d.os /\ l.arch = d.arch
<1> DEFINE l == evaluate(d, os)
           r == [os |-> d.os, arch |-> d.arch, abi |-> d.abi, ref |-> d.ref, linkage |-> d.linkage, runtime |-> d.runtime, libc |-> d.libc,
                 mode |-> d.mode, sanitizers |-> d.sanitizers, sanitizers_set |-> d.sanitizers_set]
<1>1. d = r
  BY DEF DeclOK
<1>2. DOMAIN d = {"os", "arch", "abi", "ref", "linkage", "runtime", "libc", "mode", "sanitizers", "sanitizers_set"}
  BY <1>1
<1> HIDE DEF r
<1>3. /\ l.os = d.os /\ l.arch = d.arch /\ l.abi = pick(d.abi, os)
      /\ l.linkage = pick(d.linkage, os) /\ l.runtime = pick(d.runtime, os) /\ l.libc = pick(d.libc, os)
  BY <1>2 DEF evaluate
<1> HIDE DEF l
<1>4. l.abi \in Abis \cup {Unset}
  BY <1>3, PickIs DEF DeclOK
<1>5. l.linkage \in Runtimes /\ l.runtime \in Runtimes /\ l.libc \in Runtimes
  <2> DEFINE S == {"static", "shared"}
  <2>1. d.linkage \in Lists(S) /\ d.runtime \in Lists(S) /\ d.libc \in Lists(S)
    BY DEF DeclOK
  <2>2. l.linkage \in S \cup {Unset} /\ l.runtime \in S \cup {Unset} /\ l.libc \in S \cup {Unset}
    <3> HIDE DEF S
    <3> QED
      BY <1>3, <2>1, PickIs
  <2> QED
    BY <2>2 DEF Runtimes
<1> QED
  BY <1>3, <1>4, <1>5 DEF LayerOK, DeclOK, l

(* What is known of a setup from the start.                                *)
Given(s) ==
  /\ s.host \in Hosts /\ LayerOK(s.override)
  /\ (\E S : s.name \in Seq(S)) /\ s.targeted \in BOOLEAN

LEMMA HostIs ==
  ASSUME NEW h \in Hosts, HostsAssumption
  PROVE  /\ h.os \in {"linux", "macos", "windows"} /\ h.arch \in {"x64", "arm64"}
         /\ h.os = "linux" => h.abi \in ToSet(os_abis(h.os))
<1>1. h \in [arch : {"x64", "arm64"}, os : {"linux", "macos", "windows"}, abi : STRING]
      /\ h.abi \in IF h.os = "windows" THEN {Unset} ELSE ToSet(spn_os_completions(h.os))
  BY DEF HostsAssumption
<1>2. h.os \in {"linux", "macos", "windows"} /\ h.arch \in {"x64", "arm64"}
  BY <1>1
<1>3. h.os = "linux" => h.abi \in ToSet(spn_os_completions(h.os))
  BY <1>1
<1> QED
  BY <1>2, <1>3, CompletionsReal DEF Oses

(* The platform asked for, and the layers that ask for it.                 *)
AskedIs(s, platform, merged) ==
  /\ platform = Triple(platform.arch, platform.os, Unset) /\ platform.os \in Oses /\ platform.arch \in Arches
  /\ LayerOK(merged)
  /\ merged.os # Unset => platform.os = merged.os
  /\ merged.arch # Unset => platform.arch = merged.arch
  /\ merged.os = Unset => platform.os = s.host.os
  /\ s.override.os # Unset => platform.os = s.override.os
  /\ s.override.mode # Unset => merged.mode = s.override.mode

LEMMA MergedIs ==
  ASSUME NEW s, Given(s), HostsAssumption, ProfilesAssumption
  PROVE  AskedIs(s, Asks(s), Merged(s))
<1> DEFINE platform == Asks(s)
           merged == Merged(s)
           d1 == find_decl(Named("default"))
           d2 == find_decl(s.name)
           l1 == evaluate(d1, platform.os)
           l2 == evaluate(d2, platform.os)
           start == [Layer EXCEPT !.ref = "auto", !.mode = "debug"]
           builtin == [Layer EXCEPT !.mode = builtin_mode(s.name)]
           m1 == overlay_profile(start, l1)
           m2 == overlay_profile(m1, builtin)
           m3 == overlay_profile(m2, l2)
<1>1. merged = overlay_profile(m3, s.override)
  BY DEF Merged
<1>2. DeclOK(d1) /\ DeclOK(d2)
  BY FindIs
<1>3. /\ platform = Triple(platform.arch, platform.os, Unset)
      /\ platform.os = Or(s.override.os, Or(d2.os, Or(d1.os, s.host.os)))
      /\ platform.arch = Or(s.override.arch, Or(d2.arch, Or(d1.arch, s.host.arch)))
  <2> DEFINE h == Platform(s.host)
             T(d) == Triple(d.arch, d.os, Unset)
             t1 == spn_triple_merge(h, T(d1))
             t2 == spn_triple_merge(t1, T(d2))
  <2>1. h.os = s.host.os /\ h.arch = s.host.arch /\ h.abi = Unset
    <3>1. s.host \in [arch : {"x64", "arm64"}, os : {"linux", "macos", "windows"}, abi : STRING]
      BY DEF Given, HostsAssumption
    <3> QED
      BY <3>1 DEF Platform
  <2>2. platform = spn_triple_merge(t2, T(s.override))
    BY DEF Asks
  <2> HIDE DEF h, platform, d1, d2
  <2>3. t1.os = Or(d1.os, h.os) /\ t1.arch = Or(d1.arch, h.arch) /\ t1.abi = Unset
    BY <2>1 DEF spn_triple_merge, Triple, Or
  <2> HIDE DEF t1
  <2>4. t2.os = Or(d2.os, t1.os) /\ t2.arch = Or(d2.arch, t1.arch) /\ t2.abi = Unset
    BY <2>3 DEF spn_triple_merge, Triple, Or
  <2> HIDE DEF t2
  <2>5. platform = Triple(Or(s.override.arch, t2.arch), Or(s.override.os, t2.os), Unset)
    BY <2>2, <2>4 DEF spn_triple_merge, Triple, Or
  <2>6. platform.arch = Or(s.override.arch, t2.arch) /\ platform.os = Or(s.override.os, t2.os)
    BY <2>5 DEF Triple
  <2> QED
    BY <2>1, <2>3, <2>4, <2>5, <2>6
<1> HIDE DEF d1, d2
<1>4. platform.os \in Oses /\ platform.arch \in Arches
  <2>1. s.host.os \in Oses /\ s.host.arch \in Arches
    BY HostIs DEF Given, Oses, Arches
  <2> QED
    BY <2>1, <1>2, <1>3 DEF DeclOK, Given, LayerOK, Or
<1> HIDE DEF platform, merged
<1>5. LayerOK(l1) /\ l1.os = d1.os /\ l1.arch = d1.arch /\ LayerOK(l2) /\ l2.os = d2.os /\ l2.arch = d2.arch
  BY <1>2, EvaluateIs
<1>6. LayerOK(start) /\ start.os = Unset /\ start.arch = Unset
  BY DEF LayerOK, Layer, Runtimes
<1>7. LayerOK(builtin) /\ builtin.os = Unset /\ builtin.arch = Unset
  BY DEF LayerOK, Layer, Runtimes
<1> HIDE DEF l1, l2, start, builtin
<1>8. LayerOK(m1) /\ m1.os = d1.os /\ m1.arch = d1.arch
  BY <1>5, <1>6, OverlayIs DEF Or
<1> HIDE DEF m1
<1>9. LayerOK(m2) /\ m2.os = d1.os /\ m2.arch = d1.arch
  BY <1>8, <1>7, OverlayIs DEF Or
<1> HIDE DEF m2
<1>10. LayerOK(m3) /\ m3.os = Or(d2.os, d1.os) /\ m3.arch = Or(d2.arch, d1.arch)
  BY <1>9, <1>5, OverlayIs
<1> HIDE DEF m3
<1>11. LayerOK(merged) /\ merged.os = Or(s.override.os, m3.os) /\ merged.arch = Or(s.override.arch, m3.arch)
       /\ merged.mode = Or(s.override.mode, m3.mode)
  BY <1>1, <1>10, OverlayIs DEF Given
<1>12. merged.os # Unset => platform.os = merged.os
  BY <1>3, <1>10, <1>11 DEF Or
<1>13. merged.arch # Unset => platform.arch = merged.arch
  BY <1>3, <1>10, <1>11 DEF Or
<1>14. merged.os = Unset => platform.os = s.host.os
  BY <1>3, <1>10, <1>11 DEF Or
<1>15. (s.override.os # Unset => platform.os = s.override.os) /\ (s.override.mode # Unset => merged.mode = s.override.mode)
  BY <1>3, <1>11 DEF Or
<1> QED
  BY <1>3, <1>4, <1>11, <1>12, <1>13, <1>14, <1>15 DEF AskedIs, platform, merged

(* The profile has what the layers ask for.                                *)
Met(want, p) == \A f \in {"os", "arch", "abi", "runtime", "libc", "mode"} : want[f] # Unset => want[f] = p[f]
ProfileFields == {"os", "arch", "abi", "ref", "linkage", "runtime", "libc", "mode", "sanitizers", "sanitizers_set"}
Wished(s, p, targeted) ==
  /\ name_ok(s.name) /\ Met(Merged(s), p)
  /\ p.os = "wasi" => targeted
  /\ s.override.os # Unset => p.os = s.override.os
  /\ s.override.mode # Unset => p.mode = s.override.mode

LEMMA OverlayShape ==
  ASSUME NEW a, NEW b
  PROVE  DOMAIN overlay_profile(a, b) = ProfileFields
BY DEF overlay_profile, ProfileFields

LEMMA ResolveIs ==
  ASSUME NEW s, Given(s), HostsAssumption, ProfilesAssumption,
         NEW r, r = spn_profile_resolve(s, Asks(s), Merged(s)), r.err = "none"
  PROVE  /\ Wished(s, r.profile, r.targeted) /\ ProfileOK(r.profile, s.host)
         /\ DOMAIN r.profile = ProfileFields /\ r.targeted \in BOOLEAN
<1> DEFINE platform == Asks(s)
           merged == Merged(s)
           pinned == [platform EXCEPT !.abi = merged.abi]
           abi == IF spn_triple_entry(pinned) = "ok" THEN Completed(pinned).abi ELSE pinned.abi
           profile == [merged EXCEPT !.os = pinned.os, !.arch = pinned.arch, !.abi = abi]
           targeted == merged.arch # Unset \/ merged.os # Unset \/ merged.abi # Unset
           entry == spn_triple_entry(pinned)
<1>1. r = CASE ~name_ok(s.name) -> Refused("profile_invalid")
            [] name_ok(s.name) /\ s.name \notin DOMAIN Declared /\ ~is_builtin(s.name) -> Refused("profile_undefined")
            [] OTHER ->
          CASE entry = "foreign_arch" -> Refused("profile_arch")
            [] entry = "foreign_abi" -> Refused("profile_abi")
            [] entry = "missing_abi" /\ Platform(pinned) # Platform(s.host) -> Refused("target_abi")
            [] OTHER -> [err |-> "none", profile |-> profile, targeted |-> targeted]
  BY DEF spn_profile_resolve
<1>2. AskedIs(s, platform, merged)
  BY MergedIs
<1>3. DOMAIN merged = ProfileFields
  BY OverlayShape DEF Merged
<1> HIDE DEF platform, merged
<1>4. pinned.os = platform.os /\ pinned.arch = platform.arch /\ pinned.abi = merged.abi
      /\ pinned = Triple(platform.arch, platform.os, merged.abi)
  BY <1>2 DEF AskedIs, Triple
<1> HIDE DEF pinned, abi
<1>5. /\ DOMAIN profile = ProfileFields
      /\ profile.os = platform.os /\ profile.arch = platform.arch /\ profile.abi = abi
      /\ profile.linkage = merged.linkage /\ profile.runtime = merged.runtime /\ profile.libc = merged.libc /\ profile.mode = merged.mode
  <2> DEFINE os == pinned.os
             arch == pinned.arch
  <2>0. profile = [merged EXCEPT !.os = os, !.arch = arch, !.abi = abi]
    OBVIOUS
  <2> HIDE DEF profile, os, arch
  <2>1. /\ DOMAIN profile = ProfileFields
        /\ profile.os = os /\ profile.arch = arch /\ profile.abi = abi
        /\ \A f \in ProfileFields \ {"os", "arch", "abi"} : profile[f] = merged[f]
    BY <1>3, <2>0 DEF ProfileFields
  <2> QED
    BY <1>4, <2>1 DEF ProfileFields, os, arch
<1> HIDE DEF profile, targeted, entry, abi
<1>6. /\ name_ok(s.name) /\ entry \notin {"foreign_arch", "foreign_abi"}
      /\ entry = "missing_abi" => Platform(pinned) = Platform(s.host)
      /\ r.profile = profile /\ r.targeted = targeted
  <2>1. CASE ~name_ok(s.name)
    BY <1>1, <2>1 DEF Refused
  <2>2. CASE name_ok(s.name) /\ s.name \notin DOMAIN Declared /\ ~is_builtin(s.name)
    BY <1>1, <2>2 DEF Refused
  <2>3. CASE name_ok(s.name) /\ ~(s.name \notin DOMAIN Declared /\ ~is_builtin(s.name))
    <3>1. CASE entry = "foreign_arch"
      BY <1>1, <2>3, <3>1 DEF Refused
    <3>2. CASE entry = "foreign_abi"
      BY <1>1, <2>3, <3>2 DEF Refused
    <3>3. CASE entry = "missing_abi" /\ Platform(pinned) # Platform(s.host)
      BY <1>1, <2>3, <3>3 DEF Refused
    <3>4. CASE entry \notin {"foreign_arch", "foreign_abi"} /\ ~(entry = "missing_abi" /\ Platform(pinned) # Platform(s.host))
      BY <1>1, <2>3, <3>4
    <3> QED
      BY <3>1, <3>2, <3>3, <3>4
  <2> QED
    BY <2>1, <2>2, <2>3
<1>7. pinned.os \in Oses /\ pinned.arch \in Arches /\ pinned.os # Unset /\ pinned.arch # Unset /\ pinned.abi \in Abis \cup {Unset}
  BY <1>2, <1>4, UnsetIsNot DEF AskedIs, LayerOK
<1>8. pinned.arch \in ToSet(spn_os_archs(pinned.os)) /\ (pinned.abi # Unset => pinned.abi \in ToSet(os_abis(pinned.os)))
      /\ (pinned.abi = Unset /\ Len(spn_os_completions(pinned.os)) # 1 => entry = "missing_abi")
      /\ (pinned.abi # Unset => entry = "ok") /\ entry \in {"ok", "missing_abi"} /\ (entry = "missing_abi" => pinned.abi = Unset)
  BY <1>6, <1>7 DEF spn_triple_entry, entry
<1>9. abi \in ToSet(os_abis(pinned.os)) \cup {Unset} /\ (merged.abi # Unset => abi = merged.abi)
  <2>1. CASE entry = "ok"
    <3>1. abi = Or(pinned.abi, spn_os_completions(pinned.os)[1])
      BY <1>4, <2>1 DEF abi, entry, Completed, Triple
    <3>2. pinned.abi = Unset => spn_os_completions(pinned.os)[1] \in ToSet(os_abis(pinned.os))
      BY <1>7, UnsetIsNot DEF Oses, spn_os_completions, os_abis, ToSet
    <3> QED
      BY <1>4, <1>8, <3>1, <3>2 DEF Or
  <2>2. CASE entry = "missing_abi"
    BY <1>4, <1>8, <2>2 DEF abi, entry
  <2> QED
    BY <1>8, <2>1, <2>2
<1>10. ASSUME abi = Unset, pinned.os = "linux" PROVE s.host.abi \in ToSet(os_abis(pinned.os))
  <2>1. entry = "missing_abi"
    <3>1. pinned.abi = Unset
      BY <1>4, <1>9, <1>10
    <3>2. Len(spn_os_completions(pinned.os)) # 1
      BY <1>10 DEF spn_os_completions
    <3> QED
      BY <1>8, <3>1, <3>2
  <2>2. Platform(pinned) = Platform(s.host)
    BY <1>6, <2>1
  <2>3. s.host.os = pinned.os
    <3>1. s.host \in [arch : {"x64", "arm64"}, os : {"linux", "macos", "windows"}, abi : STRING]
      BY DEF Given, HostsAssumption
    <3>2. Platform(s.host).os = s.host.os
      BY <3>1 DEF Platform
    <3>3. Platform(pinned).os = pinned.os
      BY <1>4 DEF Platform, Triple
    <3> QED
      BY <2>2, <3>2, <3>3
  <2> QED
    BY <1>10, <2>3, HostIs DEF Given
<1>11. ProfileOK(profile, s.host)
  BY <1>2, <1>4, <1>5, <1>7, <1>8, <1>9, <1>10 DEF ProfileOK, Wanted, Request, Requests, AskedIs, LayerOK
<1>12. Met(merged, profile)
  BY <1>2, <1>5, <1>9 DEF Met, AskedIs
<1>13. profile.os = "wasi" => targeted
  <2>1. s.host.os # "wasi"
    BY HostIs DEF Given
  <2> QED
    BY <1>2, <1>5, <2>1 DEF AskedIs, targeted
<1>14. Wished(s, profile, targeted)
  BY <1>2, <1>5, <1>6, <1>12, <1>13 DEF Wished, AskedIs, merged
<1> QED
  BY <1>5, <1>6, <1>11, <1>14 DEF targeted

-----------------------------------------------------------------------------
(* The invariant.                                                          *)

(* A profile is the layers', or the one scripts are built with.            *)
Origin(s, p) == Wished(s, p, s.targeted) \/ (p.os = "wasi" /\ ~s.targeted /\ Met(spn_profile_metaprogram, p))

(* A profile that is ready.                                                *)
Ready(s) ==
  LET t == s.result.row.triple
      p == s.profile
      link == s.result.linking
  IN  /\ t = Triple(p.arch, p.os, p.abi) /\ Real(t)
      /\ s.result.info.driver \in Drivers /\ s.result.info.lld \in BOOLEAN /\ RowOK(s.result.info.driver, s.result.row)
      /\ Origin(s, p)
      /\ s.query.ref \in {"auto", p.ref} /\ p.sanitizers \subseteq s.result.row.sanitizers
      /\ p.sanitizers \ {"undefined"} # {} => spn_ld_loader(t, link)
      /\ p.linkage = "shared" => spn_ld_loader(t, link)

SetupFields == {"stage", "host", "sdks", "name", "override", "demand", "profile", "targeted", "query", "result"}
Sound(s) ==
  /\ DOMAIN s = SetupFields /\ Given(s)
  /\ s.stage = "resolve" => ~s.targeted
  /\ s.stage \in {"query", "select", "unlinkable", "finalize"} =>
       Origin(s, s.profile) /\ ProfileOK(s.profile, s.host) /\ DOMAIN s.profile = ProfileFields
  /\ s.stage = "unlinkable" => \A c \in s.query.refusals : Reason(c.triple, c.linking.refusal, s.profile)
  /\ s.stage \in {"select", "finalize"} => QueryOK(s.query, s.profile)
  /\ s.stage = "finalize" => SelectionOK(s.result, s.query)
  /\ s.stage = "ready" => Ready(s)

Same(s, n) ==
  /\ DOMAIN n = SetupFields
  /\ n.host = s.host /\ n.sdks = s.sdks /\ n.name = s.name /\ n.override = s.override

LEMMA SameIs ==
  ASSUME NEW s, NEW n, Sound(s), Same(s, n), n.targeted \in BOOLEAN
  PROVE  Given(n)
BY DEF Sound, Given, Same

LEMMA WishedSame ==
  ASSUME NEW s, NEW n, Same(s, n), NEW p, NEW b, Wished(s, p, b)
  PROVE  Wished(n, p, b)
<1>1. Merged(n) = Merged(s)
  BY DEF Same, Merged, Asks
<1> QED
  BY <1>1 DEF Wished, Same

LEMMA OriginSame ==
  ASSUME NEW s, NEW n, Same(s, n), n.targeted = s.targeted, NEW p, Origin(s, p)
  PROVE  Origin(n, p)
BY WishedSame DEF Origin

(* The steps.                                                              *)
LEMMA FailStep ==
  ASSUME NEW s, NEW n, Sound(s), Same(s, n), n.stage \in {"refused", "unselected"}, n.targeted = s.targeted
  PROVE  Sound(n)
BY SameIs DEF Sound, Given, Same

LEMMA ResolveStep ==
  ASSUME NEW s, NEW n, Sound(s), s.stage = "resolve", HostsAssumption, ProfilesAssumption,
         NEW r, r = spn_profile_resolve(s, Asks(s), Merged(s)), r.err = "none",
         Same(s, n), n.stage = "query", n.profile = r.profile, n.targeted = r.targeted
  PROVE  Sound(n)
<1> DEFINE p == r.profile
           b == r.targeted
<1>1. Wished(s, p, b) /\ ProfileOK(p, s.host) /\ DOMAIN p = ProfileFields /\ b \in BOOLEAN
  BY ResolveIs DEF Sound
<1> HIDE DEF p, b
<1>2. n.profile = p /\ n.targeted = b
  BY DEF p, b
<1>3. Given(n)
  BY <1>1, <1>2, SameIs
<1>4. Wished(n, p, b)
  BY <1>1, WishedSame
<1> QED
  BY <1>1, <1>2, <1>3, <1>4 DEF Sound, Origin, Same

LEMMA MetaprogramIs ==
  /\ DOMAIN spn_profile_metaprogram = ProfileFields
  /\ spn_profile_metaprogram.os = "wasi"
  /\ \A s : ProfileOK(spn_profile_metaprogram, s)
<1> DEFINE p == spn_profile_metaprogram
<1>1. /\ DOMAIN p = ProfileFields
      /\ p.os = "wasi" /\ p.arch = "wasm32" /\ p.abi = "musl" /\ p.linkage = "static" /\ p.runtime = "static" /\ p.libc = "static"
  BY DEF spn_profile_metaprogram, ProfileFields
<1> HIDE DEF p
<1>2. "wasm32" \in ToSet(spn_os_archs("wasi")) /\ "musl" \in ToSet(os_abis("wasi"))
  BY DEF spn_os_archs, os_abis, ToSet
<1>3. Wanted(p) \in Requests
  BY <1>1 DEF Wanted, Request, Requests, Runtimes
<1>4. \A s : ProfileOK(p, s)
  BY <1>1, <1>2, <1>3, UnsetIsNot DEF ProfileOK, Oses, Abis
<1> QED
  BY <1>1, <1>4 DEF p

LEMMA MetaprogramStep ==
  ASSUME NEW s, NEW n, Sound(s), s.stage = "resolve",
         Same(s, n), n.stage = "query", n.profile = spn_profile_metaprogram, n.targeted = s.targeted
  PROVE  Sound(n)
<1> DEFINE p == spn_profile_metaprogram
<1>1. p.os = "wasi" /\ ProfileOK(p, s.host) /\ DOMAIN p = ProfileFields
  BY MetaprogramIs
<1>2. Met(spn_profile_metaprogram, p)
  BY DEF Met
<1>3. Given(n) /\ ~n.targeted
  BY SameIs DEF Sound, Given
<1> QED
  BY <1>1, <1>2, <1>3 DEF Sound, Origin, Same

LEMMA QueryStep ==
  ASSUME NEW s, NEW n, Sound(s), s.stage = "query", NEW q, q = spn_profile_query(s),
         Same(s, n), n.stage = (IF q.err = "none" THEN "select" ELSE "unlinkable"),
         n.query = q, n.profile = s.profile, n.targeted = s.targeted
  PROVE  Sound(n)
<1>1. Answers(q, s.profile)
  BY QueryIs DEF Sound
<1>2. Given(n) /\ Origin(n, n.profile) /\ ProfileOK(n.profile, n.host) /\ DOMAIN n.profile = ProfileFields
  BY SameIs, OriginSame DEF Sound, Same, Given
<1> QED
  BY <1>1, <1>2 DEF Sound, Answers, Same

LEMMA SelectStep ==
  ASSUME NEW s, NEW n, Sound(s), s.stage = "select", DeclsAssumption,
         NEW r, r = spn_toolchain_select(s.sdks, s.host, s.query), r.err = "none",
         Same(s, n), n.stage = "finalize", n.result = r, n.query = s.query, n.profile = s.profile, n.targeted = s.targeted
  PROVE  Sound(n)
<1>1. SelectionOK(r, s.query)
  BY SelectOK DEF Sound, QueryOK
<1>2. Given(n) /\ Origin(n, n.profile) /\ ProfileOK(n.profile, n.host) /\ DOMAIN n.profile = ProfileFields
  BY SameIs, OriginSame DEF Sound, Same, Given
<1> QED
  BY <1>1, <1>2 DEF Sound, Same

(* What the choice settles of a profile meets the wishes too.              *)
LEMMA FinalMet ==
  ASSUME NEW want, NEW p, NEW f, NEW c, Met(want, p), Kept(c, p),
         f.os = p.os, f.arch = p.arch, f.mode = p.mode,
         f.abi = c.triple.abi, f.runtime = c.linking.runtime, f.libc = c.linking.libc
  PROVE  Met(want, f)
<1>1. p.abi # Unset => f.abi = p.abi
  BY DEF Kept
<1>2. (p.runtime # Unset => f.runtime = p.runtime) /\ (p.libc # Unset => f.libc = p.libc)
  BY DEF Kept, Meets, Wanted, Request
<1> QED
  BY <1>1, <1>2 DEF Met

LEMMA FinalizeStep ==
  ASSUME NEW s, NEW n, Sound(s), s.stage = "finalize",
         Same(s, n), n.stage = "ready", n.profile = spn_profile_finalize(s),
         n.result = s.result, n.query = s.query, n.targeted = s.targeted
  PROVE  Sound(n)
<1> DEFINE f == spn_profile_finalize(s)
           p == s.profile
           row == s.result.row
           link == s.result.linking
           name == s.result.info.name
           abi == row.triple.abi
           linkage == link.linkage
           runtime == link.runtime
           libc == link.libc
<1>1. n.profile = f
  OBVIOUS
<1>2. f = [p EXCEPT !.abi = abi, !.linkage = linkage, !.runtime = runtime, !.libc = libc, !.ref = name]
  BY DEF spn_profile_finalize
<1>3. Origin(s, p) /\ ProfileOK(p, s.host) /\ DOMAIN p = ProfileFields /\ QueryOK(s.query, p) /\ SelectionOK(s.result, s.query)
  BY DEF Sound
<1> HIDE DEF f, p, abi, linkage, runtime, libc, name
<1>4. /\ f.os = p.os /\ f.arch = p.arch /\ f.mode = p.mode /\ f.sanitizers = p.sanitizers
      /\ f.abi = abi /\ f.linkage = linkage /\ f.runtime = runtime /\ f.libc = libc /\ f.ref = name
  BY <1>2, <1>3 DEF ProfileFields
<1>6. PICK c \in s.query.candidates : row.triple = c.triple /\ link = c.linking
  BY <1>3 DEF SelectionOK
<1>7. Kept(c, p) /\ Real(c.triple)
  BY <1>3, <1>6 DEF QueryOK, CandidatesOK
<1>8. row.triple = Triple(f.arch, f.os, f.abi)
  BY <1>4, <1>6, <1>7 DEF Kept, abi
<1>9. \A want : Met(want, p) => Met(want, f)
  BY <1>4, <1>6, <1>7, FinalMet DEF abi, runtime, libc
<1>10. Given(n) /\ Origin(n, f)
  <2>1. Given(n)
    BY SameIs DEF Sound, Given
  <2>2. CASE Wished(s, p, s.targeted)
    <3>1. Wished(s, f, s.targeted)
      BY <1>4, <1>9, <2>2 DEF Wished
    <3> QED
      BY <2>1, <3>1, WishedSame DEF Origin
  <2>3. CASE p.os = "wasi" /\ ~s.targeted /\ Met(spn_profile_metaprogram, p)
    BY <1>4, <1>9, <2>1, <2>3 DEF Origin
  <2> QED
    BY <1>3, <2>1, <2>2, <2>3 DEF Origin
<1>11. s.query.ref \in {"auto", f.ref} /\ f.sanitizers \subseteq row.sanitizers
  BY <1>3, <1>4 DEF SelectionOK, QueryOK, name
<1>12. f.sanitizers \ {"undefined"} # {} => spn_ld_loader(row.triple, link)
  BY <1>3, <1>4 DEF SelectionOK, QueryOK, Heavy
<1>13. f.linkage = "shared" => spn_ld_loader(row.triple, link)
  BY <1>4, <1>6, <1>7 DEF Kept, Meets, linkage
<1>14. Ready(n)
  BY <1>1, <1>3, <1>6, <1>7, <1>8, <1>10, <1>11, <1>12, <1>13 DEF Ready, SelectionOK
<1> QED
  BY <1>10, <1>14 DEF Sound, Same

LEMMA ShortSeqs ==
  ASSUME NEW S, NEW x \in S, NEW y \in S
  PROVE  <<x>> \in Seq(S) /\ <<x, y>> \in Seq(S) /\ Len(<<x>>) = 1 /\ Len(<<x, y>>) = 2
OBVIOUS

LEMMA PairIs ==
  ASSUME NEW u, NEW v
  PROVE  <<u>> \o <<v>> = <<u, v>>
<1> DEFINE S == {u, v}
           p == <<u>> \o <<v>>
           q == <<u, v>>
<1>1. p \in Seq(S) /\ Len(p) = 2 /\ p[1] = u /\ p[2] = v
  OBVIOUS
<1>2. q \in Seq(S) /\ Len(q) = 2 /\ q[1] = u /\ q[2] = v
  OBVIOUS
<1> HIDE DEF p, q
<1>3. p = [i \in 1 .. 2 |-> p[i]]
  BY <1>1
<1>4. q = [i \in 1 .. 2 |-> q[i]]
  BY <1>2
<1>5. \A i \in 1 .. 2 : p[i] = q[i]
  BY <1>1, <1>2
<1>6. p = q
  BY <1>3, <1>4, <1>5
<1> QED
  BY <1>6 DEF p, q

LEMMA SetupInitSound == SetupInit => Sound(setup)
<1> SUFFICES ASSUME SetupInit PROVE Sound(setup)
  OBVIOUS
<1>1. PICK host \in Hosts, sdks \in HostSdks, name \in Names, override \in Overrides, ref \in Refs, demand \in BOOLEAN :
        setup = [stage |-> "resolve", host |-> host, sdks |-> sdks, name |-> select_name(name, override.mode), override |-> [override EXCEPT !.ref = ref],
                 demand |-> demand, profile |-> Layer, targeted |-> FALSE, query |-> <<>>, result |-> Refused("none")]
  BY DEF SetupInit
<1> DEFINE o == [override EXCEPT !.ref = ref]
           m == select_name(name, override.mode)
<1>2. LayerOK(o)
  <2>1. override \in OverrideTypes
    BY ProfilesAssumption DEF ProfilesAssumption
  <2>2. /\ o.os = override.os /\ o.arch = override.arch /\ o.abi = override.abi
        /\ o.linkage = override.linkage /\ o.runtime = override.runtime /\ o.libc = override.libc
    BY <2>1 DEF OverrideTypes
  <2> HIDE DEF o
  <2>3. /\ override.os \in Oses \cup {Unset} /\ override.arch \in Arches \cup {Unset} /\ override.abi \in Abis \cup {Unset}
        /\ override.linkage = Unset /\ override.runtime = Unset /\ override.libc = Unset
    BY <2>1 DEF OverrideTypes
  <2> QED
    BY <2>2, <2>3 DEF LayerOK, Runtimes
<1>3. \E S : m \in Seq(S)
  <2>1. CASE name # <<>>
    <3>1. name \in Seq(Seq(STRING))
      BY ProfilesAssumption DEF ProfilesAssumption
    <3> QED
      BY <2>1, <3>1 DEF select_name
  <2>2. CASE name = <<>>
    <3>1. \A w : Named(w) \in Seq({<<w>>})
      BY ShortSeqs DEF Named
    <3>2. m = Named("release") \/ m = Named("debug")
      BY <2>2 DEF select_name
    <3> QED
      BY <3>1, <3>2
  <2> QED
    BY <2>1, <2>2
<1> HIDE DEF o, m
<1>4. /\ DOMAIN setup = SetupFields
      /\ setup.host = host /\ setup.override = o /\ setup.name = m /\ setup.targeted = FALSE /\ setup.stage = "resolve"
  BY <1>1 DEF o, m, SetupFields
<1> QED
  BY <1>2, <1>3, <1>4 DEF Sound, Given

LEMMA FailsKeep ==
  ASSUME NEW stage, NEW err, Sound(setup), Fails(stage, err)
  PROVE  Same(setup, setup') /\ setup'.stage = stage /\ setup'.targeted = setup.targeted
<1> DEFINE r == Refused(err)
<1>1. setup' = [setup EXCEPT !.stage = stage, !.result = r]
  BY DEF Fails
<1> HIDE DEF r
<1> QED
  BY <1>1 DEF Sound, SetupFields, Same

LEMMA SetupStepSound == Sound(setup) /\ [SetupNext]_setup => Sound(setup')
<1> SUFFICES ASSUME Sound(setup), [SetupNext]_setup PROVE Sound(setup')
  OBVIOUS
<1>1. CASE Resolve
  <2>1. PICK r : /\ r = spn_profile_resolve(setup, Asks(setup), Merged(setup))
                 /\ IF r.err # "none" THEN Fails("refused", r.err)
                    ELSE setup' = [setup EXCEPT !.stage = "query", !.profile = r.profile, !.targeted = r.targeted]
    BY <1>1 DEF Resolve
  <2>2. CASE r.err # "none"
    <3>1. Fails("refused", r.err)
      BY <2>1, <2>2
    <3> QED
      BY <3>1, FailsKeep, FailStep
  <2>3. CASE r.err = "none"
    <3> DEFINE p == r.profile
               b == r.targeted
    <3>1. setup' = [setup EXCEPT !.stage = "query", !.profile = p, !.targeted = b]
      BY <2>1, <2>3
    <3> HIDE DEF p, b
    <3>2. Same(setup, setup') /\ setup'.stage = "query" /\ setup'.profile = p /\ setup'.targeted = b
      BY <3>1 DEF Sound, SetupFields, Same
    <3>3. setup.stage = "resolve"
      BY <1>1 DEF Resolve
    <3> QED
      BY <2>1, <2>3, <3>2, <3>3, ResolveStep, HostsAssumption, ProfilesAssumption DEF p, b
  <2> QED
    BY <2>2, <2>3
<1>2. CASE Metaprogram
  <2> DEFINE p == spn_profile_metaprogram
  <2>1. setup.stage = "resolve" /\ setup' = [setup EXCEPT !.stage = "query", !.profile = p, !.demand = FALSE]
    BY <1>2 DEF Metaprogram
  <2> HIDE DEF p
  <2>2. Same(setup, setup') /\ setup'.stage = "query" /\ setup'.profile = p /\ setup'.targeted = setup.targeted
    BY <2>1 DEF Sound, SetupFields, Same
  <2> QED
    BY <2>1, <2>2, MetaprogramStep DEF p
<1>3. CASE Query
  <2>1. PICK q : q = spn_profile_query(setup) /\
          setup' = [setup EXCEPT !.stage = IF q.err = "none" THEN "select" ELSE "unlinkable", !.query = q, !.result = Refused(q.err)]
    BY <1>3 DEF Query
  <2> DEFINE stage == IF q.err = "none" THEN "select" ELSE "unlinkable"
             r == Refused(q.err)
  <2>2. setup' = [setup EXCEPT !.stage = stage, !.query = q, !.result = r] /\ setup.stage = "query"
    BY <1>3, <2>1 DEF Query
  <2> HIDE DEF stage, r
  <2>3. Same(setup, setup') /\ setup'.stage = stage /\ setup'.query = q /\ setup'.profile = setup.profile /\ setup'.targeted = setup.targeted
    BY <2>2 DEF Sound, SetupFields, Same
  <2> QED
    BY <2>1, <2>2, <2>3, QueryStep DEF stage
<1>4. CASE Select
  <2>1. PICK r : /\ r = spn_toolchain_select(setup.sdks, setup.host, setup.query)
                 /\ IF r.err # "none" THEN Fails("unselected", r.err) ELSE setup' = [setup EXCEPT !.stage = "finalize", !.result = r]
    BY <1>4 DEF Select
  <2>2. CASE r.err # "none"
    <3>1. Fails("unselected", r.err)
      BY <2>1, <2>2
    <3> QED
      BY <3>1, FailsKeep, FailStep
  <2>3. CASE r.err = "none"
    <3>1. setup' = [setup EXCEPT !.stage = "finalize", !.result = r] /\ setup.stage = "select"
      BY <1>4, <2>1, <2>3 DEF Select
    <3>2. /\ Same(setup, setup') /\ setup'.stage = "finalize" /\ setup'.result = r /\ setup'.query = setup.query
          /\ setup'.profile = setup.profile /\ setup'.targeted = setup.targeted
      BY <3>1 DEF Sound, SetupFields, Same
    <3> QED
      BY <2>1, <2>3, <3>1, <3>2, SelectStep, DeclsAssumption
  <2> QED
    BY <2>2, <2>3
<1>5. CASE Finalize
  <2> DEFINE f == spn_profile_finalize(setup)
  <2>1. setup.stage = "finalize" /\ setup' = [setup EXCEPT !.stage = "ready", !.profile = f]
    BY <1>5 DEF Finalize
  <2> HIDE DEF f
  <2>2. /\ Same(setup, setup') /\ setup'.stage = "ready" /\ setup'.profile = f /\ setup'.result = setup.result
        /\ setup'.query = setup.query /\ setup'.targeted = setup.targeted
    BY <2>1 DEF Sound, SetupFields, Same
  <2> QED
    BY <2>1, <2>2, FinalizeStep DEF f
<1>6. CASE UNCHANGED setup
  BY <1>6
<1> QED
  BY <1>1, <1>2, <1>3, <1>4, <1>5, <1>6 DEF SetupNext

(* What is in the invariant of the three parts of ProfileSound.            *)
LEMMA ReadyWishes ==
  ASSUME Sound(setup), setup.stage = "ready"
  PROVE  Wishes = {}
<1> DEFINE p == setup.profile
           want == IF p.os = "wasi" /\ ~setup.targeted THEN spn_profile_metaprogram ELSE Merged(setup)
<1>1. Origin(setup, p)
  BY DEF Sound, Ready
<1>2. Met(want, p)
  BY <1>1 DEF Origin, Wished
<1>3. Wishes = {f \in {"os", "arch", "abi", "runtime", "libc", "mode"} : want[f] # Unset /\ want[f] # p[f]}
  BY DEF Wishes
<1> HIDE DEF want, p
<1> QED
  BY <1>2, <1>3 DEF Met

LEMMA LinkerIs ==
  ASSUME NEW info, NEW t, Real(t), info.driver \in Drivers, info.lld \in BOOLEAN
  PROVE  Linker(info, t) \in {"gnu", "lld", "msvc", "ld64"}
<1>1. spn_ld_dialect(t) \in {"gnu", "link", "darwin", "wasm"}
  BY RealCases DEF spn_ld_dialect
<1> QED
  BY <1>1 DEF Linker, spn_ld_native

LEMMA ReadyParts ==
  ASSUME Sound(setup), setup.stage = "ready"
  PROVE  LET t == setup.result.row.triple
             p == setup.profile
             link == setup.result.linking
         IN  /\ t = Triple(p.arch, p.os, p.abi) /\ t.abi \in ToSet(os_abis(t.os)) /\ t.arch \in ToSet(spn_os_archs(t.os))
             /\ spn_toolchain_driver_composes(setup.result.info.driver, spn_ld_dialect(t))
             /\ spn_sdk_kind(t) = "msvc" => setup.result.row.sdk = "msvc"
             /\ Wishes = {}
             /\ setup.override.os # Unset /\ setup.targeted => p.os = setup.override.os
             /\ setup.override.mode # Unset /\ p.os # "wasi" => p.mode = setup.override.mode
             /\ setup.query.ref \in {"auto", p.ref}
             /\ p.sanitizers \subseteq setup.result.row.sanitizers
             /\ p.sanitizers \ {"undefined"} # {} => spn_ld_loader(t, link)
             /\ p.linkage = "shared" => spn_ld_loader(t, link)
             /\ Linker(setup.result.info, t) \in {"gnu", "lld", "msvc", "ld64"}
<1> DEFINE t == setup.result.row.triple
           p == setup.profile
           link == setup.result.linking
<1>1. Ready(setup)
  BY DEF Sound
<1>2. /\ t = Triple(p.arch, p.os, p.abi) /\ Real(t)
      /\ setup.result.info.driver \in Drivers /\ setup.result.info.lld \in BOOLEAN /\ RowOK(setup.result.info.driver, setup.result.row)
      /\ Origin(setup, p)
  BY <1>1 DEF Ready
<1>3. /\ setup.query.ref \in {"auto", p.ref} /\ p.sanitizers \subseteq setup.result.row.sanitizers
      /\ p.sanitizers \ {"undefined"} # {} => spn_ld_loader(t, link)
      /\ p.linkage = "shared" => spn_ld_loader(t, link)
  BY <1>1 DEF Ready
<1>4. t.abi \in ToSet(os_abis(t.os)) /\ t.arch \in ToSet(spn_os_archs(t.os))
  BY <1>2 DEF Real
<1>5. /\ setup.override.os # Unset /\ setup.targeted => p.os = setup.override.os
      /\ setup.override.mode # Unset /\ p.os # "wasi" => p.mode = setup.override.mode
  BY <1>2 DEF Origin, Wished
<1>6. Wishes = {}
  BY ReadyWishes
<1>7. Linker(setup.result.info, t) \in {"gnu", "lld", "msvc", "ld64"}
  BY <1>2, LinkerIs
<1> QED
  BY <1>2, <1>3, <1>4, <1>5, <1>6, <1>7 DEF RowOK

LEMMA FullPrefix ==
  ASSUME NEW S, NEW s \in Seq(S), NEW r \in Seq(S), Len(s) = Len(r), IsPrefix(s, r)
  PROVE  s = r
<1>1. SubSeq(s, 1, Len(s)) = s /\ SubSeq(r, 1, Len(r)) = r
  OBVIOUS
<1> QED
  BY <1>1 DEF IsPrefix

LEMMA BuildDirs ==
  ASSUME NEW W, NEW name \in Seq(W), name_ok(name), NEW V, NEW other \in Seq(V), name_ok(other),
         NEW a \in BOOLEAN, NEW b \in BOOLEAN, NEW t, Real(t), t.arch \in Arches, t.abi \in Abis,
         IsPrefix(spn_profile_build_dir(name, a, t), spn_profile_build_dir(other, b, t))
  PROVE  spn_profile_build_dir(name, a, t) = spn_profile_build_dir(other, b, t)
<1> DEFINE T == <<t.arch, t.os, t.abi>>
           mine == spn_profile_build_dir(name, a, t)
           yours == spn_profile_build_dir(other, b, t)
<1>1. T \in TripleDirs
  BY DEF TripleDirs, Real
<1>2. Len(name) = 1 /\ Len(other) = 1 /\ name[1] \notin TripleDirs /\ other[1] \notin TripleDirs
  BY DEF name_ok
<1>3. PICK x : name = <<x>>
  BY <1>2
<1>4. PICK y : other = <<y>>
  BY <1>2
<1> HIDE DEF T
<1>5. mine = (IF a THEN <<T, x>> ELSE <<x>>) /\ yours = (IF b THEN <<T, y>> ELSE <<y>>)
  BY <1>3, <1>4, PairIs DEF spn_profile_build_dir, T
<1>6. Len(mine) <= Len(yours) /\ SubSeq(mine, 1, Len(mine)) = SubSeq(yours, 1, Len(mine)) /\ IsPrefix(mine, yours)
  BY DEF IsPrefix
<1> DEFINE S == {T, x, y}
<1> HIDE DEF mine, yours
<1>7. x # T
  BY <1>1, <1>2, <1>3
<1>8. CASE a = b
  <2>1. mine \in Seq(S) /\ yours \in Seq(S) /\ Len(mine) = Len(yours)
    <3>1. T \in S /\ x \in S /\ y \in S
      OBVIOUS
    <3> HIDE DEF S
    <3> QED
      BY <1>5, <1>8, <3>1, ShortSeqs
  <2> HIDE DEF S
  <2>2. mine = yours
    BY <1>6, <2>1, FullPrefix
  <2> QED
    BY <2>2 DEF mine, yours
<1>10. CASE a /\ ~b
  BY <1>5, <1>6, <1>10
<1>11. CASE ~a /\ b
  BY <1>5, <1>6, <1>7, <1>11
<1> QED
  BY <1>8, <1>10, <1>11 DEF mine, yours

LEMMA ProfileSoundIs ==
  ASSUME Sound(setup)
  PROVE  ProfileSound
<1>1. ASSUME setup.stage = "unlinkable"
      PROVE  \A c \in setup.query.refusals :
               LET p == setup.profile
                   none(r) == ~\E k \in DOMAIN LinkTable(c.triple) : r \subseteq {LinkTable(c.triple)[k].runtime}
               IN  CASE c.linking.refusal = "no_loader" -> ~spn_triple_dynamic(c.triple)
                     [] c.linking.refusal = "os_libc" -> p.libc = "static"
                     [] c.linking.refusal = "os_runtime" -> p.runtime = "static" /\ none({"static"})
                     [] c.linking.refusal = "shared_runtime" -> p.libc = "static" /\ p.runtime = "shared"
                     [] c.linking.refusal = "hybrid_crt" -> {p.libc, p.runtime} = {"static", "shared"}
                     [] c.linking.refusal = "shared_deps" -> p.libc = "static" /\ p.linkage = "shared"
  <2>1. \A c \in setup.query.refusals : Reason(c.triple, c.linking.refusal, setup.profile)
    BY <1>1 DEF Sound
  <2> QED
    BY <2>1, Zenon DEF Reason
<1>2. ASSUME setup.stage = "ready", setup.profile.os # "wasi"
      PROVE  \A n \in {n \in Names : name_ok(n)}, b \in BOOLEAN :
               LET mine == spn_profile_build_dir(setup.name, setup.targeted, setup.result.row.triple)
                   other == spn_profile_build_dir(n, b, setup.result.row.triple)
               IN  IsPrefix(mine, other) => mine = other
  <2> DEFINE t == setup.result.row.triple
  <2>1. Ready(setup) /\ Given(setup)
    BY <1>2 DEF Sound
  <2>2. Real(t) /\ name_ok(setup.name)
    BY <1>2, <2>1 DEF Ready, Origin, Wished
  <2>3. t.arch \in Arches /\ t.abi \in Abis
    BY <2>2 DEF Real, Oses, Arches, Abis, spn_os_archs, os_abis, ToSet
  <2>4. PICK W : setup.name \in Seq(W) /\ setup.targeted \in BOOLEAN
    BY <2>1 DEF Given
  <2>5. \A n \in Names : n \in Seq(Seq(STRING))
    BY ProfilesAssumption DEF ProfilesAssumption
  <2> HIDE DEF t
  <2>6. ASSUME NEW n \in Names, name_ok(n), NEW b \in BOOLEAN,
               IsPrefix(spn_profile_build_dir(setup.name, setup.targeted, t), spn_profile_build_dir(n, b, t))
        PROVE  spn_profile_build_dir(setup.name, setup.targeted, t) = spn_profile_build_dir(n, b, t)
    BY <2>2, <2>3, <2>4, <2>5, <2>6, BuildDirs
  <2> QED
    BY <2>6 DEF t
<1> QED
  BY <1>1, <1>2, ReadyParts, Zenon DEF ProfileSound

(* Whatever the layers of a profile, the host, the kits and the declared   *)
(* toolchains: a profile that is ready has a toolchain with a row of a     *)
(* real triple that its driver can link with the kit it needs, every wish  *)
(* of the layers is met, a refusal to link is true of the target, and no   *)
(* build directory lies inside another's (profile.c, select.c, linker.c).  *)
THEOREM ProfileSoundHolds == SetupSpec => []ProfileSound
<1>1. SetupInit => Sound(setup)
  BY SetupInitSound
<1>2. Sound(setup) /\ [SetupNext]_setup => Sound(setup)'
  BY SetupStepSound
<1>3. Sound(setup) => ProfileSound
  BY ProfileSoundIs
<1> QED
  BY <1>1, <1>2, <1>3, PTL DEF SetupSpec
=============================================================================
