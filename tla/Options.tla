------------------------------ MODULE Options ------------------------------
(***************************************************************************)
(* Package options and the conditions ("when" gates) they switch.          *)
(*                                                                         *)
(* An option value is "none", a Boolean ("true" / "false") or one of the   *)
(* strings an enum option lists.  An environment is a function from keys   *)
(* to values; a gate is a set of clauses [key, neg, value], all of which   *)
(* must hold.  A declared option is                                        *)
(*   [name, type, additive, values, defaults]                              *)
(* with defaults a sequence of [when, value].  A package descriptor is     *)
(*   [name, root, options]   (options: sequence of declared options).      *)
(***************************************************************************)
EXTENDS Naturals, Sequences, FiniteSets, TLC

(* The values of SPN_OPTION_VALUE_BOOL and of SPN_OPTION_VALUE_NONE.       *)
BoolValues == {"true", "false"}
None == "none"

(* A gate holds when every clause's key has a value in the environment and *)
(* that value is (or, negated, is not) the clause's.                       *)
spn_when_eval(when, env) ==
  \A c \in when : c.key \in DOMAIN env /\ (env[c.key] = c.value) # c.neg

(* The facts of a profile (os, arch, mode, ...) as an environment.         *)
spn_when_env_from_profile(profile) == profile.facts

(* A value an option accepts.                                              *)
spn_option_value_ok(option, value) ==
  \/ option.type = "bool" /\ value \in BoolValues
  \/ option.type = "enum" /\ value \in option.values

(* The first default whose gate holds.                                     *)
spn_option_resolve(option, env) ==
  LET hits == {i \in DOMAIN option.defaults : spn_when_eval(option.defaults[i].when, env)}
  IN  IF hits = {} THEN None
      ELSE option.defaults[CHOOSE i \in hits : \A j \in hits : i <= j].value

(* What the profile (for the root package) or the root manifest (for every *)
(* other package) sets, and whether the manifest declines its defaults.    *)
(* config maps package names to [kind, options, declined].                 *)
find_set(pkg, profile, config) ==
  LET set == IF pkg.name \in DOMAIN config THEN config[pkg.name].options ELSE {}
  IN  [clauses  |-> IF pkg.root THEN profile.options ELSE set,
       setter   |-> IF pkg.root THEN "profile" ELSE "manifest",
       declined |-> pkg.name \in DOMAIN config /\ config[pkg.name].declined]

(* The claims a setter's clauses make, and what is wrong with the others.  *)
(* Only a consumer's negated clause is kept: it is a veto.                 *)
Declared(pkg) == {pkg.options[i].name : i \in DOMAIN pkg.options}
OptionOf(pkg, key) == pkg.options[CHOOSE i \in DOMAIN pkg.options : pkg.options[i].name = key]

gather_claims(pkg, clauses, setter) ==
  LET known == {c \in clauses : c.key \in Declared(pkg)}
      fine  == {c \in known : spn_option_value_ok(OptionOf(pkg, c.key), c.value)}
  IN  [claims     |-> {[option |-> c.key, setter |-> setter, value |-> c.value, neg |-> c.neg] :
                         c \in {d \in fine : ~d.neg \/ setter = "consumer"}},
       violations |-> {<<"undeclared", c.key>> : c \in clauses \ known}
                      \cup {<<"bad_value", c.key>> : c \in known \ fine}]

(* The value one option settles on.  A root setter decides alone; the      *)
(* consumers of an additive option are or-ed; otherwise the last consumer  *)
(* wins and differing consumers are a conflict.  The consumers come in the *)
(* order of a hash table, so "last" is the value `tie' favours.            *)
SettleOption(option, claims, fallback, tie) ==
  LET mine  == {c \in claims : c.option = option.name /\ ~c.neg}
      fixed == {c.value : c \in {d \in mine : d.setter # "consumer"}}
      asked == {c.value : c \in mine}
      value == CASE fixed # {} -> CHOOSE v \in fixed : TRUE
                 [] fixed = {} /\ asked = {} -> fallback
                 [] fixed = {} /\ asked # {} /\ option.additive ->
                      IF "true" \in asked THEN "true" ELSE "false"
                 [] OTHER -> IF tie \in asked THEN tie ELSE CHOOSE v \in asked : TRUE
      veto  == \E c \in claims : c.option = option.name /\ c.neg /\ c.value = value
  IN  [value |-> value,
       violations |->
         (IF fixed = {} /\ ~option.additive /\ Cardinality(asked) > 1
            THEN {<<"conflict", option.name>>} ELSE {})
         \cup (IF value = None THEN {<<"no_value", option.name>>} ELSE {})
         \cup (IF veto THEN {<<"veto", option.name>>} ELSE {})]

(* One option of a package, under what is settled before it: its default   *)
(* may be gated on an option declared earlier.                             *)
MergeOption(acc, option, claims, declined, tie) ==
  LET Take(fallback, settled) ==
        [env        |-> IF settled.value = None THEN acc.env ELSE (option.name :> settled.value) @@ acc.env,
         options    |-> (option.name :> settled.value) @@ acc.options,
         plain      |-> acc.plain \cup (IF settled.value = fallback THEN {option.name} ELSE {}),
         violations |-> acc.violations \cup settled.violations]
      Settle(default) ==
        LET fallback == IF default = None /\ option.type = "bool" THEN "false" ELSE default
        IN  Take(fallback, SettleOption(option, claims, fallback, tie))
  IN  Settle(IF declined THEN None ELSE spn_option_resolve(option, acc.env))

(* All options of a package, in declaration order.                         *)
(* requests: the set of clause sets the package's consumers ask for.       *)
spn_pkg_options_merge(pkg, profile, config, requests, tie) ==
  LET set    == find_set(pkg, profile, config)
      root   == gather_claims(pkg, set.clauses, set.setter)
      cons   == {gather_claims(pkg, r, "consumer") : r \in requests}
      claims == root.claims \cup UNION {g.claims : g \in cons}
      Merge[i \in 0 .. Len(pkg.options)] ==
        IF i = 0
        THEN [env        |-> spn_when_env_from_profile(profile),
              options    |-> << >>,
              plain      |-> {},          \* the options with is_default set
              violations |-> root.violations \cup UNION {g.violations : g \in cons}]
        ELSE LET before == Merge[i - 1]
             IN  MergeOption(before, pkg.options[i], claims, set.declined, tie)
  IN  Merge[Len(pkg.options)]

(* The profile's facts and the package's settled options, whatever the     *)
(* merge complained of.                                                    *)
spn_pkg_options_env(pkg, profile, config, requests, tie) ==
  LET Valued(merged) == [o \in {x \in DOMAIN merged : merged[x] # None} |-> merged[o]]
  IN  Valued(spn_pkg_options_merge(pkg, profile, config, requests, tie).options)
        @@ spn_when_env_from_profile(profile)

-----------------------------------------------------------------------------
(* The kind of library a target is built as: what the root manifest asks   *)
(* for, if the target supports it, or else the cheapest kind the profile's *)
(* linkage allows ("shared" also stands for a profile without linkage).    *)
NoKind == "none"

select_first_supported(supported, order) ==
  LET hits == {i \in DOMAIN order : order[i] \in supported}
  IN  IF hits = {} THEN NoKind ELSE order[CHOOSE i \in hits : \A j \in hits : i <= j]

spn_target_select_lib_kind(supported, name, profile, config) ==
  IF name \in DOMAIN config /\ config[name].kind # NoKind
  THEN IF config[name].kind \in supported THEN config[name].kind ELSE NoKind
  ELSE select_first_supported(supported,
         IF profile.linkage \in {"static", "source"} THEN <<"source", "static">>
         ELSE <<"source", "static", "shared">>)
=============================================================================
