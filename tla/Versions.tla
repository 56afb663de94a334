------------------------------ MODULE Versions ------------------------------
(***************************************************************************)
(* Version requirements (core/semver) and the lock file (core/lock,        *)
(* core/project/project.c).  A text is a sequence of characters; numbers   *)
(* are written in base Base, and a component holds 0..Base - 1 and wraps   *)
(* (for 2^32: u32 arithmetic).  A version is <<major, minor, patch>>.      *)
(***************************************************************************)
EXTENDS Naturals, Sequences, SequencesExt, FiniteSets

CONSTANTS
  Base,      \* values of a component
  Texts,     \* requirements a manifest may hold
  Resolves   \* resolved package sets: sets of [name, version, source, deps, git, paths]

VARIABLES
  text,   \* the requirement under the parser
  lock    \* [resolve, file, loaded]

versionVars == <<text, lock>>
ASSUME BaseAssumption == Base \in 2..5

-----------------------------------------------------------------------------
Digit == <<"0", "1", "2", "3", "4">>
Digits == {Digit[i] : i \in 1..Base}
ValueOf(c) == CHOOSE n \in 0..(Base - 1) : Digit[n + 1] = c
Wraps(n) == n % Base
Top == Base - 1
TopVersion == <<Top, Top, Top>>
Zero == <<0, 0, 0>>
AllVersions == (0..Top) \X (0..Top) \X (0..Top)

spn_semver_le(v, w) == \E i \in 1..3 : v[i] < w[i] /\ \A j \in 1..(i - 1) : v[j] = w[j]
spn_semver_leq(v, w) == v = w \/ spn_semver_le(v, w)
spn_semver_satisfies(v, w, op) ==
  CASE op = "=" -> v = w [] op = "<" -> spn_semver_le(v, w) [] op = "<=" -> spn_semver_leq(v, w) [] op = ">" -> spn_semver_le(w, v) [] op = ">=" -> spn_semver_leq(w, v)
spn_semver_in_range(v, r) == spn_semver_satisfies(v, r.low.version, r.low.op) /\ spn_semver_satisfies(v, r.high.version, r.high.op)

-----------------------------------------------------------------------------
(* Ranges: [mod, low, high].  What is parsed is the sequence of components *)
(* that were given.                                                        *)
Bound(op, v) == [op |-> op, version |-> v]
Range2(mod, low, high) == [mod |-> mod, low |-> low, high |-> high]
Padded(p) == [i \in 1..3 |-> IF i <= Len(p) THEN p[i] ELSE 0]
(* The first version with a larger component i.                            *)
Beyond(v, i) == [j \in 1..3 |-> IF j < i THEN v[j] ELSE IF j = i THEN Wraps(v[j] + 1) ELSE 0]
HalfOpen(mod, v, i) == Range2(mod, Bound(">=", v), Bound("<", Beyond(v, i)))

spn_semver_caret_to_range(p) == LET v == Padded(p) IN HalfOpen("^", v, IF v[1] > 0 THEN 1 ELSE IF v[2] > 0 THEN 2 ELSE 3)
spn_semver_tilde_to_range(p) == HalfOpen("~", Padded(p), IF Len(p) >= 2 THEN 2 ELSE 1)
spn_semver_wildcard_to_range(p) ==
  CASE Len(p) = 0 -> Range2("*", Bound(">=", Zero), Bound("<", TopVersion))
    [] Len(p) = 1 -> HalfOpen("*", Padded(p), 1) [] OTHER -> HalfOpen("*", <<p[1], p[2], 0>>, 2)
spn_semver_comparison_to_range(op, v) ==
  CASE op = "=" -> Range2("cmp", Bound(">=", v), Bound("<=", v))
    [] op \in {">", ">="} -> Range2("cmp", Bound(op, v), Bound("<=", TopVersion))
    [] op \in {"<", "<="} -> Range2("cmp", Bound(">=", Zero), Bound(op, v))

(* Parsing: what is left of the text goes from one operator to the next.   *)
Peek(s) == IF s = <<>> THEN "" ELSE s[1]
Remainder(s) == SubSeq(s, 2, Len(s))
Run(s, chars) == LET stops == {i \in DOMAIN s : s[i] \notin chars} IN IF stops = {} THEN Len(s) ELSE (CHOOSE i \in stops : \A j \in stops : i <= j) - 1
spn_semver_parser_eat_whitespace(s) == SubSeq(s, Run(s, {" "}) + 1, Len(s))
(* spn_semver_parser_parse_number.                                         *)
Number(s) == LET n == Run(s, Digits)
             IN  [some |-> n > 0, value |-> FoldLeft(LAMBDA acc, c : Wraps(acc * Base + ValueOf(c)), 0, SubSeq(s, 1, n)), rest |-> SubSeq(s, n + 1, Len(s))]
BadRange == [ok |-> FALSE]
(* One component more, after the ones there are.                           *)
Component(acc, wild) ==
  IF ~acc.ok \/ acc.done THEN acc
  ELSE LET first == acc.parts = <<>>
           s == IF first THEN acc.rest ELSE Remainder(acc.rest)
       IN  IF ~first /\ Peek(acc.rest) # "." THEN [acc EXCEPT !.done = TRUE]
           ELSE IF ~first /\ wild /\ Peek(s) = "*" THEN [acc EXCEPT !.done = TRUE, !.wildcard = TRUE, !.rest = Remainder(s)]
           ELSE IF ~Number(s).some THEN BadRange
           ELSE [acc EXCEPT !.parts = Append(@, Number(s).value), !.rest = Number(s).rest]
spn_semver_parse_version(s, wild) == FoldLeft(LAMBDA acc, i : Component(acc, wild), [ok |-> TRUE, done |-> FALSE, parts |-> <<>>, wildcard |-> FALSE, rest |-> s], <<1, 2, 3>>)
spn_semver_parse_range(t) ==
  LET s == spn_semver_parser_eat_whitespace(t)
      c == Peek(s)
      orEqual == c \in {"<", ">"} /\ Peek(Remainder(s)) = "="
      op == IF ~orEqual THEN c ELSE IF c = "<" THEN "<=" ELSE ">="
      operand == spn_semver_parser_eat_whitespace(IF orEqual THEN Remainder(Remainder(s)) ELSE Remainder(s))
      v == IF c \in Digits THEN spn_semver_parse_version(s, TRUE) ELSE spn_semver_parse_version(operand, FALSE)
      ends(rest, range) == IF spn_semver_parser_eat_whitespace(rest) = <<>> THEN [ok |-> TRUE, range |-> range] ELSE BadRange
  IN  CASE c = "*" -> ends(Remainder(s), spn_semver_wildcard_to_range(<<>>))
        [] c \notin {"*", "^", "~", "<", ">", "="} \cup Digits -> BadRange
        [] OTHER -> IF ~v.ok THEN BadRange
                    ELSE ends(v.rest, CASE c = "^" -> spn_semver_caret_to_range(v.parts) [] c = "~" -> spn_semver_tilde_to_range(v.parts)
                                        [] c \in {"<", ">", "="} -> spn_semver_comparison_to_range(op, Padded(v.parts))
                                        [] c \in Digits -> IF v.wildcard THEN spn_semver_wildcard_to_range(v.parts) ELSE spn_semver_caret_to_range(v.parts))

(* Rendering.                                                              *)
Char(n) == <<Digit[n + 1]>>
spn_semver_to_str(v) == Char(v[1]) \o <<".">> \o Char(v[2]) \o <<".">> \o Char(v[3])
spn_semver_op_to_str(op) == CASE op = "<=" -> <<"<", "=">> [] op = ">=" -> <<">", "=">> [] OTHER -> <<op>>
WholeMajor(r) == r.low.version[2] = 0 /\ r.low.version[3] = 0 /\ r.high.version[1] = Wraps(r.low.version[1] + 1)
(* As spn_semver_range_to_str, from the low bound alone: for a mutant.     *)
LowBound(r) == (IF r.mod = "cmp" THEN spn_semver_op_to_str(r.low.op) ELSE <<r.mod>>) \o spn_semver_to_str(r.low.version)
spn_semver_range_to_str(r) ==
  LET low == r.low.version
      high == r.high.version
  IN  CASE r.mod = "cmp" /\ low = high -> <<"=">> \o spn_semver_to_str(low)
        [] r.mod = "cmp" /\ low # high -> IF low = Zero /\ r.low.op = ">=" THEN spn_semver_op_to_str(r.high.op) \o spn_semver_to_str(high)
                                          ELSE spn_semver_op_to_str(r.low.op) \o spn_semver_to_str(low)
        [] r.mod = "*" -> IF low = Zero /\ high = TopVersion THEN <<"*">> ELSE IF WholeMajor(r) THEN Char(low[1]) \o <<".", "*">>
                          ELSE Char(low[1]) \o <<".">> \o Char(low[2]) \o <<".", "*">>
        [] r.mod = "~" -> IF WholeMajor(r) THEN <<"~">> \o Char(low[1]) ELSE <<"~">> \o spn_semver_to_str(low)
        [] r.mod = "^" -> <<"^">> \o spn_semver_to_str(low)

(* spn_semver_from_str takes what it can; spn_semver_parse wants the       *)
(* canonical form.                                                         *)
spn_semver_parser_parse(s) ==
  LET major == Number(s)
      minor == Number(Remainder(major.rest))
      patch == Number(Remainder(minor.rest))
  IN  CASE Peek(major.rest) # "." -> <<major.value, 0, 0>>
        [] Peek(major.rest) = "." /\ Peek(minor.rest) # "." -> <<major.value, minor.value, 0>> [] OTHER -> <<major.value, minor.value, patch.value>>
spn_semver_parse(s) == s # <<>> /\ s = spn_semver_to_str(spn_semver_parser_parse(s))

-----------------------------------------------------------------------------
(* The lock file.  Entries are keyed by name; of two packages of a name    *)
(* one is kept, which one is the hash table's choice.                      *)
Named2(resolve) == {p \in resolve : p.source # "root"}
spn_build_lock_file(resolve) ==
  {pick \in [{p.name : p \in Named2(resolve)} -> Named2(resolve)] : \A n \in DOMAIN pick : pick[n].name = n}
Entry(p) ==
  [name |-> p.name, version |-> p.version, kind |-> p.source, deps |-> p.deps, git |-> IF p.source = "index" THEN p.git ELSE [url |-> "", rev |-> "", dir |-> ""],
   manifest_file |-> IF p.source = "index" THEN p.manifest_file ELSE ""]
(* spn_lock_file_to_str: empty fields are left out, those of a source      *)
(* without a url too.                                                      *)
Written(e) ==
  LET fields == {"name", "version", "kind"} \cup (IF e.git.url # "" THEN {"source_url", "source_rev"} \cup (IF e.git.dir # "" THEN {"source_dir"} ELSE {}) ELSE {})
                  \cup (IF e.manifest_file # "" THEN {"manifest_file"} ELSE {}) \cup (IF e.deps # {} THEN {"deps"} ELSE {})
      value(f) == CASE f = "source_url" -> e.git.url [] f = "source_rev" -> e.git.rev [] f = "source_dir" -> e.git.dir
                    [] f = "version" -> spn_semver_to_str(e.version) [] OTHER -> e[f]
  IN  [f \in fields |-> value(f)]
(* spn_lock_file_parse.                                                    *)
Field(t, f, default) == IF f \in DOMAIN t THEN t[f] ELSE default
Read(t) ==
  [name |-> t.name, version |-> spn_semver_parser_parse(t.version), kind |-> t.kind, deps |-> Field(t, "deps", {}),
   git |-> [url |-> Field(t, "source_url", ""), rev |-> Field(t, "source_rev", ""), dir |-> Field(t, "source_dir", "")],
   manifest_file |-> Field(t, "manifest_file", "spn.toml")]
spn_lock_build_dependents(entries) == [e \in entries |-> {d.name : d \in {x \in entries : e.name \in x.deps}}]

VersionInit == text \in Texts \cup {<<>>} /\ lock = [resolve |-> {}, file |-> {}, loaded |-> {}, dependents |-> <<>>]
(* spn_project_update_lock: the file is replaced as a whole, or stays.     *)
UpdateLock ==
  /\ text = <<>> /\ \E resolve \in Resolves : \E entries \in spn_build_lock_file(resolve) :
       \/ lock' = [lock EXCEPT !.resolve = resolve, !.file = {Written(Entry(entries[n])) : n \in DOMAIN entries}]
       \/ lock' = lock
  /\ UNCHANGED text
(* spn_lock_file_load: a file that does not parse reads as empty.          *)
LoadLock ==
  /\ text = <<>> /\ \E readable \in BOOLEAN :
       LET entries == IF readable THEN {Read(t) : t \in lock.file} ELSE {}
       IN  lock' = [lock EXCEPT !.loaded = entries, !.dependents = spn_lock_build_dependents(entries)]
  /\ UNCHANGED text
VersionNext == UpdateLock \/ LoadLock

-----------------------------------------------------------------------------
(* What a requirement means, from the versions that agree with it.         *)
Agree(v, w, n) == \A i \in 1..n : v[i] = w[i]
Leading(v) == IF v = Zero THEN 3 ELSE CHOOSE i \in 1..3 : v[i] > 0 /\ \A j \in 1..(i - 1) : v[j] = 0
Least(n, m) == IF n < m THEN n ELSE m
Meaning(mod, op, p, v) ==
  LET w == Padded(p)
  IN  CASE mod = "^" -> spn_semver_leq(w, v) /\ Agree(v, w, Leading(w)) [] mod = "~" -> spn_semver_leq(w, v) /\ Agree(v, w, Least(Len(p), 2))
        [] mod = "*" -> Agree(v, w, Len(p)) [] mod = "cmp" -> spn_semver_satisfies(v, w, op)
(* The parts of a well-formed text, read without the parser: the runs of   *)
(* digits, each by its value modulo Base, since a number too large for a   *)
(* component is not refused.                                               *)
Starts == {i \in DOMAIN text : text[i] \in Digits /\ (i = 1 \/ text[i - 1] \notin Digits)}
Value(i) == FoldLeft(LAMBDA acc, c : acc * Base + ValueOf(c), 0, SubSeq(text, i, i + Run(SubSeq(text, i, Len(text)), Digits) - 1))
Parts == LET starts == SetToSortSeq(Starts, <) IN [k \in DOMAIN starts |-> Wraps(Value(starts[k]))]
Mod == IF "*" \in ToSet(text) THEN "*" ELSE IF "~" \in ToSet(text) THEN "~" ELSE IF {"<", ">", "="} \cap ToSet(text) # {} THEN "cmp" ELSE "^"
Op == CASE {"<", "="} \subseteq ToSet(text) -> "<=" [] {">", "="} \subseteq ToSet(text) -> ">=" [] ToSet(text) \cap {"<", ">", "="} = {} -> "none"
        [] OTHER -> CHOOSE c \in {"<", ">", "="} : c \in ToSet(text)

Admitted(r) == {v \in AllVersions : spn_semver_in_range(v, r)}
RangesSound ==
  LET parsed == spn_semver_parse_range(text)
      again == spn_semver_parse_range(spn_semver_range_to_str(parsed.range))
  IN  /\ parsed.ok =>
           LET meant == {v \in AllVersions : Meaning(Mod, Op, Parts, v)}
           IN  /\ Admitted(parsed.range) \subseteq meant
               /\ (\A i \in DOMAIN Parts : Parts[i] < Top) => meant \ {TopVersion} \subseteq Admitted(parsed.range)
      /\ parsed.ok /\ Admitted(parsed.range) # {} => again.ok /\ Admitted(again.range) = Admitted(parsed.range)
      /\ spn_semver_parse(text) => \A v \in AllVersions : spn_semver_to_str(v) = text <=> v = spn_semver_parser_parse(text)
LockSound ==
  /\ \A t \in lock.file : \E p \in lock.resolve :
       LET e == Read(t) IN e.name = p.name /\ e.version = p.version /\ e.deps = p.deps /\ (p.source = "index" => e.git = p.git)
  /\ \A p \in lock.resolve : p.source = "root" \/ Cardinality({t \in lock.file : t.name = p.name}) = 1
  /\ \A e, d \in lock.loaded : d.name \in e.deps <=> e.name \in lock.dependents[d]

(* A requirement that parses admits only versions it means, with each      *)
(* component taken modulo Base (^4294967297 is read as ^1: the parser does *)
(* not look for overflow), and all of them unless a component so taken is  *)
(* the largest there is; written out and read back it admits the same      *)
(* versions, if it admits any; a version text is accepted in one spelling. *)
(* A lock file read back has an entry for each name that was resolved, of a*)
(* version, a commit and dependencies that were resolved together, and its *)
(* dependents are the dependencies turned around.                          *)
VersionsSound == RangesSound /\ LockSound
=============================================================================
