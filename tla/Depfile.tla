------------------------------- MODULE Depfile -------------------------------
(***************************************************************************)
(* Text exchanged with the compilers: the reader of the dependency files   *)
(* they write (core/compiler/occ.c) and the writer of the response files   *)
(* they read (core/compiler/rsp.c).  Texts are sequences of characters.    *)
(***************************************************************************)
EXTENDS Naturals, Sequences, SequencesExt, FiniteSetsExt

CONSTANTS
  Headers,    \* names of headers
  MaxPath,   \* SP_PATH_MAX
  Words      \* arguments of a response file

VARIABLE dep   \* [text, n, stage, name, prereqs, err, done, names]: the parser, and the names written

-----------------------------------------------------------------------------
(* What gcc and clang write: target, colon, names; a blank in a name takes *)
(* a backslash and doubles those before it, # takes one, $ is doubled (or, *)
(* in the style of nmake, such a name is quoted); a rule of its own follows*)
(* for each header where phony targets are asked.  A line may be continued *)
(* right after a name, as make allows (after the colon a backslash would be*)
(* taken for a path's, so a blank stands there).                           *)
Slashes(n) == [i \in 1..n |-> "\\"]
Munge(name) ==
  LET step(acc, c) ==
        CASE c = " " -> [text |-> acc.text \o Slashes(acc.run + 1) \o <<" ">>, run |-> 0]
          [] c = "#" -> [text |-> acc.text \o <<"\\", "#">>, run |-> 0]
          [] c = "$" -> [text |-> acc.text \o <<"$", "$">>, run |-> 0]
          [] c = "\\" -> [text |-> Append(acc.text, c), run |-> acc.run + 1]
          [] OTHER -> [text |-> Append(acc.text, c), run |-> 0]
  IN  FoldLeft(step, [text |-> <<>>, run |-> 0], name).text
HeaderText(name, nmake) == IF nmake /\ \E i \in DOMAIN name : name[i] \in {" ", "#", "$"} THEN <<"\"">> \o name \o <<"\"">> ELSE Munge(name)
Break == {<<" ">>, <<"\\", "\n", " ">>, <<" ", "\\", "\n", " ">>, <<" ", "\\", "\r", "\n", " ">>}
Rule(names, brk, nmake) == <<"o", ":", " ">> \o FoldLeft(LAMBDA acc, n : acc \o brk \o HeaderText(n, nmake), <<>>, names) \o <<"\n">>
Phony(names) == FoldLeft(LAMBDA acc, n : acc \o Munge(n) \o <<":", "\n">>, <<>>, names)

-----------------------------------------------------------------------------
(* The parser (occ.c).  occ_look past the end reads as NUL.                *)
NUL == ""
occ_look(ahead) == IF dep.n + ahead \in DOMAIN dep.text THEN dep.text[dep.n + ahead] ELSE NUL
occ_peek == occ_look(0)
occ_is_done == dep.n \notin DOMAIN dep.text
occ_is_eol(c) == c \in {"\r", "\n"}
occ_is_hspace(c) == c \in {" ", "\t"}
occ_match_eol == occ_is_done \/ occ_is_eol(occ_peek)
occ_match_whitespace == occ_match_eol \/ occ_is_hspace(occ_peek)
After(n, P(_)) == Min({k \in n..(Len(dep.text) + 1) : k \notin DOMAIN dep.text \/ ~P(dep.text[k])})
occ_eat_hspace(n) == After(n, occ_is_hspace)
occ_eat_whitespace(n) == After(n, LAMBDA c : occ_is_hspace(c) \/ occ_is_eol(c))

(* The first colon of the line that no separator follows; 0: there is none.*)
occ_parse_target(n) ==
  LET line == n..(After(n, LAMBDA c : ~occ_is_eol(c)) - 1)
      colons == {k \in line : dep.text[k] = ":" /\ ~(k + 1 \in DOMAIN dep.text /\ dep.text[k + 1] \in {"/", "\\"})}
  IN  IF colons = {} THEN 0 ELSE Min(colons) + 1

(* As Escaped below, with every backslash before a blank kept: for a       *)
(* mutant.                                                                 *)
KeptSlashes(slashes, next) ==
  CASE next \in {" ", "\t"} -> [skip |-> slashes + 1, push |-> Slashes(slashes) \o <<next>>]
    [] next = "#" -> [skip |-> slashes + 1, push |-> Slashes(slashes - 1) \o <<"#">>]
    [] OTHER -> [skip |-> 1, push |-> <<"\\">>]
Escaped(slashes, next) ==
  CASE next \in {" ", "\t"} -> [skip |-> slashes + 1, push |-> Slashes(slashes \div 2) \o <<next>>]
    [] next = "#" -> [skip |-> slashes + 1, push |-> Slashes(slashes - 1) \o <<"#">>]
    [] OTHER -> [skip |-> 1, push |-> <<"\\">>]

Fail(err) == dep' = [dep EXCEPT !.err = err, !.done = TRUE]
Finish == dep' = [dep EXCEPT !.done = TRUE]
DepInit ==
  \E names \in {<<>>} \cup {<<a>> : a \in Headers} \cup (Headers \X Headers), brk \in Break, phony, cut, nmake \in BOOLEAN :
    LET text == Rule(names, brk, nmake) \o (IF phony THEN <<"\n">> \o Phony(names) ELSE <<>>)
    IN  dep = [text |-> IF cut THEN Front(text) ELSE text, n |-> 1, stage |-> "target", name |-> <<>>, prereqs |-> <<>>, err |-> "none",
               done |-> FALSE, names |-> names]
occ_init ==
  /\ ~dep.done /\ dep.stage = "target"
  /\ LET n == occ_eat_whitespace(dep.n)
         t == occ_parse_target(n)
     IN  IF n \notin DOMAIN dep.text THEN Finish
         ELSE IF t = 0 THEN Fail("missing_colon") ELSE dep' = [dep EXCEPT !.n = t, !.stage = "seek"]
(* One turn of the loop of occ_seek.                                       *)
occ_seek ==
  /\ ~dep.done /\ dep.stage = "seek"
  /\ LET n == occ_eat_hspace(dep.n)
         at(k) == IF n + k \in DOMAIN dep.text THEN dep.text[n + k] ELSE NUL
     IN  CASE at(0) = NUL -> Finish
           [] occ_is_eol(at(0)) -> LET m == occ_eat_whitespace(n) IN
                IF m \notin DOMAIN dep.text THEN Finish
                ELSE IF occ_parse_target(m) = 0 THEN Fail("missing_colon") ELSE dep' = [dep EXCEPT !.n = occ_parse_target(m)]
           [] at(0) = "\\" /\ at(1) = NUL -> Finish
           [] at(0) = "\\" /\ at(1) = "\n" -> dep' = [dep EXCEPT !.n = n + 2]
           [] at(0) = "\\" /\ at(1) = "\r" -> IF at(2) = "\n" THEN dep' = [dep EXCEPT !.n = n + 3] ELSE Fail("bad_continuation")
           [] OTHER -> dep' = [dep EXCEPT !.n = n, !.stage = "name", !.name = <<>>]
(* occ_push for one construct of a name; the name ends at blank space.     *)
Push(chars, n) ==
  IF Len(dep.name) + Len(chars) > MaxPath THEN Fail("prereq_too_long") ELSE dep' = [dep EXCEPT !.name = @ \o chars, !.n = n]
EndName(name, n) == dep' = [dep EXCEPT !.stage = "seek", !.n = n, !.name = <<>>, !.prereqs = Append(@, name)]
occ_parse_quoted ==
  /\ ~dep.done /\ dep.stage = "name" /\ dep.name = <<>> /\ occ_peek = "\""
  /\ LET close == After(dep.n + 1, LAMBDA c : ~occ_is_eol(c) /\ c # "\"")
     IN  CASE close \notin DOMAIN dep.text \/ dep.text[close] # "\"" -> Fail("unterminated_quote")
           [] OTHER -> IF close - dep.n - 1 > MaxPath THEN Fail("prereq_too_long") ELSE EndName(SubSeq(dep.text, dep.n + 1, close - 1), close + 1)
occ_parse_one ==
  /\ ~dep.done /\ dep.stage = "name" /\ ~(dep.name = <<>> /\ occ_peek = "\"")
  /\ LET slashes == After(dep.n, LAMBDA c : c = "\\") - dep.n
         next == occ_look(slashes)
     IN  CASE occ_match_whitespace -> EndName(dep.name, dep.n)
           [] occ_peek = "\\" /\ next = NUL -> EndName(dep.name \o Slashes(slashes - 1), dep.n + slashes)
           [] occ_peek = "\\" /\ occ_is_eol(next) -> EndName(dep.name \o Slashes(slashes - 1), dep.n + slashes - 1)
           [] occ_peek = "\\" /\ ~occ_is_eol(next) /\ next # NUL -> LET e == Escaped(slashes, next) IN Push(e.push, dep.n + e.skip)
           [] occ_peek = "$" /\ occ_look(1) = "$" -> Push(<<"$">>, dep.n + 2)
           [] OTHER -> Push(<<occ_peek>>, dep.n + 1)
DepNext == occ_init \/ occ_seek \/ occ_parse_quoted \/ occ_parse_one

-----------------------------------------------------------------------------
(* Response files.  An argument is quoted in the style of the driver.      *)
needs_quotes(gnu, arg) ==
  arg = <<>> \/ arg[1] = "#" \/ \E i \in DOMAIN arg : arg[i] \in {" ", "\t", "\n", "\r", "\"", "'"} \/ (gnu /\ arg[i] = "\\")
write_quoted_windows(arg) ==
  LET step(acc, c) ==
        CASE c = "\\" -> [acc EXCEPT !.run = @ + 1]
          [] c = "\"" -> [text |-> acc.text \o Slashes(2 * acc.run + 1) \o <<c>>, run |-> 0]
          [] OTHER -> [text |-> acc.text \o Slashes(acc.run) \o <<c>>, run |-> 0]
      all == FoldLeft(step, [text |-> <<"\"">>, run |-> 0], arg)
  IN  all.text \o Slashes(2 * all.run) \o <<"\"">>
write_quoted_gnu(arg) ==
  <<"\"">> \o FoldLeft(LAMBDA acc, c : acc \o (IF c \in {"\\", "\""} THEN <<"\\", c>> ELSE <<c>>), <<>>, arg) \o <<"\"">>
write_arg(gnu, arg) ==
  IF ~needs_quotes(gnu, arg) THEN arg ELSE IF gnu THEN write_quoted_gnu(arg) ELSE write_quoted_windows(arg)
spn_rsp_style(driver) == driver \in {"gcc", "clang"}
spn_rsp_render(gnu, args) == FoldLeft(LAMBDA acc, a : acc \o write_arg(gnu, a) \o <<"\n">>, <<>>, args)

(* How the drivers read such a file: blank space outside quotes ends an    *)
(* argument; for gnu either quotation mark quotes, and a backslash takes   *)
(* the next character as it is; for windows only a run of backslashes      *)
(* before a quote is special.                                              *)
ReadBack(gnu, text) ==
  LET end(acc) == IF acc.open THEN [acc EXCEPT !.args = Append(@, acc.arg), !.arg = <<>>, !.open = FALSE] ELSE acc
      flush(acc) == [acc EXCEPT !.arg = @ \o Slashes(acc.run), !.run = 0, !.open = @ \/ acc.run > 0]
      quote(acc) == LET half == [acc EXCEPT !.arg = @ \o Slashes(acc.run \div 2), !.run = 0, !.open = TRUE]
                    IN  IF acc.run % 2 = 1 THEN [half EXCEPT !.arg = Append(@, "\"")] ELSE [half EXCEPT !.quoted = ~@]
      plain(acc, c) == IF c \in {" ", "\t", "\n", "\r"} /\ ~acc.quoted THEN end(acc) ELSE [acc EXCEPT !.arg = Append(@, c), !.open = TRUE]
      gnuStep(acc, c) ==
        CASE acc.run = 1 -> [acc EXCEPT !.arg = Append(@, c), !.run = 0, !.open = TRUE]
          [] acc.run = 0 /\ c = "\\" -> [acc EXCEPT !.run = 1]
          [] acc.run = 0 /\ c \in {"\"", "'"} /\ acc.mark \in {"", c} -> [acc EXCEPT !.mark = IF acc.quoted THEN "" ELSE c, !.quoted = ~@, !.open = TRUE]
          [] OTHER -> plain(acc, c)
      winStep(acc, c) == CASE c = "\\" -> [acc EXCEPT !.run = @ + 1] [] c = "\"" -> quote(acc) [] OTHER -> plain(flush(acc), c)
      start == [args |-> <<>>, arg |-> <<>>, open |-> FALSE, quoted |-> FALSE, mark |-> "", run |-> 0]
  IN  end(FoldLeft(LAMBDA acc, c : IF gnu THEN gnuStep(acc, c) ELSE winStep(acc, c), start, text)).args

-----------------------------------------------------------------------------
(* The names a compiler writes into a dependency file are the names read:  *)
(* each of them, once per mention and in order, however they are escaped   *)
(* and the lines broken, whether or not the last line is ended, and rules  *)
(* for the headers themselves add none; or the reader says that the file   *)
(* is unreadable, which it does only for a name longer than a path may be. *)
(* Two arguments written to a response file are the two arguments a driver *)
(* of that style reads.                                                    *)
TextSound ==
  /\ dep.done => IF \E i \in DOMAIN dep.names : Len(dep.names[i]) > MaxPath THEN dep.err = "prereq_too_long"
                 ELSE dep.err = "none" /\ dep.prereqs = dep.names
  /\ dep.names = <<>> => 
       \A driver \in {"clang", "zig"}, a \in Words, b \in Words :
         ReadBack(spn_rsp_style(driver), spn_rsp_render(spn_rsp_style(driver), <<a, b>>)) = <<a, b>>
=============================================================================
