------------------------------ MODULE TomlEdit ------------------------------
(***************************************************************************)
(* `spn add` and the editor of manifests under it (core/op/add.c,          *)
(* core/toml/edit.c).  The manifest is scanned into sections and entries   *)
(* with their positions, a value is set by one splice, everything else is  *)
(* kept.  A document is a sequence of tokens <<class, text>>: punctuation, *)
(* comments and line ends ("p"), bare words ("w") and quoted strings       *)
(* ("s").  Spaces are no tokens.  The inside of a string is modelled apart,*)
(* as a sequence of characters.                                            *)
(***************************************************************************)
EXTENDS Naturals, Sequences, SequencesExt, FiniteSets

CONSTANTS
  Lines,     \* lines a manifest may be made of
  MaxLines,  \* how many, at most
  AddNames,  \* names `spn add` may be given
  Releases,  \* canonical name -> the index's releases, oldest first: [version, yanked]
  Ranges,    \* version text -> the versions it admits; a text that does not parse is not in it
  Adds,      \* how many times `spn add` is run, at most
  Chars,     \* characters of a string: "q" the quote, "b" the backslash, "nl" the line end, others stand for themselves
  MaxChars   \* the length of a string, at most

VARIABLES doc, addition   \* the manifest; the last addition, [name, path, value, err, before, count]
tomlVars == <<doc, addition>>

-----------------------------------------------------------------------------
P(x) == <<"p", x>>
W(x) == <<"w", x>>
S(x) == <<"s", x>>
Nl == P("nl")
Comment == P("#")

spn_toml_edit_peek(d, i) == IF i <= Len(d) THEN d[i] ELSE P("end")
spn_toml_edit_skip_blank(d, i) == LET on == {j \in i..(Len(d) + 1) : spn_toml_edit_peek(d, j) # Nl} IN CHOOSE j \in on : \A k \in on : j <= k
Skip(d, i, token) == IF spn_toml_edit_peek(d, i) = token THEN i + 1 ELSE i

(* Scanners give [ok, at, ...]: at is where the scanner stopped.           *)
Bad == [ok |-> FALSE]
spn_toml_edit_skip_line_end(d, i) ==
  LET j == Skip(d, i, Comment)
  IN  CASE j > Len(d) -> [ok |-> TRUE, at |-> j] [] spn_toml_edit_peek(d, j) = Nl -> [ok |-> TRUE, at |-> j + 1] [] OTHER -> Bad

RECURSIVE spn_toml_edit_parse_key(_, _)
spn_toml_edit_parse_key(d, i) ==
  IF spn_toml_edit_peek(d, i)[1] \notin {"w", "s"} THEN Bad
  ELSE IF spn_toml_edit_peek(d, i + 1) # P(".") THEN [ok |-> TRUE, at |-> i + 1, path |-> <<d[i][2]>>]
  ELSE LET rest == spn_toml_edit_parse_key(d, i + 2)
       IN  IF rest.ok THEN [rest EXCEPT !.path = <<d[i][2]>> \o @] ELSE Bad

RECURSIVE spn_toml_edit_scan_array(_, _, _)
spn_toml_edit_scan_array(d, i, depth) ==
  LET t == spn_toml_edit_peek(d, i)
      deeper == IF t = P("[") THEN depth + 1 ELSE IF t = P("]") THEN depth - 1 ELSE depth
  IN  CASE i > Len(d) -> Bad
        [] i <= Len(d) /\ t = P("]") /\ deeper = 0 -> [ok |-> TRUE, at |-> i + 1]
        [] OTHER -> spn_toml_edit_scan_array(d, i + 1, deeper)

(* A pair is an entry: [path, kind, key, value, to, entries], its value    *)
(* from position value up to, not including, position to.                  *)
RECURSIVE spn_toml_edit_scan_pair(_, _, _), spn_toml_edit_scan_inline_table(_, _, _)
spn_toml_edit_scan_value(d, i, nested) ==
  LET t == spn_toml_edit_peek(d, i)
      stops == {Nl, Comment, P("end")} \cup IF nested THEN {P(","), P("]"), P("}")} ELSE {}
      ends == {j \in i..(Len(d) + 1) : spn_toml_edit_peek(d, j) \in stops}
      end == CHOOSE j \in ends : \A k \in ends : j <= k
      value(r, kind, entries) == IF r.ok THEN [ok |-> TRUE, at |-> r.at, kind |-> kind, entries |-> entries] ELSE Bad
  IN  CASE t[1] = "s" -> [ok |-> TRUE, at |-> i + 1, kind |-> "string", entries |-> <<>>]
        [] t = P("[") -> value(spn_toml_edit_scan_array(d, i, 0), "array", <<>>)
        [] t = P("{") -> LET j == spn_toml_edit_skip_blank(d, i + 1)
                             r == spn_toml_edit_scan_inline_table(d, j, <<>>)
                         IN  IF spn_toml_edit_peek(d, j) = P("}") THEN [ok |-> TRUE, at |-> j + 1, kind |-> "table", entries |-> <<>>]
                             ELSE IF r.ok THEN value(r, "table", r.entries) ELSE Bad
        [] OTHER -> IF end > i THEN [ok |-> TRUE, at |-> end, kind |-> "scalar", entries |-> <<>>] ELSE Bad
spn_toml_edit_scan_pair(d, i, nested) ==
  LET Pair(key, v) == IF ~v.ok THEN Bad
        ELSE [ok |-> TRUE, at |-> v.at, entry |-> [path |-> key.path, kind |-> v.kind, key |-> i, value |-> key.at + 1, to |-> v.at,
                                                   entries |-> v.entries, line_end |-> v.at]]
      After(key) == IF ~key.ok THEN Bad
        ELSE IF spn_toml_edit_peek(d, key.at) # P("=") THEN Bad
        ELSE Pair(key, spn_toml_edit_scan_value(d, key.at + 1, nested))
  IN  After(spn_toml_edit_parse_key(d, i))
spn_toml_edit_scan_inline_table(d, i, entries) ==
  LET sub == spn_toml_edit_scan_pair(d, spn_toml_edit_skip_blank(d, i), TRUE)
      j == spn_toml_edit_skip_blank(d, sub.at)
      t == spn_toml_edit_peek(d, j)
  IN  IF ~sub.ok THEN Bad
      ELSE CASE t = P(",") -> spn_toml_edit_scan_inline_table(d, j + 1, Append(entries, sub.entry))
             [] t = P("}") -> [ok |-> TRUE, at |-> j + 1, entries |-> Append(entries, sub.entry)]
             [] OTHER -> Bad

(* A section is [path, array, content, entries]; the first is the root.    *)
spn_toml_edit_parse_header(d, i) ==
  LET array == spn_toml_edit_peek(d, i + 1) = P("[")
      key == spn_toml_edit_parse_key(d, IF array THEN i + 2 ELSE i + 1)
      close == IF array THEN <<P("]"), P("]")>> ELSE <<P("]")>>
      end == spn_toml_edit_skip_line_end(d, key.at + Len(close))
  IN  IF ~key.ok THEN Bad
      ELSE IF \E k \in DOMAIN close : spn_toml_edit_peek(d, key.at + k - 1) # close[k] THEN Bad
      ELSE IF ~end.ok THEN Bad
      ELSE [ok |-> TRUE, at |-> end.at, section |-> [path |-> key.path, array |-> array, content |-> end.at, entries |-> <<>>]]
spn_toml_edit_parse_entry(d, i) ==
  LET Line(pair, end) == IF end.ok THEN [ok |-> TRUE, at |-> end.at, entry |-> [pair.entry EXCEPT !.line_end = end.at]] ELSE Bad
      After(pair) == IF pair.ok THEN Line(pair, spn_toml_edit_skip_line_end(d, pair.at)) ELSE Bad
  IN  After(spn_toml_edit_scan_pair(d, i, FALSE))

RECURSIVE ParseFrom(_, _, _)
ParseFrom(d, from, sections) ==
  LET i == spn_toml_edit_skip_blank(d, from)
      Header(r) == IF r.ok THEN ParseFrom(d, r.at, Append(sections, r.section)) ELSE Bad
      Entry(r) == IF r.ok THEN ParseFrom(d, r.at, [sections EXCEPT ![Len(sections)].entries = Append(@, r.entry)]) ELSE Bad
  IN  CASE i > Len(d) -> [ok |-> TRUE, sections |-> sections]
        [] spn_toml_edit_peek(d, i) = Comment -> ParseFrom(d, i + 1, sections)
        [] spn_toml_edit_peek(d, i) = P("[") -> Header(spn_toml_edit_parse_header(d, i))
        [] OTHER -> Entry(spn_toml_edit_parse_entry(d, i))
spn_toml_edit_init(d) == ParseFrom(d, 1, <<[path |-> <<>>, array |-> FALSE, content |-> 1, entries |-> <<>>]>>)

-----------------------------------------------------------------------------
Rest(path, n) == SubSeq(path, n + 1, Len(path))
None == [kind |-> "none"]

(* As find_in, for a search that does not enter inline tables: for a       *)
(* mutant.                                                                 *)
FlatFind(entries, path) == LET ok == SelectSeq(entries, LAMBDA e : e.path = path) IN IF ok = <<>> THEN None ELSE ok[1]
RECURSIVE spn_toml_edit_find_in(_, _)
spn_toml_edit_find_in(entries, path) ==
  IF entries = <<>> THEN None
  ELSE LET e == Head(entries)
           sub == spn_toml_edit_find_in(e.entries, Rest(path, Len(e.path)))
       IN  CASE e.path = path -> e
             [] IsStrictPrefix(e.path, path) /\ e.kind = "table" /\ sub.kind # "none" -> sub
             [] OTHER -> spn_toml_edit_find_in(Tail(entries), path)
(* The last section that has the key counts.                               *)
spn_toml_edit_find(sections, path) ==
  LET in(s) == IF IsStrictPrefix(s.path, path) THEN spn_toml_edit_find_in(s.entries, Rest(path, Len(s.path))) ELSE None
      found == SelectSeq([i \in DOMAIN sections |-> in(sections[i])], LAMBDA e : e.kind # "none")
  IN  IF found = <<>> THEN None ELSE Last(found)

RECURSIVE spn_toml_edit_keys_in(_, _)
spn_toml_edit_keys_in(entries, path) ==
  FoldLeft(LAMBDA acc, e : CASE IsStrictPrefix(path, e.path) -> Append(acc, e.path[Len(path) + 1])
                             [] IsPrefix(e.path, path) /\ e.kind = "table" -> acc \o spn_toml_edit_keys_in(e.entries, Rest(path, Len(e.path)))
                             [] OTHER -> acc, <<>>, entries)
(* The keys of a table, wherever they are said; a repeated one does no     *)
(* harm here.                                                              *)
spn_toml_edit_keys(sections, path) ==
  FoldLeft(LAMBDA acc, s : CASE IsStrictPrefix(path, s.path) -> Append(acc, s.path[Len(path) + 1])
                             [] IsPrefix(s.path, path) -> acc \o spn_toml_edit_keys_in(s.entries, Rest(path, Len(s.path)))
                             [] OTHER -> acc, <<>>, sections)

-----------------------------------------------------------------------------
(* Splices, [at, remove, insert].                                          *)
Conflict(a, b) ==
  CASE a.remove > 0 /\ b.remove > 0 -> a.at < b.at + b.remove /\ b.at < a.at + a.remove
    [] a.remove > 0 /\ b.remove = 0 -> b.at > a.at /\ b.at < a.at + a.remove
    [] a.remove = 0 /\ b.remove > 0 -> a.at > b.at /\ a.at < b.at + b.remove
    [] OTHER -> FALSE
spn_toml_edit_splice(splices, s) == IF \E i \in DOMAIN splices : Conflict(s, splices[i]) THEN Bad ELSE [ok |-> TRUE, splices |-> Append(splices, s)]
spn_toml_edit_render(d, splices) ==
  FoldLeft(LAMBDA acc, s : [out |-> acc.out \o SubSeq(d, acc.cursor, s.at - 1) \o s.insert, cursor |-> s.at + s.remove],
           [out |-> <<>>, cursor |-> 1], Append(SortSeq(splices, LAMBDA a, b : a.at < b.at), [at |-> Len(d) + 1, remove |-> 0, insert |-> <<>>])).out

spn_toml_edit_write_key_path(path) ==
  FoldLeft(LAMBDA acc, k : acc \o (IF acc = <<>> THEN <<>> ELSE <<P(".")>>) \o <<IF \E n \in AddNames : n.text = k /\ n.qualified THEN S(k) ELSE W(k)>>, <<>>, path)

(* Where a new key may be written: the section of its table, or one that   *)
(* spells the table with dotted keys, the longest and last such.           *)
spn_toml_edit_find_site(sections, path) ==
  LET table == Front(path)
      exact(s) == s.path = table
      dotted(s) == {i \in DOMAIN s.entries : IsStrictPrefix(Rest(table, Len(s.path)), s.entries[i].path)}
      ok == {i \in DOMAIN sections : /\ ~sections[i].array /\ IsPrefix(sections[i].path, table)
                                     /\ exact(sections[i]) \/ dotted(sections[i]) # {}}
      last == CHOOSE i \in ok : \A j \in ok : Len(sections[j].path) < Len(sections[i].path) \/ (Len(sections[j].path) = Len(sections[i].path) /\ j <= i)
      s == sections[last]
      after == IF exact(s) THEN DOMAIN s.entries ELSE dotted(s)
  IN  IF ok = {} THEN [section |-> FALSE]
      ELSE [section |-> TRUE, matched |-> Len(s.path),
            at |-> IF after = {} THEN s.content ELSE s.entries[CHOOSE i \in after : \A j \in after : j <= i].line_end]

(* spn_toml_edit_set_str: the new document, or Bad.                        *)
spn_toml_edit_set_str(d, sections, path, value) ==
  LET entry == spn_toml_edit_find(sections, path)
      holders == {n \in 1..(Len(path) - 1) : spn_toml_edit_find(sections, SubSeq(path, 1, n)).kind # "none"}
      n == CHOOSE n \in holders : \A m \in holders : m <= n
      holder == spn_toml_edit_find(sections, SubSeq(path, 1, n))
      site == spn_toml_edit_find_site(sections, path)
      blocked == \E i \in DOMAIN sections : sections[i].array /\ sections[i].path = Front(path)
      pair(from) == spn_toml_edit_write_key_path(Rest(path, from)) \o <<P("="), S(value)>>
      (* a line end before, where the text before has none                *)
      fresh(at) == IF at > 1 /\ d[at - 1] # Nl THEN <<Nl>> ELSE <<>>
      put(at, remove, insert) == LET r == spn_toml_edit_splice(<<>>, [at |-> at, remove |-> remove, insert |-> insert])
                                 IN  IF r.ok THEN [ok |-> TRUE, doc |-> spn_toml_edit_render(d, r.splices)] ELSE Bad
      end == Len(d) + 1
      blank == IF d # <<>> /\ (d[Len(d)] # Nl \/ (Len(d) > 1 /\ d[Len(d) - 1] # Nl)) THEN <<Nl>> ELSE <<>>
  IN  CASE entry.kind # "none" -> put(entry.value, entry.to - entry.value, <<S(value)>>)
        [] entry.kind = "none" /\ holders # {} ->
             IF holder.kind # "table" THEN Bad
             ELSE IF holder.entries = <<>> THEN put(holder.value, holder.to - holder.value, <<P("{")>> \o pair(n) \o <<P("}")>>)
             ELSE put(holder.entries[1].key, 0, Append(pair(n), P(",")))
        [] entry.kind = "none" /\ holders = {} /\ site.section -> put(site.at, 0, fresh(site.at) \o pair(site.matched) \o <<Nl>>)
        [] OTHER -> IF blocked THEN Bad
                    ELSE put(end, 0, fresh(end) \o blank \o <<P("[")>> \o spn_toml_edit_write_key_path(Front(path)) \o <<P("]"), Nl>>
                                     \o pair(Len(path) - 1) \o <<Nl>>)

-----------------------------------------------------------------------------
(* The inside of a string: escapes (write_str_value, write_key, unescape,  *)
(* scan_escape, scan_string, parse_basic, entry_str).                      *)
Escapes == [q |-> "q", b |-> "b", nl |-> "n"]
spn_toml_edit_write_str_value(v) ==
  <<"q">> \o FoldLeft(LAMBDA acc, c : acc \o IF c \in DOMAIN Escapes THEN <<"b", Escapes[c]>> ELSE <<c>>, <<>>, v) \o <<"q">>
Unescaped(c) == IF \E e \in DOMAIN Escapes : Escapes[e] = c THEN CHOOSE e \in DOMAIN Escapes : Escapes[e] = c ELSE "bad"
RECURSIVE spn_toml_edit_parse_basic(_, _, _)
spn_toml_edit_parse_basic(s, i, out) ==
  IF i > Len(s) THEN Bad
  ELSE CASE s[i] = "nl" -> Bad
         [] s[i] = "q" -> [ok |-> TRUE, at |-> i + 1, value |-> out]
         [] s[i] = "b" -> IF i = Len(s) THEN Bad
                          ELSE IF Unescaped(s[i + 1]) = "bad" THEN Bad ELSE spn_toml_edit_parse_basic(s, i + 2, Append(out, Unescaped(s[i + 1])))
         [] OTHER -> spn_toml_edit_parse_basic(s, i + 1, Append(out, s[i]))
(* Where a string that starts at i ends, of one line or of many.           *)
RECURSIVE ScanFrom(_, _, _)
ScanFrom(s, i, multiline) ==
  LET quotes == {n \in 0..(Len(s) + 1 - i) : \A k \in i..(i + n - 1) : s[k] = "q"}
      run == CHOOSE n \in quotes : \A m \in quotes : m <= n
  IN  IF i > Len(s) THEN Bad
      ELSE CASE s[i] = "nl" /\ ~multiline -> Bad
             [] s[i] = "b" -> IF i = Len(s) THEN Bad
                              ELSE IF s[i + 1] \in {"q", "b", "n"} \cup (IF multiline THEN {"nl"} ELSE {}) THEN ScanFrom(s, i + 2, multiline) ELSE Bad
             [] s[i] = "q" -> IF ~multiline THEN [ok |-> TRUE, at |-> i + 1]
                              ELSE IF run >= 3 THEN (IF run <= 5 THEN [ok |-> TRUE, at |-> i + run] ELSE Bad) ELSE ScanFrom(s, i + run, multiline)
             [] OTHER -> ScanFrom(s, i + 1, multiline)
spn_toml_edit_scan_string(s) ==
  LET multiline == Len(s) >= 3 /\ \A k \in 1..3 : s[k] = "q"
  IN  ScanFrom(s, IF multiline THEN 4 ELSE 2, multiline)
RECURSIVE Decoded(_, _)
Decoded(s, out) ==
  CASE s = <<>> -> out
    [] s # <<>> /\ Head(s) # "b" -> Decoded(Tail(s), Append(out, Head(s)))
    [] OTHER -> IF s[2] = "nl" THEN LET on == {k \in 2..(Len(s) + 1) : k > Len(s) \/ s[k] # "nl"}
                                        next == CHOOSE k \in on : \A m \in on : k <= m
                                    IN  Decoded(SubSeq(s, next, Len(s)), out)
                ELSE Decoded(SubSeq(s, 3, Len(s)), Append(out, Unescaped(s[2])))
spn_toml_edit_entry_str(s) ==
  LET multiline == Len(s) >= 6 /\ \A k \in 1..3 : s[k] = "q"
      from == IF s[4] = "nl" THEN 5 ELSE 4
  IN  IF multiline THEN Decoded(SubSeq(s, from, Len(s) - 3), <<>>) ELSE spn_toml_edit_parse_basic(s, 2, <<>>).value

-----------------------------------------------------------------------------
(* `spn add` (core/op/add.c).  A name is [text, canonical, qualified].     *)
Canonical(key) == IF \E n \in AddNames : n.text = key THEN (CHOOSE n \in AddNames : n.text = key).canonical ELSE key
find_site(sections, table, name) ==
  LET keys == spn_toml_edit_keys(sections, <<"deps", table>>)
      mine == SelectSeq(keys, LAMBDA k : Canonical(k) = name.canonical)
      base == <<"deps", table, mine[1]>>
  IN  IF mine = <<>> THEN <<"deps", table, name.text>>
      ELSE IF spn_toml_edit_find(sections, base).kind \notin {"none", "table"} THEN base ELSE Append(base, "version")

spn_op_add(name, requested, table) ==
  LET all == IF name.canonical \in DOMAIN Releases THEN Releases[name.canonical] ELSE <<>>
      ok == {i \in DOMAIN all : ~all[i].yanked /\ all[i].version \in Ranges[requested]}
      version == IF requested = "" THEN all[CHOOSE i \in ok : \A j \in ok : j <= i].version ELSE requested
      done(err, d, p, v) == doc' = d /\ addition' = [name |-> name, path |-> p, value |-> v, err |-> err, before |-> doc, count |-> addition.count + 1]
      Write(edited, path) == IF edited.ok THEN done("none", edited.doc, path, version) ELSE done("manifest_edit", doc, path, version)
      Edit(sections, path) == Write(spn_toml_edit_set_str(doc, sections, path, version), path)
      Parsed(r) == IF r.ok THEN Edit(r.sections, find_site(r.sections, table, name)) ELSE done("manifest_parse", doc, <<>>, "")
  IN  /\ addition.count < Adds
      /\ IF requested \notin DOMAIN Ranges THEN done("version_invalid", doc, <<>>, "")
         ELSE IF all = <<>> THEN done("pkg_unknown", doc, <<>>, "")
         ELSE IF ok = {} THEN done("pkg_no_match", doc, <<>>, "")
         ELSE Parsed(spn_toml_edit_init(doc))

-----------------------------------------------------------------------------
(* What a document says, after the TOML language rather than the editor:   *)
(* its leaves [path, value, table], table the number of its array element; *)
(* and whether it may say so: nothing is said twice, no value is also a    *)
(* table, no table is opened by a header and by dotted keys.               *)
RECURSIVE LeavesIn(_, _, _)
LeavesIn(d, entries, at) ==
  UNION {LET e == entries[i]
         IN  IF e.kind = "table" /\ e.entries # <<>> THEN LeavesIn(d, e.entries, at \o e.path)
             ELSE {[path |-> at \o e.path, value |-> SubSeq(d, e.value, e.to - 1)]} : i \in DOMAIN entries}
Leaves(d) == LET In(all) ==
               UNION {{[path |-> l.path, value |-> l.value, table |-> IF all[i].array THEN i ELSE 0] : l \in LeavesIn(d, all[i].entries, all[i].path)} : i \in DOMAIN all}
             IN  In(spn_toml_edit_init(d).sections)
RECURSIVE Apart(_)
Apart(entries) == \A i \in DOMAIN entries : Apart(entries[i].entries) /\ \A j \in DOMAIN entries \ {i} : ~IsPrefix(entries[i].path, entries[j].path)
Coherent(all) ==
  LET said(i) == {all[i].path \o e.path : e \in ToSet(all[i].entries)}
      dotted(i) == UNION {{SubSeq(p, 1, n) : n \in (Len(all[i].path) + 1)..(Len(p) - 1)} : p \in said(i)}
  IN  /\ \A i \in DOMAIN all : Apart(all[i].entries)
      /\ \A i, j \in DOMAIN all : i # j =>
           /\ all[i].path = all[j].path => all[i].array /\ all[j].array
           /\ all[i].path \notin dotted(j)
           /\ \A p \in said(i) : ~IsPrefix(p, all[j].path) /\ (all[i].array \/ \A q \in said(j) : ~IsPrefix(p, q))
WellFormed(d) == LET Reads(r) == r.ok /\ Coherent(r.sections) IN Reads(spn_toml_edit_init(d))

TomlInit ==
  /\ doc \in LET whole == {FlattenSeq(s) : s \in BoundedSeq(Lines, MaxLines)}
             IN  {d \in whole \cup {Front(d) : d \in whole \ {<<>>}} : WellFormed(d)}
  /\ addition = [name |-> [text |-> "", canonical |-> "", qualified |-> FALSE], path |-> <<>>, value |-> "", err |-> "none", before |-> <<>>, count |-> 0]
TomlNext == \E name \in AddNames, requested \in DOMAIN Ranges \cup {"bad"}, table \in {"package", "test"} : spn_op_add(name, requested, table)

-----------------------------------------------------------------------------
(* Whatever the layout of the manifest, adding a dependency says exactly   *)
(* that and keeps it well-formed: every other leaf, header and comment     *)
(* stays; the dependency has one key, however its name is spelled, and its *)
(* version is the one asked for; and a manifest that could be loaded can   *)
(* always be edited.                                                       *)
Comments(d) == Cardinality({i \in DOMAIN d : d[i] = Comment})
Mine(l) == l.path = addition.path \/ (l.value = <<P("{"), P("}")>> /\ IsStrictPrefix(l.path, addition.path))
EditSound ==
  /\ WellFormed(doc)
  /\ addition.count > 0 =>
       LET old == addition.before
           heads(d) == {<<s.path, s.array>> : s \in ToSet(spn_toml_edit_init(d).sections)}
       IN  IF addition.err = "none"
           THEN /\ {[l EXCEPT !.table = 0] : l \in Leaves(doc)}
                     = {[l EXCEPT !.table = 0] : l \in {l \in Leaves(old) : ~Mine(l)}} \cup {[path |-> addition.path, value |-> <<S(addition.value)>>, table |-> 0]}
                /\ heads(doc) \in {heads(old), heads(old) \cup {<<Front(addition.path), FALSE>>}}
                /\ Comments(doc) = Comments(old)
                /\ LET spelled(d) == {k \in ToSet(spn_toml_edit_keys(spn_toml_edit_init(d).sections, SubSeq(addition.path, 1, 2))) : Canonical(k) = addition.name.canonical}
                   IN  spelled(doc) = IF spelled(old) = {} THEN {addition.name.text} ELSE spelled(old)
           ELSE doc = old /\ addition.err \notin {"manifest_parse", "manifest_edit"}
(* Every string that is written reads back as itself, and a string ends    *)
(* where the reader of its value thinks it ends.                           *)
StringsRead == doc = <<>> =>
  /\ \A v \in BoundedSeq(Chars, MaxChars) :
       LET s == spn_toml_edit_write_str_value(v)
       IN  /\ spn_toml_edit_scan_string(s) = [ok |-> TRUE, at |-> Len(s) + 1]
           /\ spn_toml_edit_entry_str(s) = v
  /\ \A s \in {<<"q">> \o t : t \in BoundedSeq(Chars \cup {"n"}, MaxChars + 1)} :
       LET r == spn_toml_edit_scan_string(s)
       IN  r.ok /\ ~(Len(s) >= 3 /\ \A k \in 1..3 : s[k] = "q") => spn_toml_edit_parse_basic(s, 2, <<>>).ok /\ spn_toml_edit_parse_basic(s, 2, <<>>).at = r.at
=============================================================================
