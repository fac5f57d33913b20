----------------------------- MODULE RegexMini -----------------------------
(***************************************************************************)
(* The regular expressions that evaluation checks are written in:          *)
(* core/crates/evals/src/regex_mini.rs, a parser that refuses what it does *)
(* not know and a backtracking matcher.  A character is a string, "nl" the *)
(* line feed; positions count from 0, as in the code, so that the i-th     *)
(* character of s is s[i + 1].  A piece without upper bound has max = Many.*)
(***************************************************************************)
EXTENDS Naturals, Sequences

CONSTANTS
  Patterns,   \* sequences of characters to compile
  Texts,      \* sequences of characters to search
  Code,       \* the code point of every character
  Letters,    \* the ASCII letters among them
  Foreign,    \* letters beyond ASCII
  Many,       \* a number beyond the length of every text
  None

VARIABLES
  pattern,
  regex,      \* Regex.alts, <<>> if refused, None before it is compiled
  text,       \* what is searched, None before that
  from,       \* i of find_all
  out         \* the spans that find_all has found

vars == <<pattern, regex, text, from, out>>

Digits == {"0", "1", "2", "3", "4", "5", "6", "7", "8", "9"}
Spaces == {" ", "nl", "tab", "cr"}
Fail == [ok |-> FALSE, pos |-> 0, val |-> <<>>]
Ok(pos, val) == [ok |-> TRUE, pos |-> pos, val |-> val]
Peek(p, i) == IF i < Len(p) THEN p[i + 1] ELSE None
\* The `?` of the parser: on with a result unless it failed.
Then(r, Goes(_)) == IF r.ok THEN Goes(r) ELSE Fail
Least(S) == CHOOSE i \in S : \A j \in S : i <= j

-----------------------------------------------------------------------------
\* The parser; each operator gets a position and gives the next one.

Char(c) == [kind |-> "char", char |-> c]
Class(negated, items) == [kind |-> "class", negated |-> negated, items |-> items]
One(c) == [item |-> "one", lo |-> c, hi |-> c]
Span(lo, hi) == [item |-> "range", lo |-> lo, hi |-> hi]
Kind(k, want) == [item |-> k, want |-> want]
Escapes == [d |-> Kind("digit", TRUE), D |-> Kind("digit", FALSE), w |-> Kind("word", TRUE),
            W |-> Kind("word", FALSE), s |-> Kind("space", TRUE), S |-> Kind("space", FALSE)]
Controls == [n |-> "nl", t |-> "tab", r |-> "cr"]

Escape(p, i) ==
  LET c == Peek(p, i) IN
  CASE c = None -> Fail
    [] c \in DOMAIN Escapes -> Ok(i + 1, Class(FALSE, <<Escapes[c]>>))
    [] c \in DOMAIN Controls -> Ok(i + 1, Char(Controls[c]))
    [] c \in (Letters \cup Digits) \ (DOMAIN Escapes \cup DOMAIN Controls) -> Fail
    [] OTHER -> Ok(i + 1, Char(c))

RECURSIVE ClassItems(_, _, _)
ClassItems(p, i, first) ==
  LET c == Peek(p, i)
      More(items, j) ==
        Then(ClassItems(p, j, FALSE), LAMBDA rest : Ok(rest.pos, items \o rest.val))
      Range(lo) == Peek(p, lo.pos) = "-" /\ Peek(p, lo.pos + 1) \notin {None, "]"}
      From(lo) ==
        CASE lo.val.kind = "class" -> More(lo.val.items, lo.pos)
          [] lo.val.kind = "char" /\ Range(lo) ->
               More(<<Span(lo.val.char, Peek(p, lo.pos + 1))>>, lo.pos + 2)
          [] lo.val.kind = "char" /\ ~Range(lo) -> More(<<One(lo.val.char)>>, lo.pos)
  IN  CASE c = None -> Fail
        [] c = "]" /\ ~first -> Ok(i + 1, <<>>)
        [] c = "\\" -> Then(Escape(p, i + 1), From)
        [] OTHER -> From(Ok(i + 1, Char(c)))

ParseClass(p, i) ==
  LET negated == Peek(p, i) = "^" IN
  Then(ClassItems(p, IF negated THEN i + 1 ELSE i, TRUE),
       LAMBDA items : Ok(items.pos, Class(negated, items.val)))

\* A number between spaces, None if it is none.
Trim(s) ==
  LET kept == {i \in DOMAIN s : s[i] \notin Spaces}
  IN  IF kept = {} THEN <<>>
      ELSE SubSeq(s, Least(kept), CHOOSE i \in kept : \A j \in kept : j <= i)
Number(s) ==
  LET t == Trim(s)
      d == IF t # <<>> /\ t[1] = "+" THEN Tail(t) ELSE t
      n[i \in 0..Len(d)] == IF i = 0 THEN 0 ELSE 10 * n[i - 1] + Code[d[i]] - Code["0"]
  IN  IF d # <<>> /\ \A i \in DOMAIN d : d[i] \in Digits THEN n[Len(d)] ELSE None

\* {m}, {m,} or {m,n}, from the brace on.
Braces(p, i) ==
  LET closing == {j \in i + 1 .. Len(p) - 1 : Peek(p, j) = "}"}
      body == SubSeq(p, i + 2, Least(closing))
      commas == {j \in DOMAIN body : body[j] = ","}
      lo == Number(IF commas = {} THEN body ELSE SubSeq(body, 1, Least(commas) - 1))
      rest == SubSeq(body, Least(commas) + 1, Len(body))
      hi == IF commas = {} THEN lo ELSE IF Trim(rest) = <<>> THEN Many ELSE Number(rest)
  IN  IF closing # {} /\ lo # None /\ hi # None THEN Ok(Least(closing) + 1, <<lo, hi>>) ELSE Fail

Quantifier(p, i, atom) ==
  LET c == Peek(p, i)
      OrLiteral(braces) == IF braces.ok THEN braces ELSE Ok(i, <<1, 1>>)
      Checked(q) ==
        IF q.val # <<1, 1>> /\ (Peek(p, q.pos) = "?" \/ atom.kind \in {"start", "end"})
        THEN Fail ELSE q
  IN  Checked(CASE c = "*" -> Ok(i + 1, <<0, Many>>)
                [] c = "+" -> Ok(i + 1, <<1, Many>>)
                [] c = "?" -> Ok(i + 1, <<0, 1>>)
                [] c = "{" -> OrLiteral(Braces(p, i))
                [] OTHER -> Ok(i, <<1, 1>>))

RECURSIVE Alternation(_, _), Sequence(_, _)
ParseAtom(p, i) ==
  LET c == Peek(p, i)
      Group(inner) == IF Peek(p, inner.pos) = ")"
                      THEN Ok(inner.pos + 1, [kind |-> "group", alts |-> inner.val]) ELSE Fail
  IN  CASE c = "^" -> Ok(i + 1, [kind |-> "start"])
        [] c = "$" -> Ok(i + 1, [kind |-> "end"])
        [] c = "." -> Ok(i + 1, [kind |-> "any"])
        [] c = "(" -> IF Peek(p, i + 1) = "?" /\ Peek(p, i + 2) = ":"
                      THEN Then(Alternation(p, i + 3), Group) ELSE Fail
        [] c = "[" -> ParseClass(p, i + 1)
        [] c = "\\" -> Escape(p, i + 1)
        [] c \in {"*", "+", "?", None} -> Fail
        [] OTHER -> Ok(i + 1, Char(c))

Sequence(p, i) ==
  IF Peek(p, i) \in {None, "|", ")"} THEN Ok(i, <<>>)
  ELSE Then(ParseAtom(p, i), LAMBDA atom :
       Then(Quantifier(p, atom.pos, atom.val), LAMBDA q :
       Then(Sequence(p, q.pos), LAMBDA rest :
         Ok(rest.pos, <<[atom |-> atom.val, min |-> q.val[1], max |-> q.val[2]]>> \o rest.val))))

Alternation(p, i) ==
  Then(Sequence(p, i), LAMBDA s :
    IF Peek(p, s.pos) # "|" THEN Ok(s.pos, <<s.val>>)
    ELSE Then(Alternation(p, s.pos + 1), LAMBDA rest : Ok(rest.pos, <<s.val>> \o rest.val)))

\* Regex::new: the whole pattern, or nothing.
Compiled(p) ==
  LET Entire(r) == IF r.ok /\ r.pos = Len(p) THEN r.val ELSE <<>> IN Entire(Alternation(p, 0))

-----------------------------------------------------------------------------
\* The matcher.

ItemHits(item, c) ==
  CASE item.item = "digit" -> (c \in Digits) = item.want
    [] item.item = "word" -> (c \in Digits \cup Letters \cup Foreign \cup {"_"}) = item.want
    [] item.item = "space" -> (c \in Spaces) = item.want
    [] OTHER -> Code[item.lo] <= Code[c] /\ Code[c] <= Code[item.hi]
ClassHits(class, c) == (\E i \in DOMAIN class.items : ItemHits(class.items[i], c)) # class.negated

\* seq_match_all and rep_match_all: every end, for the groups.
RECURSIVE SeqMatchAll(_, _, _), RepMatchAll(_, _, _, _, _)
\* atom_match: the ends of one occurrence of an atom at i.
Ends(atom, s, i) ==
  CASE atom.kind = "group" -> UNION {SeqMatchAll(atom.alts[k], s, i) : k \in DOMAIN atom.alts}
    [] atom.kind = "start" -> IF i = 0 THEN {i} ELSE {}
    [] atom.kind = "end" -> IF i = Len(s) \/ (i + 1 = Len(s) /\ s[i + 1] = "nl") THEN {i} ELSE {}
    [] OTHER -> LET c == Peek(s, i)
                    hit == CASE c = None -> FALSE
                             [] atom.kind = "char" -> c = atom.char
                             [] atom.kind = "any" -> c # "nl"
                             [] atom.kind = "class" -> ClassHits(atom, c)
                IN  IF hit THEN {i + 1} ELSE {}
\* An empty occurrence counts only while the lower bound is not reached.
Nexts(piece, s, i, done) ==
  IF done >= piece.max THEN {}
  ELSE {n \in Ends(piece.atom, s, i) : n # i \/ done < piece.min}
RepMatchAll(piece, rest, s, i, done) ==
  UNION {RepMatchAll(piece, rest, s, n, done + 1) : n \in Nexts(piece, s, i, done)}
    \cup (IF done >= piece.min THEN SeqMatchAll(rest, s, i) ELSE {})
SeqMatchAll(pieces, s, i) ==
  IF pieces = <<>> THEN {i} ELSE RepMatchAll(pieces[1], Tail(pieces), s, i, 0)

\* seq_match and rep_match: the first end that backtracking comes to, the
\* longer occurrences of an atom first, or None.
RECURSIVE RepMatch(_, _, _, _, _)
SeqMatch(pieces, s, i) ==
  IF pieces = <<>> THEN i ELSE RepMatch(pieces[1], Tail(pieces), s, i, 0)
RepMatch(piece, rest, s, i, done) ==
  LET leads == {n \in Nexts(piece, s, i, done) : RepMatch(piece, rest, s, n, done + 1) # None}
  IN  CASE leads # {} -> RepMatch(piece, rest, s, CHOOSE n \in leads : \A m \in leads : m <= n, done + 1)
        [] leads = {} /\ done >= piece.min -> SeqMatch(rest, s, i)
        [] OTHER -> None

\* find_at: the first start from which an alternative matches, the first of
\* those; <<>> if there is none.
FindAt(alts, s, i) ==
  LET Hits(at) == {k \in DOMAIN alts : SeqMatch(alts[k], s, at) # None}
      starts == {at \in i .. Len(s) : Hits(at) # {}}
      First(at) == <<at, SeqMatch(alts[Least(Hits(at))], s, at)>>
  IN  IF starts = {} THEN <<>> ELSE First(Least(starts))

-----------------------------------------------------------------------------
Init ==
  /\ pattern \in Patterns
  /\ regex = None /\ text = None /\ from = 0 /\ out = <<>>

Compile ==
  /\ regex = None
  /\ regex' = Compiled(pattern)
  /\ UNCHANGED <<pattern, text, from, out>>

Search ==
  /\ regex \notin {None, <<>>} /\ text = None
  /\ text' \in Texts
  /\ UNCHANGED <<pattern, regex, from, out>>

\* Where find_all goes on: an empty match must not be found again.
Resume(span) == IF span[2] > span[1] THEN span[2] ELSE span[1] + 1

\* One turn of find_all, of which is_match is the first.
FindNext ==
  /\ text # None /\ from <= Len(text)
  /\ LET span == FindAt(regex, text, from)
     IN  IF span = <<>> THEN from' = from + 1 /\ UNCHANGED out
         ELSE from' = Resume(span) /\ out' = Append(out, span)
  /\ UNCHANGED <<pattern, regex, text>>

Next == Compile \/ Search \/ FindNext

Spec == Init /\ [][Next]_vars

-----------------------------------------------------------------------------
\* Every variable holds what its declaration says.
TypeOK ==
  /\ pattern \in Patterns /\ text \in Texts \cup {None}
  /\ regex = <<>> => text = None
  /\ text # None => /\ from \in 0 .. Len(text) + 1
                    /\ \A k \in DOMAIN out : out[k][1] <= out[k][2] /\ out[k][2] <= Len(text)

\* What a compiled pattern says, written down plainly.
Literally(c) ==
  CASE c \in DOMAIN Code \ (Letters \cup Digits \cup Foreign \cup {"nl", "tab", "cr"}) -> <<"\\", c>>
    [] c \in {"nl", "tab", "cr"} -> <<"\\", CHOOSE e \in DOMAIN Controls : Controls[e] = c>>
    [] OTHER -> <<c>>
Bounds(min, max) ==
  LET Num(n) == <<CHOOSE d \in Digits \cap DOMAIN Code : Code[d] = Code["0"] + n>> IN
  CASE <<min, max>> = <<1, 1>> -> <<>>
    [] <<min, max>> = <<0, 1>> -> <<"?">>
    [] max = Many /\ min \in {0, 1} -> IF min = 0 THEN <<"*">> ELSE <<"+">>
    [] max = Many /\ min > 1 -> <<"{">> \o Num(min) \o <<",", "}">>
    [] OTHER -> <<"{">> \o Num(min) \o <<",">> \o Num(max) \o <<"}">>
Concat(ss) == LET f[k \in 0..Len(ss)] == IF k = 0 THEN <<>> ELSE f[k - 1] \o ss[k] IN f[Len(ss)]
Item(item) ==
  CASE item.item = "one" -> Literally(item.lo)
    [] item.item = "range" -> Literally(item.lo) \o <<"-", item.hi>>
    [] OTHER -> <<"\\", CHOOSE e \in DOMAIN Escapes : Escapes[e] = item>>
RECURSIVE Written(_)
Written(alts) ==
  LET Atom(a) == CASE a.kind = "char" -> Literally(a.char)
                   [] a.kind = "start" -> <<"^">>
                   [] a.kind = "end" -> <<"$">>
                   [] a.kind = "any" -> <<".">>
                   [] a.kind = "group" -> <<"(", "?", ":">> \o Written(a.alts) \o <<")">>
                   [] a.kind = "class" ->
                        (IF a.negated THEN <<"[", "^">> ELSE <<"[">>)
                          \o Concat([k \in DOMAIN a.items |-> Item(a.items[k])]) \o <<"]">>
      Pieces(ps) == Concat([k \in DOMAIN ps |-> Atom(ps[k].atom) \o Bounds(ps[k].min, ps[k].max)])
  IN  Concat([k \in DOMAIN alts |-> IF k = 1 THEN Pieces(alts[1]) ELSE <<"|">> \o Pieces(alts[k])])

\* A pattern that is accepted is understood: written down plainly it compiles
\* to the same (parse_alternation and all below it).
ReadsBack == regex \notin {None, <<>>} => Compiled(Written(regex)) = regex

\* What a pattern means, as the relation between starts and ends in s.
Compose(Q, R) ==
  {<<q[1], r[2]>> : <<q, r>> \in {qr \in Q \X R : qr[1][2] = qr[2][1]}}
RECURSIVE Meaning(_, _)
Meaning(alts, s) ==
  LET At == 0 .. Len(s)
      Once(a) == IF a.kind = "group" THEN Meaning(a.alts, s)
                 ELSE {<<i, j>> \in At \X At : j \in Ends(a, s, i)}
      Times(R, n) == LET f[k \in 0..n] == IF k = 0 THEN {<<i, i>> : i \in At} ELSE Compose(f[k - 1], R)
                     IN  f[n]
      \* more than min + Len(s) occurrences reach nothing new
      Piece(p) == UNION {Times(Once(p.atom), n) :
                           n \in p.min .. (IF p.max > p.min + Len(s) THEN p.min + Len(s) ELSE p.max)}
      Seq1(ps) == LET f[k \in 0..Len(ps)] == IF k = 0 THEN {<<i, i>> : i \in At}
                                            ELSE Compose(f[k - 1], Piece(ps[k]))
                  IN  f[Len(ps)]
  IN  UNION {Seq1(alts[k]) : k \in DOMAIN alts}

\* find_all finds matches only, in order and apart from each other, and misses
\* none that starts between them; is_match is its first (find_at, seq_match).
FindsAll ==
  text # None =>
    LET spans == Meaning(regex, text)
        begin(k) == CASE k = 1 -> 0
                      [] k > 1 /\ out[k - 1][1] = out[k - 1][2] -> out[k - 1][1] + 1
                      [] OTHER -> out[k - 1][2]
        end(k) == IF k > Len(out) THEN from ELSE out[k][1]
    IN  /\ \A k \in DOMAIN out : out[k] \in spans /\ begin(k) <= out[k][1]
        /\ \A k \in 1 .. Len(out) + 1 : \A r \in spans : r[1] \notin begin(k) .. end(k) - 1
=============================================================================
