------------------------------ MODULE GdbSpec -------------------------------
(***************************************************************************)
(* The language of the test specifications of pylib/gdbtestengine.py: its  *)
(* parser, and the formatter that prints a parsed specification back.      *)
(*                                                                         *)
(* A line is its indentation and a sequence of tokens; a token has a kind  *)
(* and a value.  A variable reference is the tokens it is made of.         *)
(* A parser of a phrase takes a line and a position, and returns the node  *)
(* and the position behind it, or Error.                                   *)
(***************************************************************************)
EXTENDS Integers, Sequences, SequencesExt

Target(type, ref, bits) == [type |-> type, ref |-> ref, bits |-> bits]
Token(kind, value) == [k |-> kind, v |-> value]
Word(name) == Token("IDENT", name)
Sign(kind) == Token(kind, "")
None == <<>>

Error == [node |-> None, next |-> 0]
Parsed(node, next) == [node |-> node, next |-> next]
Failed(p) == p.next = 0

\* What F makes of a phrase, unless it is in error
Then(p, F(_)) == IF Failed(p) THEN Error ELSE F(p)

\* An optional phrase that is not there
Absent(i) == Parsed(None, i)

Kind(ts, i) == IF i \in DOMAIN ts THEN ts[i].k ELSE "end"
IsWord(ts, i, w) == Kind(ts, i) = "IDENT" /\ ts[i].v = w
AtEnd(ts, i) == i > Len(ts)

-----------------------------------------------------------------------------
(* Tokens.  A line is lexemes here; "-5" may be the number, or a minus and *)
(* a number, depending on what is before it, and "--" starts a comment.    *)

Relations == {"EQUALS", "HASH", "LESS", "GREATER", "LESSEQUAL", "GREATEREQUAL"}

TakesSign(before) ==
  before = <<>> \/ Last(before).k \in Relations \cup {"LBRACKET"}

\* A lexeme "NEG" is a minus sign with a number right behind it
AddToken(tokens, lexeme) ==
  IF lexeme.k # "NEG" THEN Append(tokens, lexeme)
  ELSE IF TakesSign(tokens) THEN Append(tokens, Token("INTEGER", 0 - lexeme.v))
  ELSE tokens \o <<Sign("MINUS"), Token("INTEGER", lexeme.v)>>

Tokenise(lexemes) ==
  LET UpTo(comment) ==
        IF comment = 0 THEN lexemes ELSE SubSeq(lexemes, 1, comment - 1)
  IN  FoldLeft(AddToken, <<>>, UpTo(SelectInSeq(lexemes, LAMBDA x : x.k = "COMMENT")))

-----------------------------------------------------------------------------
(* Phrases.                                                                *)

\* The position behind a variable reference: names, fields and indices; an
\* index followed by a colon is the start of a bit range
VarRefEnd(ts, i) ==
  LET end[j \in 1..(Len(ts) + 1)] ==
        IF Kind(ts, j) = "DOT"
        THEN IF Kind(ts, j + 1) = "IDENT" THEN end[j + 2] ELSE 0
        ELSE IF Kind(ts, j) = "LBRACKET" /\ Kind(ts, j + 1) = "INTEGER"
                /\ Kind(ts, j + 2) # "COLON"
        THEN IF Kind(ts, j + 2) = "RBRACKET" THEN end[j + 3] ELSE 0
        ELSE j
  IN  IF Kind(ts, i) = "IDENT" THEN end[i + 1] ELSE 0

ParseVarRef(ts, i) ==
  LET UpTo(end) == IF end = 0 THEN Error ELSE Parsed(SubSeq(ts, i, end - 1), end) IN
    UpTo(VarRefEnd(ts, i))

IsQualified(ts, i) ==
  Kind(ts, i) = "IDENT" /\ Kind(ts, i + 1) = "DOT" /\ Kind(ts, i + 2) = "IDENT"

\* Module.Name
ParseQualName(ts, i) ==
  IF IsQualified(ts, i) THEN Parsed(SubSeq(ts, i, i + 2), i + 3) ELSE Error

Literals == {"TRUE", "FALSE", "NIL"}

Value(kind, tokens) == [kind |-> kind, raw |-> tokens, as |-> "default"]

ParseValue(ts, i) ==
  LET one == SubSeq(ts, i, i) IN
    CASE Kind(ts, i) = "HEX" -> Parsed(Value("hex", one), i + 1)
      [] Kind(ts, i) = "INTEGER" -> Parsed(Value("integer", one), i + 1)
      [] Kind(ts, i) = "IDENT" /\ ts[i].v \in Literals ->
           Parsed(Value(IF ts[i].v = "NIL" THEN "nil" ELSE "bool", one), i + 1)
      [] IsQualified(ts, i) /\ ts[i].v \notin Literals ->
           Parsed(Value("const_ref", SubSeq(ts, i, i + 2)), i + 3)
      [] OTHER -> Error

\* A memory address: a hexadecimal number or a constant
ParseAddress(ts, i) ==
  CASE Kind(ts, i) = "HEX" -> Parsed(Value("hex", SubSeq(ts, i, i)), i + 1)
    [] IsQualified(ts, i) -> Parsed(Value("const_ref", SubSeq(ts, i, i + 2)), i + 3)
    [] OTHER -> Error

\* Where an indirect address comes from: arg, local, a variable, an address
SourceType(ts, i) ==
  CASE IsWord(ts, i, "arg") \/ IsWord(ts, i, "local") -> ts[i].v
    [] Kind(ts, i) = "IDENT" /\ ~IsWord(ts, i, "arg") /\ ~IsWord(ts, i, "local") -> "var"
    [] OTHER -> "address"

ParseSource(ts, i, type) ==
  IF type = "address" THEN ParseAddress(ts, i)
  ELSE ParseVarRef(ts, IF type = "var" THEN i ELSE i + 1)

ParseOffset(ts, i) ==
  IF Kind(ts, i) \in {"PLUS", "MINUS"} THEN ParseValue(ts, i + 1) ELSE Absent(i)

\* [source], [source + value] or [source - value].  Of an address as the
\* source nothing is kept.
ParseIndirect(ts, i) ==
  LET Close(type, src, off) ==
        IF Failed(off) \/ Kind(ts, off.next) # "RBRACKET" THEN Error
        ELSE Parsed([type |-> type,
                     name |-> IF type = "address" THEN None ELSE src.node,
                     sign |-> IF off.node = None THEN "none" ELSE Kind(ts, src.next),
                     offset |-> off.node], off.next + 1)
      From(type) ==
        Then(ParseSource(ts, i + 1, type), LAMBDA src : Close(type, src, ParseOffset(ts, src.next)))
  IN  IF Kind(ts, i) = "LBRACKET" THEN From(SourceType(ts, i + 1)) ELSE Error

\* An optional [hi:lo]
ParseBitRange(ts, i) ==
  IF Kind(ts, i) # "LBRACKET" THEN Parsed(None, i)
  ELSE IF <<Kind(ts, i + 1), Kind(ts, i + 2), Kind(ts, i + 3), Kind(ts, i + 4)>>
          = <<"INTEGER", "COLON", "INTEGER", "RBRACKET">>
  THEN Parsed(<<ts[i + 1].v, ts[i + 3].v>>, i + 5)
  ELSE Error

\* What a target names, at the position behind its word.  The word mem is
\* optional before a bracket and before a number.
TargetType(ts, i) ==
  CASE IsWord(ts, i, "return") -> "return"
    [] IsWord(ts, i, "arg") \/ IsWord(ts, i, "local") -> ts[i].v
    [] Kind(ts, i) = "LBRACKET" \/ (IsWord(ts, i, "mem") /\ Kind(ts, i + 1) = "LBRACKET") -> "indirect"
    [] Kind(ts, i) = "HEX" \/ (IsWord(ts, i, "mem") /\ Kind(ts, i + 1) # "LBRACKET") -> "mem"
    [] OTHER -> "var"

ParseNamed(ts, i, type) ==
  CASE type = "indirect" -> ParseIndirect(ts, i)
    [] type = "mem" -> ParseAddress(ts, i)
    [] OTHER -> ParseVarRef(ts, i)

ParseTarget(ts, i) ==
  LET WithBits(type, ref, bits) ==
        IF Failed(bits) THEN Error ELSE Parsed(Target(type, ref, bits.node), bits.next)
      Named(type, at) ==
        Then(ParseNamed(ts, at, type),
             LAMBDA p : WithBits(type, p.node, ParseBitRange(ts, p.next)))
      Typed(type) ==
        IF type = "return" THEN Parsed(Target(type, None, None), i + 1)
        ELSE Named(type, IF type \in {"arg", "local"} \/ IsWord(ts, i, "mem") THEN i + 1 ELSE i)
  IN  Typed(TargetType(ts, i))

Action(kind, target, op, expected, halt) ==
  [kind |-> kind, target |-> target, op |-> op, expected |-> expected, halt |-> halt]

\* as signed or as unsigned: what is expected is read that way
ParseAs(ts, v) ==
  CASE ~IsWord(ts, v.next, "as") -> v
    [] IsWord(ts, v.next, "as")
       /\ (IsWord(ts, v.next + 1, "signed") \/ IsWord(ts, v.next + 1, "unsigned")) ->
         Parsed([v.node EXCEPT !.as = ts[v.next + 1].v], v.next + 2)
    [] OTHER -> Error

\* check target relation value [as signed|unsigned] [halt], or trace target.
\* What follows a complete action on its line is not looked at.
ParseAction(ts) ==
  LET Halted(t, v) ==
        Parsed(Action("check", t.node, Kind(ts, t.next), v.node, IsWord(ts, v.next, "halt")), v.next)
      Compared(t, v) ==
        IF v.node.kind = "bool" /\ Kind(ts, t.next) \notin {"EQUALS", "HASH"} THEN Error
        ELSE Then(ParseAs(ts, v), LAMBDA w : Halted(t, w))
      Checked(t) ==
        IF Kind(ts, t.next) \notin Relations THEN Error
        ELSE Then(ParseValue(ts, t.next + 1), LAMBDA v : Compared(t, v))
      Of(t) ==
        IF IsWord(ts, 1, "check") THEN Checked(t)
        ELSE Parsed(Action("trace", t.node, "EQUALS", None, FALSE), t.next)
  IN  IF IsWord(ts, 1, "check") \/ IsWord(ts, 1, "trace") THEN Then(ParseTarget(ts, 2), Of)
      ELSE Error

\* at entry, at exit, at line n, at an address, or at an offset in the module
ParseLocation(ts, i) ==
  IF ~IsWord(ts, i, "at") THEN Error
  ELSE CASE IsWord(ts, i + 1, "entry") -> Parsed([type |-> "entry", value |-> None], i + 2)
         [] IsWord(ts, i + 1, "exit") -> Parsed([type |-> "exit", value |-> None], i + 2)
         [] IsWord(ts, i + 1, "line") ->
              IF Kind(ts, i + 2) = "INTEGER"
              THEN Parsed([type |-> "line", value |-> SubSeq(ts, i + 2, i + 2)], i + 3) ELSE Error
         [] Kind(ts, i + 1) = "HEX" ->
              Parsed([type |-> "address", value |-> SubSeq(ts, i + 1, i + 1)], i + 2)
         [] Kind(ts, i + 1) = "INTEGER" ->
              Parsed([type |-> "offset", value |-> SubSeq(ts, i + 1, i + 1)], i + 2)
         [] OTHER -> Error

\* when hits = n, or when var = value; a line may end without
ParseCondition(ts, i) ==
  LET Is(r) ==
        IF Kind(ts, r.next) # "EQUALS" THEN Error
        ELSE Then(ParseValue(ts, r.next + 1),
                  LAMBDA v : Parsed([kind |-> "var", ref |-> r.node, value |-> v.node], v.next))
  IN  CASE ~IsWord(ts, i, "when") -> Parsed([kind |-> "none"], i)
        [] IsWord(ts, i, "when") /\ IsWord(ts, i + 1, "hits") ->
             IF Kind(ts, i + 2) = "EQUALS" /\ Kind(ts, i + 3) = "INTEGER"
             THEN Parsed([kind |-> "hits", n |-> ts[i + 3].v], i + 4) ELSE Error
        [] OTHER -> Then(ParseVarRef(ts, i + 1), Is)

-----------------------------------------------------------------------------
(* Directives and the whole specification.                                 *)

\* start or stop, then proc Module.Name location [condition]
ParseSentinel(kind, ts) ==
  LET When(q, l) ==
        Then(ParseCondition(ts, l.next),
             LAMBDA c : Parsed([kind |-> kind, proc |-> q.node, loc |-> l.node,
                                cond |-> c.node], c.next))
      At(q) == Then(ParseLocation(ts, q.next), LAMBDA l : When(q, l))
  IN  IF IsWord(ts, 2, "proc") THEN Then(ParseQualName(ts, 3), At) ELSE Error

ParseStop(ts) ==
  LET ends(type, n) == [kind |-> type, n |-> n] IN
    IF ~IsWord(ts, 2, "after") THEN ParseSentinel("stop", ts)
    ELSE CASE IsWord(ts, 3, "all") /\ IsWord(ts, 4, "checks") -> Parsed(ends("all_checks", 0), 5)
         [] Kind(ts, 3) = "INTEGER" /\ IsWord(ts, 4, "hits") -> Parsed(ends("hits", ts[3].v), 5)
         [] Kind(ts, 3) = "INTEGER" /\ IsWord(ts, 4, "s") -> Parsed(ends("timeout", ts[3].v), 5)
         [] OTHER -> Error

\* option a-b-c = the rest of the line
OptionNameEnd(ts) ==
  LET end[j \in 1..(Len(ts) + 1)] ==
        IF Kind(ts, j) = "MINUS"
        THEN IF Kind(ts, j + 1) = "IDENT" THEN end[j + 2] ELSE 0
        ELSE j
  IN  IF Kind(ts, 2) = "IDENT" THEN end[3] ELSE 0

ParseOption(ts) ==
  LET Named(end) ==
        IF end = 0 \/ Kind(ts, end) # "EQUALS" THEN Error
        ELSE Parsed([kind |-> "option", name |-> SubSeq(ts, 2, end - 1),
                     value |-> SubSeq(ts, end + 1, Len(ts))], Len(ts) + 1)
  IN  Named(OptionNameEnd(ts))

ParseDirective(ts) ==
  CASE IsWord(ts, 1, "option") -> ParseOption(ts)
    [] IsWord(ts, 1, "start") -> ParseSentinel("start", ts)
    [] IsWord(ts, 1, "stop") -> ParseStop(ts)
    [] OTHER -> Error

EmptySpec == [ok |-> TRUE, directives |-> <<>>, procs |-> <<>>, open |-> FALSE]

\* spec with what F makes of a phrase, or marked as wrong
Add(spec, p, F(_)) == IF Failed(p) THEN [spec EXCEPT !.ok = FALSE] ELSE F(p.node)

AddAction(spec, p, action) ==
  IF spec.procs[p].locs = <<>> THEN [spec EXCEPT !.ok = FALSE]
  ELSE [spec EXCEPT !.procs[p].locs[Len(spec.procs[p].locs)].actions = Append(@, action)]

\* A line of the specification belongs to the proc block, and below that to
\* the location block, that is open at its indentation
AddLine(spec, line) ==
  LET ts == line.tokens
      p == Len(spec.procs)
  IN  IF ~spec.ok \/ ts = <<>> THEN spec
      ELSE CASE line.indent = 0 /\ IsWord(ts, 1, "proc") ->
                Add(spec, ParseQualName(ts, 2), LAMBDA name :
                    [spec EXCEPT !.procs = Append(@, [name |-> name, locs |-> <<>>]), !.open = TRUE])
           [] line.indent = 0 /\ ~IsWord(ts, 1, "proc") ->
                Add(spec, ParseDirective(ts), LAMBDA d :
                    [spec EXCEPT !.directives = Append(@, d), !.open = FALSE])
           [] line.indent > 0 /\ ~spec.open -> [spec EXCEPT !.ok = FALSE]
           [] line.indent = 1 /\ spec.open ->
                Add(spec, ParseLocation(ts, 1), LAMBDA loc :
                    [spec EXCEPT !.procs[p].locs = Append(@, [loc |-> loc, actions |-> <<>>])])
           [] OTHER -> Add(spec, ParseAction(ts), LAMBDA a : AddAction(spec, p, a))

ParseSpec(lines) == FoldLeft(AddLine, EmptySpec, lines)

-----------------------------------------------------------------------------
(* The formatter.                                                          *)

FormatBits(bits) ==
  IF bits = None THEN <<>>
  ELSE <<Sign("LBRACKET"), Token("INTEGER", bits[1]), Sign("COLON"),
         Token("INTEGER", bits[2]), Sign("RBRACKET")>>

\* An address as the source is printed as None, without its offset
FormatIndirect(ind) ==
  LET source ==
        CASE ind.type = "address" -> <<Word("None")>>
          [] ind.type = "var" -> ind.name
          [] OTHER -> <<Word(ind.type)>> \o ind.name
      offset == IF ind.type = "address" \/ ind.sign = "none" THEN <<>>
                ELSE <<Sign(ind.sign)>> \o ind.offset.raw
  IN  <<Sign("LBRACKET")>> \o source \o offset \o <<Sign("RBRACKET")>>

FormatTarget(t) ==
  LET ref == CASE t.type = "return" -> <<Word("return")>>
               [] t.type = "var" -> t.ref
               [] t.type \in {"arg", "local"} -> <<Word(t.type)>> \o t.ref
               [] t.type = "indirect" -> <<Word("mem")>> \o FormatIndirect(t.ref)
               [] t.type = "mem" -> <<Word("mem")>> \o t.ref.raw
  IN  ref \o FormatBits(t.bits)

\* Mutant of FormatAction: the relation is printed as equality
FormatAction_NoRelation(a) ==
  <<Word(a.kind)>> \o FormatTarget(a.target)
    \o (IF a.kind = "trace" THEN <<>> ELSE <<Sign("EQUALS")>> \o a.expected.raw)

FormatAction(a) ==
  <<Word(a.kind)>> \o FormatTarget(a.target)
    \o (IF a.kind = "trace" THEN <<>>
        ELSE <<Sign(a.op)>> \o a.expected.raw
             \o (IF a.expected.as = "default" THEN <<>> ELSE <<Word("as"), Word(a.expected.as)>>)
             \o (IF a.halt THEN <<Word("halt")>> ELSE <<>>))

\* The word "address" is printed before an address, too; for an offset the
\* formatter looks for a plus sign, and fails
FormatLocation(l) ==
  <<Word("at")>>
    \o CASE l.type = "offset" -> <<Sign("FAILURE")>>
         [] OTHER -> <<Word(l.type)>> \o l.value

FormatCondition(c) ==
  CASE c.kind = "none" -> <<>>
    [] c.kind = "hits" -> <<Word("when"), Word("hits"), Sign("EQUALS"), Token("INTEGER", c.n)>>
    [] c.kind = "var" -> <<Word("when")>> \o c.ref \o <<Sign("EQUALS")>> \o c.value.raw

FormatDirective(d) ==
  LET after(ts) == <<Word("stop"), Word("after")>> \o ts IN
    CASE d.kind = "option" -> <<Word("option")>> \o d.name \o <<Sign("EQUALS")>> \o d.value
      [] d.kind \in {"start", "stop"} ->
           <<Word(d.kind), Word("proc")>> \o d.proc \o FormatLocation(d.loc)
             \o FormatCondition(d.cond)
      [] d.kind = "all_checks" -> after(<<Word("all"), Word("checks")>>)
      [] d.kind = "hits" -> after(<<Token("INTEGER", d.n), Word("hits")>>)
      [] d.kind = "timeout" -> after(<<Token("INTEGER", d.n), Word("s")>>)

Line(indent, tokens) == [indent |-> indent, tokens |-> tokens]

FormatProc(p) ==
  LET block(lb) == <<Line(1, FormatLocation(lb.loc))>>
                     \o [i \in DOMAIN lb.actions |-> Line(2, FormatAction(lb.actions[i]))]
  IN  <<Line(0, <<Word("proc")>> \o p.name)>>
        \o FlattenSeq([i \in DOMAIN p.locs |-> block(p.locs[i])])

FormatSpec(spec) ==
  [i \in DOMAIN spec.directives |-> Line(0, FormatDirective(spec.directives[i]))]
    \o (IF spec.directives # <<>> /\ spec.procs # <<>> THEN <<Line(0, <<>>)>> ELSE <<>>)
    \o FlattenSeq([i \in DOMAIN spec.procs |-> FormatProc(spec.procs[i])])

-----------------------------------------------------------------------------
(* What the parser makes of the formatted text.                            *)

Lexemes(tokens) ==
  [i \in DOMAIN tokens |->
     IF tokens[i].k = "INTEGER" /\ tokens[i].v < 0 THEN Token("NEG", 0 - tokens[i].v)
     ELSE tokens[i]]

Reparse(spec) ==
  LET Of(lines) ==
        ParseSpec([i \in DOMAIN lines |-> Line(lines[i].indent, Tokenise(Lexemes(lines[i].tokens)))])
  IN  Of(FormatSpec(spec))

\* Formatting a specification and parsing it again gives the same one
Stable(spec) ==
  LET Same(again) == again.ok /\ again.directives = spec.directives /\ again.procs = spec.procs
  IN  spec.ok => Same(Reparse(spec))

(* The formatter does not cover addresses: as the place of a breakpoint,   *)
(* and in brackets.                                                        *)
NamesLocation(loc) == loc.type \in {"entry", "exit", "line"}
NamesTarget(t) == t.type = "indirect" => t.ref.type # "address"

Symbolic(spec) ==
  /\ \A i \in DOMAIN spec.directives :
        spec.directives[i].kind \in {"start", "stop"} => NamesLocation(spec.directives[i].loc)
  /\ \A p \in DOMAIN spec.procs : \A l \in DOMAIN spec.procs[p].locs :
        LET lb == spec.procs[p].locs[l] IN
          /\ NamesLocation(lb.loc)
          /\ \A a \in DOMAIN lb.actions : NamesTarget(lb.actions[a].target)
=============================================================================
