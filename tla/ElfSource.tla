----------------------------- MODULE ElfSource -------------------------------
(***************************************************************************)
(* The parser of pylib/elfdata.py: from the Oberon text of a listing to    *)
(* the declarations of a module.  It is written for text the compiler has  *)
(* accepted, and steps over what it does not know.                         *)
(*                                                                         *)
(* A token has a kind and a text; of an integer the text is its value.  A  *)
(* name is a sequence of texts: <<"T">>, or <<"M", "T">> of a module.  A   *)
(* parser takes tokens and a position and returns a node and a position.   *)
(***************************************************************************)
EXTENDS Integers, Sequences, SequencesExt

Token(k, t) == [k |-> k, t |-> t]
Ident(t) == Token("IDENT", t)
Parsed(node, next) == [node |-> node, next |-> next]

None == <<>>

\* F of a value that is worked out once, before
Let(value, F(_)) == CHOOSE result \in {F(v) : v \in {value}} : TRUE

SectionKeywords ==
  {"VAR", "TYPE", "CONST", "PROCEDURE", "BEGIN", "END", "MODULE", "IMPORT"}

\* The words that are closed by an END
EndOpen == {"BEGIN", "IF", "WHILE", "FOR", "WITH", "CASE", "RECORD"}

-----------------------------------------------------------------------------
(* Tokens.  A line is a line of the listing, with an instruction, or a     *)
(* line of text: words, numbers, strings, brackets of comments and signs.  *)
(* Comments nest and run over lines.  A number ends where its decimal      *)
(* digits end: what follows, such as 0FFH, is dropped.  A sign the parser  *)
(* does not need, such as +, is dropped too.                               *)

Signs == {"COMMA", "COLON", "SEMI", "DOT", "DOTDOT", "STAR", "EQ",
          "LPAREN", "RPAREN", "LBRACKET", "RBRACKET"}

Read(state, x) ==
  CASE x.k = "(*" -> [state EXCEPT !.depth = @ + 1]
    [] x.k = "*)" /\ state.depth > 0 -> [state EXCEPT !.depth = @ - 1]
    [] x.k \in Signs \cup {"IDENT", "INTEGER"} /\ state.depth = 0 ->
         [state EXCEPT !.tokens = Append(@, x)]
    [] x.k = "HEX" /\ state.depth = 0 ->
         [state EXCEPT !.tokens = Append(@, Token("INTEGER", x.digits))]
    [] OTHER -> state

Tokenise(lines) ==
  FoldLeft(LAMBDA s, line : IF line.listing THEN s ELSE FoldLeft(Read, s, line.text),
           [tokens |-> <<>>, depth |-> 0], lines).tokens

Kind(ts, i) == IF i \in DOMAIN ts THEN ts[i].k ELSE "EOF"
Is(ts, i, w) == Kind(ts, i) = "IDENT" /\ ts[i].t = w
AtEnd(ts, i) == i > Len(ts)
AtSection(ts, i) == Kind(ts, i) = "IDENT" /\ ts[i].t \in SectionKeywords
AtName(ts, i) == Kind(ts, i) = "IDENT" /\ ts[i].t \notin SectionKeywords

\* The position behind a token of the kind, if there is one
Past(ts, i, kind) == IF Kind(ts, i) = kind THEN i + 1 ELSE i

\* The first position from i on where Test holds, or the end
Seek(ts, i, Test(_)) ==
  LET Least(found) == IF found = {} THEN Len(ts) + 1 ELSE Min(found)
  IN  Least({j \in i .. Len(ts) : Test(j)})

SkipToSemi(ts, i) == Past(ts, Seek(ts, i, LAMBDA j : Kind(ts, j) = "SEMI"), "SEMI")

\* A name, and the name behind a dot
QualName(ts, i) ==
  IF Kind(ts, i + 1) = "DOT" /\ Kind(ts, i + 2) = "IDENT"
  THEN Parsed(<<ts[i].t, ts[i + 2].t>>, i + 3)
  ELSE Parsed(<<ts[i].t>>, i + 1)

\* Names with their export marks, separated by commas
RECURSIVE IdentList(_, _, _)
IdentList(ts, i, names) ==
  LET Behind(j) ==
        IF Kind(ts, j) = "COMMA" THEN IdentList(ts, j + 1, names \o <<ts[i].t>>)
        ELSE Parsed(names \o <<ts[i].t>>, j)
  IN  IF Kind(ts, i) = "IDENT" THEN Behind(Past(ts, i + 1, "STAR")) ELSE Parsed(names, i)

-----------------------------------------------------------------------------
(* Types.                                                                  *)

TypeRef(name) ==
  [name |-> name, open |-> FALSE, dim |-> 0, deferred |-> None, elem |-> None,
   fields |-> None, base |-> None, ptr |-> None, proc |-> FALSE, scope |-> None]

ArrayOf(elem, dim) ==
  IF dim.known THEN [TypeRef(elem.name) EXCEPT !.dim = dim.n, !.elem = <<elem>>]
  ELSE [TypeRef(elem.name) EXCEPT !.deferred = dim.name, !.elem = <<elem>>]

Known(n) == [known |-> TRUE, n |-> n, name |-> None]
Deferred(name) == [known |-> FALSE, n |-> 0, name |-> name]

\* One dimension: a number, a known constant, or a name to be looked up later
ParseDim(ts, i, consts) ==
  LET Named(q) ==
        IF Len(q.node) = 1 /\ q.node[1] \in DOMAIN consts THEN Parsed(<<Known(consts[q.node[1]])>>, q.next)
        ELSE Parsed(<<Deferred(q.node)>>, q.next)
  IN  CASE Kind(ts, i) = "INTEGER" -> Parsed(<<Known(ts[i].t)>>, i + 1)
        [] Kind(ts, i) = "IDENT" -> Named(QualName(ts, i))
        [] OTHER -> Parsed(None, i)

RECURSIVE ParseDims(_, _, _, _)
ParseDims(ts, i, consts, dims) ==
  LET Behind(d) ==
        IF Kind(ts, d.next) = "COMMA" THEN ParseDims(ts, d.next + 1, consts, dims \o d.node)
        ELSE Parsed(dims \o d.node, d.next)
  IN  Behind(ParseDim(ts, i, consts))

RECURSIVE ParseType(_, _, _), ParseFields(_, _, _, _)

\* What is between the dimensions and OF is stepped over; without a
\* dimension it is 0
ParseArray(ts, i, consts) ==
  LET Open(elem) == Parsed([TypeRef(elem.node.name) EXCEPT !.open = TRUE, !.elem = <<elem.node>>],
                           elem.next)
      Of(dims, elem) ==
        Parsed(FoldRight(LAMBDA d, t : ArrayOf(t, d),
                         IF dims = <<>> THEN <<Known(0)>> ELSE dims, elem.node), elem.next)
      Elem(j) == ParseType(ts, IF Is(ts, j, "OF") THEN j + 1 ELSE j, consts)
      Fixed(d) == Of(d.node, Elem(Seek(ts, d.next, LAMBDA j : Is(ts, j, "OF"))))
  IN  IF Is(ts, i, "OF") THEN Open(ParseType(ts, i + 1, consts))
      ELSE Fixed(ParseDims(ts, i, consts, <<>>))

ParseFields(ts, i, consts, fields) ==
  LET Typed(names, type) ==
        ParseFields(ts, Past(ts, type.next, "SEMI"), consts,
                    Append(fields, [names |-> names, type |-> type.node]))
      Field(ids) ==
        IF Kind(ts, ids.next) # "COLON" THEN ParseFields(ts, SkipToSemi(ts, ids.next), consts, fields)
        ELSE Typed(ids.node, ParseType(ts, ids.next + 1, consts))
  IN  CASE AtEnd(ts, i) -> Parsed(fields, i)
        [] Is(ts, i, "END") -> Parsed(fields, i + 1)
        [] AtName(ts, i) -> Field(IdentList(ts, i, <<>>))
        [] OTHER -> ParseFields(ts, i + 1, consts, fields)

ParseRecord(ts, i, consts) ==
  LET Record(base, fields) ==
        Parsed([TypeRef(<<"RECORD">>) EXCEPT !.fields = <<fields.node>>, !.base = base], fields.next)
      Extends(q) == Record(q.node, ParseFields(ts, Past(ts, q.next, "RPAREN"), consts, <<>>))
  IN  IF Kind(ts, i) = "LPAREN" /\ Kind(ts, i + 1) = "IDENT" THEN Extends(QualName(ts, i + 1))
      ELSE Record(None, ParseFields(ts, i, consts, <<>>))

ParsePointer(ts, i, consts) ==
  LET To(t) == Parsed([TypeRef(<<"POINTER TO">> \o t.node.name) EXCEPT !.ptr = <<t.node>>], t.next)
  IN  To(ParseType(ts, IF Is(ts, i, "TO") THEN i + 1 ELSE i, consts))

\* The position behind the parenthesis that closes the one before i
RECURSIVE Closing(_, _, _)
Closing(ts, i, depth) ==
  IF AtEnd(ts, i) \/ depth = 0 THEN i
  ELSE Closing(ts, i + 1, CASE Kind(ts, i) = "LPAREN" -> depth + 1
                            [] Kind(ts, i) = "RPAREN" -> depth - 1
                            [] OTHER -> depth)

\* Parameters and result of a procedure type are stepped over
ParseProcType(ts, i, consts) ==
  LET Result(j) == IF Kind(ts, j) = "COLON" THEN ParseType(ts, j + 1, consts).next ELSE j
      Type(j) == Parsed([TypeRef(<<"PROCEDURE">>) EXCEPT !.proc = TRUE], j)
  IN  Type(Result(IF Kind(ts, i) = "LPAREN" THEN Closing(ts, i + 1, 1) ELSE i))

ParseType(ts, i, consts) ==
  LET Named(q) == Parsed(TypeRef(q.node), q.next) IN
    CASE Is(ts, i, "ARRAY") -> ParseArray(ts, i + 1, consts)
      [] Is(ts, i, "RECORD") -> ParseRecord(ts, i + 1, consts)
      [] Is(ts, i, "POINTER") -> ParsePointer(ts, i + 1, consts)
      [] Is(ts, i, "PROCEDURE") -> ParseProcType(ts, i + 1, consts)
      [] Kind(ts, i) # "IDENT" -> Parsed(TypeRef(<<"UNKNOWN">>), i)
      [] OTHER -> Named(QualName(ts, i))

-----------------------------------------------------------------------------
(* Sections of declarations.                                               *)

\* A record in a field gets a name from the record and the field
RECURSIVE NameAnonymous(_, _)
NameAnonymous(type, prefix) ==
  LET Inner(f) ==
        IF f.type.name = <<"RECORD">> /\ f.type.fields # None
        THEN [f EXCEPT !.type = NameAnonymous([f.type EXCEPT !.name = prefix \o <<"__", f.names[1]>>],
                                              prefix \o <<"__", f.names[1]>>)]
        ELSE f
  IN  IF type.fields = None THEN type
      ELSE [type EXCEPT !.fields = <<[i \in DOMAIN type.fields[1] |-> Inner(type.fields[1][i])]>>]

\* The type a declaration gives to a name: records, pointers and procedure
\* types get the name, any other keeps the one it has
Declared(name, t) ==
  CASE t.name = <<"RECORD">> -> NameAnonymous([TypeRef(name) EXCEPT !.fields = t.fields, !.base = t.base], name)
    [] t.name # <<"RECORD">> /\ t.ptr # None -> [TypeRef(name) EXCEPT !.ptr = t.ptr]
    [] t.name # <<"RECORD">> /\ t.ptr = None /\ t.proc -> [TypeRef(name) EXCEPT !.proc = TRUE]
    [] OTHER -> t

RECURSIVE ParseTypeDecls(_, _, _, _)
ParseTypeDecls(ts, i, consts, defs) ==
  LET Typed(type) ==
        ParseTypeDecls(ts, Past(ts, type.next, "SEMI"), consts,
                       Append(defs, [name |-> ts[i].t, type |-> Declared(<<ts[i].t>>, type.node)]))
      Named(j) ==
        IF Kind(ts, j) = "EQ" THEN Typed(ParseType(ts, j + 1, consts))
        ELSE ParseTypeDecls(ts, SkipToSemi(ts, j), consts, defs)
  IN  IF AtName(ts, i) THEN Named(Past(ts, i + 1, "STAR")) ELSE Parsed(defs, i)

RECURSIVE ParseVarDecls(_, _, _, _)
ParseVarDecls(ts, i, consts, vars) ==
  LET Typed(names, type) ==
        ParseVarDecls(ts, Past(ts, type.next, "SEMI"), consts,
                      Append(vars, [names |-> names, type |-> type.node]))
      Named(ids) ==
        IF Kind(ts, ids.next) = "COLON" THEN Typed(ids.node, ParseType(ts, ids.next + 1, consts))
        ELSE ParseVarDecls(ts, SkipToSemi(ts, ids.next), consts, vars)
  IN  IF AtName(ts, i) THEN Named(IdentList(ts, i, <<>>)) ELSE Parsed(vars, i)

Imports(ts, i) ==
  LET end == Seek(ts, i, LAMBDA j : Kind(ts, j) = "SEMI")
      starts == {j \in i .. end - 1 : Kind(ts, j) = "IDENT" /\ (j = i \/ Kind(ts, j - 1) = "COMMA")}
  IN  Parsed([a \in {ts[j].t : j \in starts} |->
                LET j == CHOOSE k \in starts : ts[k].t = a IN
                  IF Kind(ts, j + 1) = "COLON" /\ Kind(ts, j + 2) = "EQ" THEN ts[j + 3].t ELSE a],
             Past(ts, end, "SEMI"))

(* Constants: a single number, or a single name; of a name that is not     *)
(* known (yet) the name is kept for later.  All else is stepped over.      *)

Env == [consts |-> [n \in {} |-> 0], deferred |-> [n \in {} |-> None]]
Put(f, n, v) == [m \in DOMAIN f \cup {n} |-> IF m = n THEN v ELSE f[m]]

ConstValue(ts, i, env, name) ==
  LET Alone(j) == Kind(ts, j) = "SEMI"
      Named(q) ==
        CASE ~Alone(q.next) -> env
          [] Alone(q.next) /\ Len(q.node) = 1 /\ q.node[1] \in DOMAIN env.consts ->
               [env EXCEPT !.consts = Put(@, name, env.consts[q.node[1]])]
          [] OTHER -> [env EXCEPT !.deferred = Put(@, name, q.node)]
  IN  CASE Kind(ts, i) = "INTEGER" /\ Alone(i + 1) -> [env EXCEPT !.consts = Put(@, name, ts[i].t)]
        [] Kind(ts, i) = "IDENT" -> Named(QualName(ts, i))
        [] OTHER -> env

RECURSIVE ParseConsts(_, _, _)
ParseConsts(ts, i, env) ==
  LET Behind(j) == Past(ts, Seek(ts, j, LAMBDA k : Kind(ts, k) = "SEMI" \/ AtSection(ts, k)), "SEMI")
      Is1(j) == IF Kind(ts, j) = "EQ" THEN ConstValue(ts, j + 1, env, ts[i].t) ELSE env
  IN  CASE AtEnd(ts, i) \/ AtSection(ts, i) -> Parsed(env, i)
        [] AtName(ts, i) -> ParseConsts(ts, Behind(Past(ts, i + 1, "STAR")), Is1(Past(ts, i + 1, "STAR")))
        [] OTHER -> ParseConsts(ts, i + 1, env)

-----------------------------------------------------------------------------
(* Procedures.                                                             *)

ParamType(name, open) ==
  IF open THEN [TypeRef(name) EXCEPT !.open = TRUE, !.elem = <<TypeRef(name)>>] ELSE TypeRef(name)

\* [VAR] names: [ARRAY OF] type.  Text without a name, colon or type where
\* one is due is not consumed, and the parser does not return.
RECURSIVE ParseParams(_, _, _, _)
ParseParams(ts, i, consts, params) ==
  LET Param(names, byRef, type, j) ==
        ParseParams(ts, Past(ts, j, "SEMI"), consts,
                    Append(params, [names |-> names, byRef |-> byRef, type |-> type]))
      Qualified(names, byRef, open, q) == Param(names, byRef, ParamType(q.node, open), q.next)
      Procedure(names, byRef, t) == Param(names, byRef, t.node, t.next)
      Typed(names, byRef, j, open) ==
        CASE Is(ts, j, "PROCEDURE") -> Procedure(names, byRef, ParseProcType(ts, j + 1, consts))
          [] Kind(ts, j) = "IDENT" /\ ~Is(ts, j, "PROCEDURE") ->
               Qualified(names, byRef, open, QualName(ts, j))
          [] OTHER -> ParseParams(ts, Past(ts, j, "SEMI"), consts, params)
      OpenOr(names, byRef, j) ==
        IF Is(ts, j, "ARRAY") /\ Is(ts, j + 1, "OF") THEN Typed(names, byRef, j + 2, TRUE)
        ELSE Typed(names, byRef, IF Is(ts, j, "ARRAY") THEN j + 1 ELSE j, FALSE)
      Section(ids, byRef) ==
        IF Kind(ts, ids.next) = "COLON" THEN OpenOr(ids.node, byRef, ids.next + 1)
        ELSE ParseParams(ts, Past(ts, ids.next, "SEMI"), consts, params)
  IN  IF AtEnd(ts, i) \/ Kind(ts, i) = "RPAREN" THEN Parsed(params, Past(ts, i, "RPAREN"))
      ELSE Section(IdentList(ts, IF Is(ts, i, "VAR") THEN i + 1 ELSE i, <<>>), Is(ts, i, "VAR"))

\* The position behind the END that closes the words that are open
RECURSIVE BodyEnd(_, _, _)
BodyEnd(ts, i, depth) ==
  IF AtEnd(ts, i) \/ depth = 0 THEN i
  ELSE BodyEnd(ts, i + 1,
               CASE Kind(ts, i) = "IDENT" /\ ts[i].t \in EndOpen -> depth + 1
                 [] Is(ts, i, "END") -> depth - 1
                 [] OTHER -> depth)

\* Without BEGIN, the last END is one that closes nothing, or one that
\* closes the outermost word that is open and is followed by the name
RECURSIVE BareEnd(_, _, _, _)
BareEnd(ts, i, depth, name) ==
  LET Named(j) == IF Is(ts, j, name) THEN Past(ts, j + 1, "SEMI") ELSE j
      OpensOne == Kind(ts, i) = "IDENT" /\ ts[i].t \in EndOpen
      LastEnd == Is(ts, i, "END") /\ (depth = 0 \/ (depth = 1 /\ Is(ts, i + 1, name)))
  IN  CASE AtEnd(ts, i) -> i
        [] LastEnd -> Named(i + 1)
        [] OTHER -> BareEnd(ts, i + 1, CASE OpensOne -> depth + 1
                                         [] Is(ts, i, "END") -> depth - 1
                                         [] OTHER -> depth, name)

\* The position behind the END name; of a procedure
SkipBody(ts, i, name) ==
  LET Close(j) == Past(ts, Past(ts, j, "IDENT"), "SEMI") IN
    CASE Is(ts, i, "BEGIN") -> Close(BodyEnd(ts, i + 1, 1))
      [] Is(ts, i, "END") -> Close(i + 1)
      [] OTHER -> BareEnd(ts, i, 0, name)

RECURSIVE ParseProcedure(_, _, _), SkipInner(_, _, _)

\* Local procedures are parsed, for their constants, and dropped
SkipInner(ts, i, env) ==
  LET Next(p) == SkipInner(ts, p.next, p.env) IN
    IF Is(ts, i, "PROCEDURE") THEN Next(ParseProcedure(ts, i, env))
    ELSE [next |-> i, env |-> env]

RECURSIVE ParseVarSections(_, _, _, _)
ParseVarSections(ts, i, consts, vars) ==
  LET Next(v) == ParseVarSections(ts, v.next, consts, v.node) IN
    IF Is(ts, i, "VAR") THEN Next(ParseVarDecls(ts, i + 1, consts, vars)) ELSE Parsed(vars, i)

\* PROCEDURE [*] name [*] [[n]] [(params)] [: type]; declarations body
ParseProcedure(ts, i, env) ==
  LET nameAt == Past(ts, i + 1, "STAR")
      leaf == Kind(ts, i + 1) = "STAR"
      Body(proc, inner) ==
        [node |-> <<proc>>, next |-> SkipBody(ts, inner.next, ts[nameAt].t), env |-> inner.env]
      Vars(proc, v, env2) == Body([proc EXCEPT !.locals = v.node], SkipInner(ts, v.next, env2))
      Types(proc, d, env2) ==
        Vars([proc EXCEPT !.types = d.node], ParseVarSections(ts, d.next, env2.consts, <<>>), env2)
      Consts(proc, c) ==
        Types(proc, IF Is(ts, c.next, "TYPE") THEN ParseTypeDecls(ts, c.next + 1, c.node.consts, <<>>)
                    ELSE Parsed(<<>>, c.next), c.node)
      Declarations(proc, j) ==
        Consts(proc, IF Is(ts, j, "CONST") THEN ParseConsts(ts, j + 1, env) ELSE Parsed(env, j))
      Result(proc, j) ==
        Declarations(proc, Past(ts, IF Kind(ts, j) = "COLON" THEN ParseType(ts, j + 1, env.consts).next
                                    ELSE j, "SEMI"))
      Params(proc, p) == Result([proc EXCEPT !.params = p.node], p.next)
      Interrupt(j) == Kind(ts, j) = "LBRACKET"
      Opening(j) ==
        Params([name |-> ts[nameAt].t, leaf |-> leaf, interrupt |-> Interrupt(Past(ts, nameAt + 1, "STAR")),
                params |-> <<>>, locals |-> <<>>, types |-> <<>>],
               IF Kind(ts, j) = "LPAREN" THEN ParseParams(ts, j + 1, env.consts, <<>>)
               ELSE Parsed(<<>>, j))
      Number(j) ==
        Opening(IF Interrupt(j)
             THEN Past(ts, Past(ts, j + 1, "INTEGER"), "RBRACKET") ELSE j)
  IN  IF Kind(ts, nameAt) = "IDENT" THEN Number(Past(ts, nameAt + 1, "STAR"))
      ELSE [node |-> None, next |-> nameAt, env |-> env]

-----------------------------------------------------------------------------
(* The module.                                                             *)

RECURSIVE ParseSections(_, _, _)
ParseSections(ts, i, m) ==
  LET On(next, m1) == Let(m1, LAMBDA v : ParseSections(ts, next, v))
      Import(p) == On(p.next, [m EXCEPT !.imports = p.node @@ @])
      Consts(p) == On(p.next, [m EXCEPT !.env = p.node])
      Types(p) == On(p.next, [m EXCEPT !.types = p.node])
      Vars(p) == On(p.next, [m EXCEPT !.vars = p.node])
      Procs(p) == On(p.next, [m EXCEPT !.procs = @ \o p.node, !.env = p.env])
  IN  CASE Is(ts, i, "IMPORT") -> Let(Imports(ts, i + 1), Import)
        [] Is(ts, i, "CONST") -> Let(ParseConsts(ts, i + 1, m.env), Consts)
        [] Is(ts, i, "TYPE") -> Let(ParseTypeDecls(ts, i + 1, m.env.consts, m.types), Types)
        [] Is(ts, i, "VAR") -> Let(ParseVarDecls(ts, i + 1, m.env.consts, m.vars), Vars)
        [] Is(ts, i, "PROCEDURE") -> Let(ParseProcedure(ts, i, m.env), Procs)
        [] AtEnd(ts, i) \/ Is(ts, i, "BEGIN") \/ Is(ts, i, "END") -> m
        [] OTHER -> ParseSections(ts, i + 1, m)

EmptyModule(name) ==
  [name |-> name, imports |-> [a \in {} |-> ""], types |-> <<>>, vars |-> <<>>,
   procs |-> <<>>, env |-> Env]

ParseModule(ts) ==
  LET At(i) ==
        IF AtEnd(ts, i) THEN None
        ELSE <<ParseSections(ts, Past(ts, i + 2, "SEMI"),
                             EmptyModule(IF Kind(ts, i + 1) = "IDENT" THEN ts[i + 1].t ELSE "Unknown"))>>
  IN  At(Seek(ts, 1, LAMBDA i : Is(ts, i, "MODULE")))

-----------------------------------------------------------------------------
(* The reference: the words of a body that are open.                       *)

\* The text is a sequence of complete statements of a procedure: each END
\* closes a word that is open
Nesting(words) ==
  FoldLeft(LAMBDA d, w : CASE w \in {"IF", "WHILE", "FOR", "CASE"} -> d + 1
                           [] w = "END" -> d - 1
                           [] OTHER -> d, 0, words)
=============================================================================
