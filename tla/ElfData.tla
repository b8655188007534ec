------------------------------- MODULE ElfData -------------------------------
(***************************************************************************)
(* Debug data of a program of several modules: pylib/elfdata.py, from the  *)
(* text of the listings to the entries of the types (extract and           *)
(* generate_dwarf).                                                        *)
(*                                                                         *)
(* A program is a sequence of modules in the order of their files, which   *)
(* is that of their names, whoever imports whom.  It is given as           *)
(* declarations, with types as trees, which are what the compiler takes    *)
(* the text to mean; the tool sees the text made from them.                *)
(***************************************************************************)
EXTENDS ElfEntries

CONSTANTS
  Programs,     \* sequences of modules without declarations to choose
  Menu,         \* sequence of [module, kind, decl]: what may be declared
  MaxDecls,     \* bound: declarations in a program
  Words,        \* the words statements are made of
  MaxWords,     \* bound: words in a body
  Top,          \* upper end of the data of each module
  Sizes         \* the sizes of records the listings tell, by name

VARIABLES
  phase,        \* "text", "deferred", "types", "entries", "done"
  program,      \* the program, as the compiler sees it
  world,        \* heap and modules of the tool
  at,           \* the module that is resolved next
  entries       \* type entries by key, for each module

dataVars == <<phase, program, world, at, entries>>

-----------------------------------------------------------------------------
(* Types as the compiler sees them, and their text.                        *)

Type(kind) == [kind |-> kind, name |-> None, dim |-> None, fields |-> <<>>]
Named(name) == [Type("name") EXCEPT !.name = name]
ArrayN(dim, of) == [Type("array") EXCEPT !.dim = dim, !.fields = <<[names |-> <<"[]">>, type |-> of]>>]
Pointer(to) == [Type("pointer") EXCEPT !.fields = <<[names |-> <<"^">>, type |-> to]>>]
Record(base, fields) == [Type("record") EXCEPT !.name = base, !.fields = fields]
Procedure == Type("proc")
OpenArray(of) == [ArrayN(None, of) EXCEPT !.kind = "open"]

Sign(k) == <<Token(k, "")>>
TextOfName(name) ==
  IF Len(name) = 1 THEN <<Ident(name[1])>> ELSE <<Ident(name[1])>> \o Sign("DOT") \o <<Ident(name[2])>>
TextOfNames(names) ==
  Tail(FlattenSeq(Images(names, LAMBDA n : Sign("COMMA") \o <<Ident(n)>>)))

\* A dimension is a number or a name
Number(n) == [number |-> TRUE, n |-> n, name |-> None]
Constant(name) == [number |-> FALSE, n |-> 0, name |-> name]
TextOfDim(d) == IF d.number THEN <<Token("INTEGER", d.n)>> ELSE TextOfName(d.name)

RECURSIVE TextOf(_)
TextOfDecl(d) == TextOfNames(d.names) \o Sign("COLON") \o TextOf(d.type) \o Sign("SEMI")
TextOf(t) ==
  CASE t.kind = "name" -> TextOfName(t.name)
    [] t.kind = "array" -> <<Ident("ARRAY")>> \o TextOfDim(t.dim) \o <<Ident("OF")>> \o TextOf(t.fields[1].type)
    [] t.kind = "open" -> <<Ident("ARRAY"), Ident("OF")>> \o TextOf(t.fields[1].type)
    [] t.kind = "pointer" -> <<Ident("POINTER"), Ident("TO")>> \o TextOf(t.fields[1].type)
    [] t.kind = "proc" -> <<Ident("PROCEDURE")>>
    [] t.kind = "record" ->
         <<Ident("RECORD")>>
           \o (IF t.name = None THEN <<>> ELSE Sign("LPAREN") \o TextOfName(t.name) \o Sign("RPAREN"))
           \o FlattenSeq(Images(t.fields, TextOfDecl)) \o <<Ident("END")>>

TextOfConst(c) == <<Ident(c.name)>> \o Sign("EQ") \o TextOfDim(c.value) \o Sign("SEMI")
TextOfTypeDecl(d) == <<Ident(d.name)>> \o Sign("EQ") \o TextOf(d.type) \o Sign("SEMI")
TextOfParam(d) ==
  (IF d.byRef THEN <<Ident("VAR")>> ELSE <<>>) \o TextOfNames(d.names) \o Sign("COLON") \o TextOf(d.type)

\* The body: statements in BEGIN .. END, or, of a procedure without locals,
\* only RETURN
TextOfProc(p) ==
  <<Ident("PROCEDURE")>> \o (IF p.leaf THEN Sign("STAR") ELSE <<>>) \o <<Ident(p.name)>>
    \o Sign("LPAREN") \o (IF p.params = <<>> THEN <<>>
         ELSE Tail(FlattenSeq(Images(p.params, LAMBDA d : Sign("SEMI") \o TextOfParam(d)))))
    \o Sign("RPAREN") \o Sign("SEMI")
    \o (IF p.locals = <<>> THEN <<>> ELSE <<Ident("VAR")>> \o FlattenSeq(Images(p.locals, TextOfDecl)))
    \o (IF p.body = <<>> /\ p.locals = <<>> THEN <<>> ELSE <<Ident("BEGIN")>>) \o Images(p.body, Ident)
    \o <<Ident("RETURN"), Ident("x"), Ident("END"), Ident(p.name)>> \o Sign("SEMI")

Section(word, texts) == IF texts = <<>> THEN <<>> ELSE <<Ident(word)>> \o FlattenSeq(texts)

\* Imports: alias := module
TextOfImports(imports) ==
  Tail(FlattenSeq(Images(imports, LAMBDA i :
    Sign("COMMA") \o <<Ident(i.alias)>> \o Sign("COLON") \o Sign("EQ") \o <<Ident(i.module)>>)))

TextOfModule(m) ==
  <<Ident("MODULE"), Ident(m.name)>> \o Sign("SEMI")
    \o (IF m.imports = <<>> THEN <<>> ELSE <<Ident("IMPORT")>> \o TextOfImports(m.imports) \o Sign("SEMI"))
    \o Section("CONST", Images(m.consts, TextOfConst))
    \o Section("TYPE", Images(m.types, TextOfTypeDecl))
    \o Section("VAR", Images(m.vars, TextOfDecl))
    \o FlattenSeq(Images(m.procs, TextOfProc))
    \o <<Ident("BEGIN"), Ident("END"), Ident(m.name)>> \o Sign("DOT")

-----------------------------------------------------------------------------
(* What the compiler takes a type to be: names replaced by what they stand *)
(* for in the module that uses them.  Behind two pointers nothing is told. *)

Shape(kind, n, parts) == [kind |-> kind, n |-> n, parts |-> parts]
Part(name, shape) == [name |-> name, shape |-> shape]
Unknown == Shape("unknown", 0, <<>>)
Cut == Shape("...", 0, <<>>)

Called(name) == SelectSeq(program, LAMBDA m : m.name = name)[1]
Home(m, name) ==
  IF Len(name) = 1 THEN m
  ELSE Called(SelectSeq(m.imports, LAMBDA i : i.alias = name[1])[1].module)
Find(decls, name) == SelectSeq(decls, LAMBDA d : d.name = Last(name))[1]

RECURSIVE TrueConst(_, _)
TrueConst(m, d) ==
  IF d.number THEN d.n ELSE TrueConst(Home(m, d.name), Find(Home(m, d.name).consts, d.name).value)

RECURSIVE TrueShape(_, _, _), TrueFields(_, _, _)
TrueFields(m, t, depth) ==
  LET Base(home) == TrueFields(home, Find(home.types, t.name).type, depth)
      Own == FlattenSeq(Images(t.fields, LAMBDA f :
               Let(TrueShape(m, f.type, depth), LAMBDA s : Images(f.names, LAMBDA x : Part(x, s)))))
  IN  (IF t.name = None THEN <<>> ELSE Base(Home(m, t.name))) \o Own

TrueShape(m, t, depth) ==
  LET Inner(d) == Part("", TrueShape(m, t.fields[1].type, d))
      Named1(home) == TrueShape(home, Find(home.types, t.name).type, depth)
  IN  CASE t.kind = "name" -> IF IsBase(t.name) THEN Shape(t.name[1], 0, <<>>) ELSE Named1(Home(m, t.name))
        [] t.kind = "array" -> Shape("array", TrueConst(m, t.dim), <<Inner(depth)>>)
        [] t.kind = "open" -> Shape("open", 0, <<Inner(depth)>>)
        [] t.kind = "pointer" -> IF depth = 0 THEN Cut ELSE Shape("pointer", 0, <<Inner(depth - 1)>>)
        [] t.kind = "proc" -> Shape("PROCEDURE", 0, <<>>)
        [] t.kind = "record" -> Shape("record", 0, TrueFields(m, t, depth))

\* What a debugger takes a type to be, from the entries
RECURSIVE EntryShape(_, _, _, _)
EntryShape(w, es, key, depth) ==
  LET e == es[key]
      n == w.heap[e.id]
      Inner(d) == Part("", EntryShape(w, es, e.target, d))
  IN  CASE key \notin DOMAIN es -> Unknown
        [] key \in DOMAIN es /\ e.id = 0 -> Shape(key[1], 0, <<>>)
        [] key \in DOMAIN es /\ e.id # 0 ->
             CASE n.ptr # 0 -> IF depth = 0 THEN Cut ELSE Shape("pointer", 0, <<Inner(depth - 1)>>)
               [] n.ptr = 0 /\ n.dim > 0 -> Shape("array", n.dim, <<Inner(depth)>>)
               [] n.ptr = 0 /\ n.dim = 0 /\ n.open -> Shape("open", 0, <<Inner(depth)>>)
               [] OTHER -> Shape("record", 0, Images(e.members, LAMBDA x :
                             Part(x.name, EntryShape(w, es, x.key, depth))))

-----------------------------------------------------------------------------
DataInit ==
  /\ phase = "text" /\ program \in Programs
  /\ world = [heap |-> <<>>, mods |-> <<>>] /\ at = 1 /\ entries = <<>>

\* What a declaration mentions is declared before; behind a pointer it need not
RECURSIVE NamesIn(_)
NamesIn(t) ==
  (IF t.name = None THEN {} ELSE {t.name})
    \cup (IF t.kind = "pointer" THEN {} ELSE UNION {NamesIn(t.fields[i].type) : i \in DOMAIN t.fields})

IsDeclared(m, name) ==
  IsBase(name) \/ \E d \in Range(Home(m, name).types) : d.name = Last(name)

Typed(c) ==
  CASE c.kind \in {"types", "vars"} -> {c.decl.type}
    [] c.kind = "procs" -> {d.type : d \in Range(c.decl.params) \cup Range(c.decl.locals)}

Declarations ==
  LET Count(n, m) == n + Len(m.types) + Len(m.vars) + Len(m.procs)
  IN  Over(program, 0, Count)

\* The programmer declares something
Declare ==
  /\ phase = "text" /\ Declarations < MaxDecls
  /\ \E i \in at .. Len(Menu) :
       LET c == Menu[i]
           k == SelectInSeq(program, LAMBDA m : m.name = c.module)
       IN
         /\ \A t \in Typed(c) : \A n \in NamesIn(t) : IsDeclared(program[k], n)
         /\ program' = [program EXCEPT ![k][c.kind] = Append(@, c.decl)]
         /\ at' = i + 1
  /\ UNCHANGED <<phase, world, entries>>

\* ... and writes a word of a statement of the procedure declared last
Write ==
  /\ phase = "text"
  /\ \E k \in DOMAIN program, word \in Words :
       LET procs == program[k].procs IN
         /\ procs # <<>> /\ Len(Last(procs).body) < MaxWords
         /\ word = "END" => Nesting(Last(procs).body) > 0
         /\ program' = [program EXCEPT ![k].procs[Len(procs)].body = Append(@, word)]
  /\ UNCHANGED <<phase, world, at, entries>>

\* All pointers lead to something, all statements are complete
Complete ==
  \A m \in Range(program) :
    /\ \A d \in Range(m.types) :
         d.type.kind = "pointer" => \A n \in NamesIn(d.type.fields[1].type) : IsDeclared(m, n)
    /\ \A p \in Range(m.procs) : Nesting(p.body) = 0

Parse ==
  /\ phase = "text" /\ Complete /\ phase' = "deferred"
  /\ world' = LoadModules(Images(program, LAMBDA m : ParseModule(TextOfModule(m))[1]))
  /\ UNCHANGED <<program, at, entries>>

ResolveDimensions ==
  /\ phase = "deferred" /\ phase' = "types"
  /\ world' = ResolveDeferred(world) /\ at' = 1
  /\ UNCHANGED <<program, entries>>

ResolveOne ==
  /\ phase = "types"
  /\ world' = ResolveModule(world, at)
  /\ IF at < Len(program) THEN at' = at + 1 /\ UNCHANGED phase ELSE at' = 1 /\ phase' = "entries"
  /\ UNCHANGED <<program, entries>>

\* Types that are looked up once more leave new objects in the heap
EnterOne ==
  /\ phase = "entries"
  /\ \E e \in {Entries(world, world.mods[at])} :
       /\ entries' = Append(entries, e.entries)
       /\ world' = [world EXCEPT !.heap = e.heap]
  /\ IF at < Len(program) THEN at' = at + 1 /\ UNCHANGED phase ELSE at' = 1 /\ phase' = "done"
  /\ UNCHANGED program

DataNext == Declare \/ Write \/ Parse \/ ResolveDimensions \/ ResolveOne \/ EnterOne
DataSpec == DataInit /\ [][DataNext]_dataVars

-----------------------------------------------------------------------------
(* Properties.                                                             *)

Depth == 2
Variables(m) == m.vars \o FlattenSeq(Images(m.procs, LAMBDA p : p.params \o p.locals))

\* Every variable, parameter and local of the program is in the debug data,
\* and its type there is the one the compiler sees (the constants,
\* names, bases and dimensions of several modules, found step by step).
VariablesDescribed ==
  phase = "done" => \A k \in DOMAIN program :
    LET true == Variables(program[k])
        found == Variables(world.mods[k])
        Key(d) == KeyAgain(world, world.mods[k], d.type)
    IN  /\ Images(found, LAMBDA d : d.names) = Images(true, LAMBDA d : d.names)
        /\ \A i \in DOMAIN true :
             EntryShape(world, entries[k], Key(found[i]), Depth) = TrueShape(program[k], true[i].type, Depth)

\* "exported type declarations get complete type DIEs even when not used by
\* any variable in the declaring module" (tools/changes/make-elf.md:10): each
\* declared record has an entry with the members the compiler gives it.
RecordsDescribed ==
  phase = "done" => \A k \in DOMAIN program : \A d \in Range(program[k].types) :
    LET shape == TrueShape(program[k], d.type, Depth) IN
      shape.kind = "record" => EntryShape(world, entries[k], <<d.name>>, Depth) = shape

\* "Supports all Oberon types: scalars, arrays, records, pointers, procedure
\* types, and cross-module type resolution." (tools/pylib/elfdata.py:11-12):
\* variables and declared records of any program.
TypesDescribed == VariablesDescribed /\ RecordsDescribed

\* The text of a body, with its own ENDs, does not end a procedure too soon
\* or too late: the procedures found are those of the program.
ProceduresFound ==
  phase # "text" => \A k \in DOMAIN program :
    Images(world.mods[k].procs, LAMBDA p : p.name) = Images(program[k].procs, LAMBDA p : p.name)

Apart(areas) ==
  \A i, j \in DOMAIN areas : i < j =>
    areas[i].at + areas[i].size <= areas[j].at \/ areas[j].at + areas[j].size <= areas[i].at

\* The addresses the tool works out again for the globals of a module are
\* those of separate areas below the top of its data, and no word is at an
\* address a load of a word would not accept.
GlobalsApart ==
  phase = "done" => \A m \in Range(world.mods) :
    Let(GlobalAddresses(world.heap, m.vars, Top, Sizes), LAMBDA areas :
      /\ Apart(areas)
      /\ \A a \in Range(areas) : a.at + a.size <= Top /\ (a.size >= 4 => a.at % 4 = 0))

\* In a procedure no two parameters or locals are found in the same place:
\* in the frame, or in the registers of a leaf, where an open array comes
\* with its length and a record with its type.
LocalsApart ==
  phase = "done" => \A m \in Range(world.mods) : \A p \in Range(m.procs) :
    LET h == world.heap
        Used(d, q) == [at |-> q.reg, size |-> IF h[d.type].open \/ IsRecord(h[d.type], Sizes) THEN 2 ELSE 1]
        Registers(params, locals) ==
          Apart([i \in DOMAIN params |-> Used(p.params[i], params[i])]
                  \o Images(locals, LAMBDA q : [at |-> q.reg, size |-> 1]))
        Frame(locals, size) ==
          Apart(locals \o Images(ParamOffsets(h, p.params, size, Sizes), LAMBDA q : [at |-> q.at, size |-> 4]))
    IN  IF p.leaf
        THEN Let(LeafLocals(h, p, Sizes), LAMBDA l :
               Registers(LeafParams(h, p.params, Sizes).at, l.regs) /\ Apart(l.frame))
        ELSE Frame(LocalAddresses(h, p.locals, Sizes), FrameSize(h, p.locals, Sizes))

\* No record extends one of a module whose file comes later if that one
\* names types: its members are copied before they are resolved
RECURSIVE AllNames(_)
AllNames(t) ==
  (IF t.name = None THEN {} ELSE {t.name}) \cup UNION {AllNames(t.fields[i].type) : i \in DOMAIN t.fields}
BasesResolved ==
  \A k \in DOMAIN program : \A d \in Range(program[k].types) :
    d.type.kind = "record" /\ Len(d.type.name) = 2 =>
      LET base == Home(program[k], d.type.name) IN
        \/ \E i \in 1 .. k : program[i] = base
        \/ \A n \in AllNames(Find(base.types, d.type.name).type) : IsBase(n)

\* No two modules declare types of one name: entries have it as their key
NamesApart ==
  \A i, j \in DOMAIN program : \A d \in Range(program[i].types), e \in Range(program[j].types) :
    d.name = e.name => i = j

\* What make-elf.py says of a program in the debug data is what the compiler
\* made of it: variables, records and procedures, whatever the order of the
\* files.  Bases and names that elfdata gets wrong are left to BasesResolved
\* and NamesApart; arrays of arrays, which it gets wrong too, to the program.
ModulesDescribed ==
  /\ BasesResolved /\ NamesApart => TypesDescribed
  /\ ProceduresFound

\* And it puts no two variables in the same place, globals or locals.
StorageApart == GlobalsApart /\ LocalsApart
=============================================================================
