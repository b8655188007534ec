----------------------------- MODULE GdbResolve ------------------------------
(***************************************************************************)
(* How pylib/gdbtestengine.py resolves a parsed specification: the values  *)
(* of the constants it names, and the addresses of its breakpoints.        *)
(*                                                                         *)
(* A module of the program is a record:                                    *)
(*   name, imports (from alias to module name), base (its code address in  *)
(*   the map file, or None),                                               *)
(*   listed   whether its listing file exists,                             *)
(*   parsed   the constants the listing parser found (name to value),      *)
(*   decls    the lines of all CONST sections of its listing, in order,    *)
(*   asm      the instructions of its listing: [addr, op],                 *)
(*   lines    its line entries: [line, addr],                              *)
(*   frames   its frame infos: [addr, push, sub],                          *)
(*   procs    its procedures: [name, addr, size].                          *)
(* An expression is a literal, a sum, difference or product of two         *)
(* operands, a name, a name of another module, or anything else.           *)
(***************************************************************************)
EXTENDS GdbSpec, FiniteSets

NoConsts == [n \in {} |-> 0]

Literal(v) == [k |-> "literal", v |-> v]
Name(n) == [k |-> "name", n |-> n]
Foreign(m, n) == [k |-> "of", m |-> m, n |-> n]
Op(op, l, r) == [k |-> op, l |-> l, r |-> r]
Other == [k |-> "other"]

With(table, name, value) ==
  [n \in DOMAIN table \cup {name} |-> IF n = name THEN value ELSE table[n]]

-----------------------------------------------------------------------------
(* Constants.  A value is known or None; here it is in a sequence.         *)

Operand(e, known) ==
  CASE e.k = "literal" -> <<e.v>>
    [] e.k = "name" /\ e.n \in DOMAIN known -> <<known[e.n]>>
    [] OTHER -> None

Operators == {"+", "-", "*"}

Eval(e, known) ==
  LET Both(l, r) ==
        CASE l = None \/ r = None -> None
          [] e.k = "+" /\ l # None /\ r # None -> <<l[1] + r[1]>>
          [] e.k = "-" /\ l # None /\ r # None -> <<l[1] - r[1]>>
          [] e.k = "*" /\ l # None /\ r # None -> <<l[1] * r[1]>>
  IN  IF e.k \in Operators THEN Both(Operand(e.l, known), Operand(e.r, known))
      ELSE Operand(e, known)

\* Of two declarations of a name the later one counts, wherever it is
RawDef(decls, name) == decls[SelectLastInSeq(decls, LAMBDA d : d.name = name)].expr

Learn(known, name, value) ==
  IF name \in DOMAIN known \/ value = None THEN known ELSE With(known, name, value[1])

\* Rounds over the declarations, one more than there are names
Extract(decls) ==
  LET Rounds(names) ==
        FoldLeft(LAMBDA known, k : FoldLeft(LAMBDA t, n : Learn(t, n, Eval(RawDef(decls, n), t)),
                                            known, names),
                 NoConsts, <<0>> \o names)
  IN  Rounds(SetToSeq({decls[i].name : i \in DOMAIN decls}))

\* The constants of one module, before those of other modules are looked up
OwnConsts(m) == (IF m.listed THEN Extract(m.decls) ELSE NoConsts) @@ m.parsed

\* Mutant of RealName: an alias is taken for the name of the module
RealName_Alias(m, alias) == alias

RealName(m, alias) == IF alias \in DOMAIN m.imports THEN m.imports[alias] ELSE alias

\* What one line adds: a constant that is nothing but one of another module
AddImported(m, table, d) ==
  LET From(real) ==
        IF real \in DOMAIN table /\ d.name \notin DOMAIN table[m.name]
        THEN IF d.expr.n \in DOMAIN table[real]
             THEN [table EXCEPT ![m.name] = With(@, d.name, table[real][d.expr.n])]
             ELSE table
        ELSE table
  IN  IF m.listed /\ d.expr.k = "of" THEN From(RealName(m, d.expr.m)) ELSE table

\* One pass over the modules, in their order
ConstTable(modules) ==
  LET NamesOf == {modules[i].name : i \in DOMAIN modules}
      Module(n) == modules[SelectInSeq(modules, LAMBDA m : m.name = n)]
  IN  FoldLeft(LAMBDA table, m : FoldLeft(LAMBDA t, d : AddImported(m, t, d), table, m.decls),
               [n \in NamesOf |-> OwnConsts(Module(n))], modules)

-----------------------------------------------------------------------------
(* The constants in a specification.  The value of a const_ref that is in  *)
(* no table stops the resolver; all other values are known.                *)

Lookup(raw, table) ==
  IF raw[1].v \in DOMAIN table
  THEN IF raw[3].v \in DOMAIN table[raw[1].v] THEN <<table[raw[1].v][raw[3].v]>> ELSE None
  ELSE None

IntOf(value, table) ==
  CASE value.kind = "const_ref" -> Lookup(value.raw, table)
    [] value.kind = "nil" -> <<0>>
    [] value.kind = "bool" -> <<IF value.raw[1].v = "TRUE" THEN 1 ELSE 0>>
    [] OTHER -> <<value.raw[1].v>>

\* The values of an action: its expected value, the address of its target,
\* and the offset behind an indirect address
ValuesOf(a) ==
  (IF a.kind = "check" THEN {a.expected} ELSE {})
    \cup (IF a.target.type = "mem" THEN {a.target.ref} ELSE {})
    \cup (IF a.target.type = "indirect" /\ a.target.ref.sign # "none"
          THEN {a.target.ref.offset} ELSE {})

ActionsOf(spec) ==
  UNION {UNION {Range(spec.procs[p].locs[l].actions) : l \in DOMAIN spec.procs[p].locs}
         : p \in DOMAIN spec.procs}

ConstsKnown(spec, table) ==
  /\ \A a \in ActionsOf(spec) : \A v \in ValuesOf(a) : IntOf(v, table) # None
  /\ \A i \in DOMAIN spec.directives :
        LET d == spec.directives[i] IN
          d.kind \in {"start", "stop"} /\ d.cond.kind = "var"
            => IntOf(d.cond.value, table) # None

-----------------------------------------------------------------------------
(* Addresses.                                                              *)

Within(addr, p) == p.addr <= addr /\ addr < p.addr + p.size

\* The last return of a procedure, or the release of its frame right before
ExitAddress(asm, p) ==
  LET At(own, i) ==
        CASE i = 0 -> None
          [] i > 1 /\ own[i - 1].op = "add_sp" -> <<own[i - 1].addr>>
          [] OTHER -> <<own[i].addr>>
      In(own) == At(own, SelectLastInSeq(own, LAMBDA x : x.op = "pop_pc"))
  IN  In(SelectSeq(asm, LAMBDA x : Within(x.addr, p)))

\* The first entry for a line, in the whole module
LineAddress(lines, n) ==
  LET At(i) == IF i = 0 THEN None ELSE <<lines[i].addr>> IN
    At(SelectInSeq(lines, LAMBDA x : x.line = n))

\* Behind the instructions that build the frame, where the frame is known
EntryAddress(m, p) ==
  LET At(i) == IF i = 0 THEN <<p.addr>> ELSE <<p.addr + m.frames[i].push + m.frames[i].sub>> IN
    At(SelectInSeq(m.frames, LAMBDA f : f.addr = p.addr))

\* Of two procedures with a name the later one counts: its module and itself
ProcOf(modules, q) ==
  LET In(all, i) == IF i = 0 THEN None ELSE all[i]
      Among(all) == In(all, SelectLastInSeq(all, LAMBDA x : x[2].name = q))
  IN  Among(FlattenSeq([i \in DOMAIN modules |->
              [j \in DOMAIN modules[i].procs |-> <<modules[i], modules[i].procs[j]>>]]))

Base(modules, name) ==
  LET Of(i) == IF i = 0 THEN None ELSE modules[i].base IN
    Of(SelectInSeq(modules, LAMBDA m : m.name = name))

\* The address of a location of procedure q, or None
LocationAddress(modules, q, loc) ==
  LET Offset(base) == IF base = None THEN None ELSE <<base[1] + loc.value[1].v>>
      In(m, p) ==
        CASE loc.type = "offset" -> Offset(Base(modules, q[1].v))
          [] loc.type = "entry" -> EntryAddress(m, p)
          [] loc.type = "exit" -> IF m.listed THEN ExitAddress(m.asm, p) ELSE None
          [] loc.type = "line" -> LineAddress(m.lines, loc.value[1].v)
      Of(found) == IF found = None THEN None ELSE In(found[1], found[2])
  IN  IF loc.type = "address" THEN <<loc.value[1].v>> ELSE Of(ProcOf(modules, q))

-----------------------------------------------------------------------------
(* The resolved specification, or an error.                                *)

Breakpoint(modules, q, lb) ==
  [addr |-> LocationAddress(modules, q, lb.loc), proc |-> q, actions |-> lb.actions]

Breakpoints(spec, modules) ==
  FlattenSeq([p \in DOMAIN spec.procs |->
                [l \in DOMAIN spec.procs[p].locs |->
                   Breakpoint(modules, spec.procs[p].name, spec.procs[p].locs[l])]])

Directives(spec, modules) ==
  LET Resolved(d) ==
        IF d.kind \in {"start", "stop"}
        THEN [kind |-> d.kind, cond |-> d.cond, addr |-> LocationAddress(modules, d.proc, d.loc)]
        ELSE d
      Of(used) == [i \in DOMAIN used |-> Resolved(used[i])]
  IN  Of(SelectSeq(spec.directives, LAMBDA d : d.kind # "option"))

\* The ranges of all procedures in the order of their addresses
ProcMap(modules) ==
  LET all == FlattenSeq([i \in DOMAIN modules |->
               [j \in DOMAIN modules[i].procs |->
                  [from |-> modules[i].procs[j].addr,
                   to |-> modules[i].procs[j].addr + modules[i].procs[j].size,
                   name |-> modules[i].procs[j].name]]])
  IN  SortSeq(all, LAMBDA x, y : x.from < y.from)

Unresolved == [ok |-> FALSE]

Resolve(spec, modules) ==
  LET Placed(bps, dirs) ==
        IF /\ \A i \in DOMAIN bps : bps[i].addr # None
           /\ \A i \in DOMAIN dirs : dirs[i].kind \in {"start", "stop"} => dirs[i].addr # None
        THEN [ok |-> TRUE, bps |-> bps, dirs |-> dirs, procs |-> ProcMap(modules)]
        ELSE Unresolved
  IN  IF ConstsKnown(spec, ConstTable(modules))
      THEN Placed(Breakpoints(spec, modules), Directives(spec, modules))
      ELSE Unresolved

-----------------------------------------------------------------------------
(* What a constant is, whatever the order of the modules: the reference    *)
(* for the tables.                                                         *)

\* The values after any number of steps through the declarations of all
\* modules, a step at a time
TrueConsts(modules) ==
  LET value(t, m, e) ==
        IF e.k = "of"
        THEN LET real == m.imports[e.m] IN
               IF e.n \in DOMAIN t[real] THEN <<t[real][e.n]>> ELSE None
        ELSE Eval(e, t[m.name])
      step(t) ==
        [n \in DOMAIN t |->
           LET m == modules[CHOOSE i \in DOMAIN modules : modules[i].name = n]
               known == {d \in Range(m.decls) : value(t, m, d.expr) # None}
           IN  [c \in {d.name : d \in known} |->
                  value(t, m, (CHOOSE d \in known : d.name = c).expr)[1]]]
      after[i \in 0..9] ==
        IF i = 0 THEN [n \in {modules[j].name : j \in DOMAIN modules} |-> NoConsts]
        ELSE step(after[i - 1])
  IN  after[9]

DeclaredOnce(m) == \A i, j \in DOMAIN m.decls : m.decls[i].name = m.decls[j].name => i = j
=============================================================================
