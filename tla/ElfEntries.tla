----------------------------- MODULE ElfEntries ------------------------------
(***************************************************************************)
(* The debug data of one module in pylib/elfdata.py: sizes and places of   *)
(* variables, and the entries for types, under keys made from their names. *)
(***************************************************************************)
EXTENDS ElfTypes

-----------------------------------------------------------------------------
(* Sizes and places.  sizes holds what the listing says of records.        *)

BaseSize(t) == IF t \in {"CHAR", "BOOLEAN", "BYTE"} THEN 1 ELSE 4
RoundUp(n) == ((n + 3) \div 4) * 4
RoundDown(n) == (n \div 4) * 4

TypeAlign(n) ==
  IF ~IsArray(n) /\ IsBase(n.name) THEN BaseSize(n.name[1]) ELSE 4

\* Names and sizes laid out upwards, each at its alignment
Upwards(slots) ==
  Over(slots, [at |-> <<>>, next |-> 0], LAMBDA acc, s :
    Let(IF s.align > 1 THEN RoundUp(acc.next) ELSE acc.next, LAMBDA p :
      [at |-> Append(acc.at, [name |-> s.name, at |-> p, size |-> s.size]), next |-> p + s.size]))

RECURSIVE TypeSize(_, _, _), FrameSize(_, _, _)
AllocSize(h, id, sizes) ==
  IF IsArray(h[id]) THEN RoundUp(TypeSize(h, id, sizes)) ELSE TypeSize(h, id, sizes)
Slots(h, vars, sizes) ==
  FlattenSeq(Images(vars, LAMBDA v : Images(v.names, LAMBDA x :
    [name |-> x, size |-> AllocSize(h, v.type, sizes), align |-> TypeAlign(h[v.type])])))

TypeSize(h, id, sizes) ==
  LET n == h[id] IN
    CASE n.proc \/ n.ptr # 0 -> 4
      [] ~n.proc /\ n.ptr = 0 /\ n.dim > 0 /\ n.elem # 0 -> n.dim * TypeSize(h, n.elem, sizes)
      [] ~n.proc /\ n.ptr = 0 /\ (n.dim = 0 \/ n.elem = 0) ->
           CASE IsBase(n.name) -> BaseSize(n.name[1])
             [] ~IsBase(n.name) /\ n.name \in DOMAIN sizes -> sizes[n.name]
             [] ~IsBase(n.name) /\ n.name \notin DOMAIN sizes /\ n.fields # None ->
                  FrameSize(h, n.fields[1], sizes)
             [] OTHER -> 4

LocalAddresses(h, vars, sizes) == Upwards(Slots(h, vars, sizes)).at
FrameSize(h, vars, sizes) == RoundUp(Upwards(Slots(h, vars, sizes)).next)

\* Mutant of GlobalAddresses: the address is not aligned
GlobalAddresses_Packed(h, vars, top, sizes) ==
  Over(Slots(h, vars, sizes), [at |-> <<>>, next |-> top], LAMBDA acc, s :
    Let(acc.next - s.size, LAMBDA p :
      [at |-> Append(acc.at, [name |-> s.name, at |-> p, size |-> s.size]), next |-> p])).at

\* Globals are laid out downwards, from the top of the data of the module
GlobalAddresses(h, vars, top, sizes) ==
  Over(Slots(h, vars, sizes), [at |-> <<>>, next |-> top], LAMBDA acc, s :
    Let(IF s.align > 1 THEN RoundDown(acc.next - s.size) ELSE acc.next - s.size, LAMBDA p :
      [at |-> Append(acc.at, [name |-> s.name, at |-> p, size |-> s.size]), next |-> p])).at

IsRecord(n, sizes) ==
  /\ ~n.proc /\ n.ptr = 0
  /\ n.fields # None \/ (~IsBase(n.name) /\ ~IsArray(n) /\ n.name \in DOMAIN sizes)

(* Parameters arrive in registers, in order; an open array comes with its  *)
(* length and a record with its type.  A procedure that is not a leaf      *)
(* stores them above its locals.                                           *)

ParamOffsets(h, params, localSize, sizes) ==
  LET WordsOf(n) == (IF n.open THEN 2 ELSE 1) + (IF IsRecord(n, sizes) THEN 1 ELSE 0)
      Passed(p) == Images(p.names, LAMBDA x :
        [name |-> x, words |-> WordsOf(h[p.type]), deref |-> ~h[p.type].open /\ (p.byRef \/ IsRecord(h[p.type], sizes))])
  IN  Over(FlattenSeq(Images(params, Passed)), [at |-> <<>>, reg |-> 0], LAMBDA acc, s :
        [at |-> Append(acc.at, [name |-> s.name, at |-> localSize + 4 * acc.reg, deref |-> s.deref]),
         reg |-> acc.reg + s.words]).at

\* A leaf keeps parameters and single words in registers; truth values,
\* arrays and records are in its frame.  The length is counted once for all
\* the names of a section.
LeafParams(h, params, sizes) ==
  LET Section(acc, p) ==
        Let(Over(p.names, acc, LAMBDA a, x :
              [at |-> Append(a.at, [name |-> x, reg |-> a.reg]),
               reg |-> a.reg + (IF IsRecord(h[p.type], sizes) THEN 2 ELSE 1)]),
            LAMBDA a : IF h[p.type].open THEN [a EXCEPT !.reg = @ + 1] ELSE a)
  IN  Over(params, [at |-> <<>>, reg |-> 0], Section)

IsFlag(n) == n.name = <<"BOOLEAN">> /\ n.dim = 0
InFrame(n, sizes) == n.dim > 0 \/ IsRecord(n, sizes)

LeafLocals(h, proc, sizes) ==
  LET InRegister(v) == ~IsFlag(h[v.type]) /\ ~InFrame(h[v.type], sizes)
      Regs == FlattenSeq(Images(SelectSeq(proc.locals, InRegister), LAMBDA v : v.names))
      Put1(acc, x, size) ==
        [at |-> Append(acc.at, [name |-> x, at |-> acc.next, size |-> size]), next |-> acc.next + size]
      Frame(acc, v) ==
        IF IsFlag(h[v.type]) THEN Over(v.names, acc, LAMBDA a, x : Put1(a, x, 1))
        ELSE Over(v.names, [acc EXCEPT !.next = RoundUp(@)],
                  LAMBDA a, x : Put1(a, x, RoundUp(TypeSize(h, v.type, sizes))))
  IN  [regs |-> Images([i \in DOMAIN Regs |-> i], LAMBDA i :
                  [name |-> Regs[i], reg |-> LeafParams(h, proc.params, sizes).reg + i - 1]),
       frame |-> Over(SelectSeq(proc.locals, LAMBDA v : ~InRegister(v)),
                      [at |-> <<>>, next |-> 0], Frame).at]

-----------------------------------------------------------------------------
(* Keys of types.  A name that is declared in several modules is one key.  *)

RECURSIVE TypeKey(_, _)
TypeKey(h, id) ==
  LET n == h[id]
      ElemName == IF n.elem = 0 THEN n.name ELSE h[n.elem].name
  IN  CASE n.proc -> <<"PROCEDURE">>
        [] ~n.proc /\ n.dim > 0 ->
             <<"ARRAY", ToString(n.dim)>>
               \o (IF n.elem # 0 /\ h[n.elem].dim > 0 THEN TypeKey(h, n.elem) ELSE ElemName)
        [] ~n.proc /\ n.dim = 0 /\ n.open -> <<"PTR">> \o ElemName
        [] ~n.proc /\ ~IsArray(n) /\ n.ptr # 0 -> <<"PTRTO">> \o TypeKey(h, n.ptr)
        [] OTHER -> n.scope \o n.name

\* Types are looked up again, from the module, before most uses
Again(w, m, id) == ResolveRef(w, w.heap, id, m)
KeyAgain(w, m, id) == Let(Again(w, m, id), LAMBDA r : TypeKey(r.heap, r.id))

-----------------------------------------------------------------------------
(* Entries.  The types a module needs are visited from its variables, then *)
(* its declarations; the first type with a key is the one that is entered. *)

Types(decls) == Images(decls, LAMBDA d : d.type)
Roots(m) ==
  Types(m.vars) \o FlattenSeq(Images(m.procs, LAMBDA p : Types(p.params) \o Types(p.locals)))
    \o Types(m.types)

\* The types that are visited, the outer before the inner
RECURSIVE Visit(_, _, _, _)
Visit(w, m, acc, id) ==
  Let(ResolveRef(w, acc.heap, id, m), LAMBDA r :
    IF r.id \in Range(acc.seen) THEN [acc EXCEPT !.heap = r.heap]
    ELSE Over(IF r.heap[r.id].proc THEN <<>> ELSE Children(r.heap[r.id]),
              [heap |-> r.heap, seen |-> Append(acc.seen, r.id)],
              LAMBDA a, c : Visit(w, m, a, c)))

\* Records are visited as they are, the inner before the outer, and what is
\* behind a pointer with it
RECURSIVE Gather(_, _, _)
Gather(h, acc, id) ==
  LET n == h[id]
      Seen == [acc EXCEPT !.seen = @ \cup {id}]
      In(a, ids) == Over(ids, a, LAMBDA b, c : Gather(h, b, c))
      Record(a) == IF n.fields = None THEN a ELSE [a EXCEPT !.order = Append(@, id)]
  IN  IF id \in acc.seen THEN acc
      ELSE IF n.ptr # 0 THEN In(Seen, <<n.ptr>>) ELSE Record(In(Seen, Children(n)))

RecordsOf(w, m) ==
  Over(Roots(m), [seen |-> {}, order |-> <<>>], LAMBDA a, i : Gather(w.heap, a, i)).order

\* A member is left out, without a word, if its type is not known
RECURSIVE Emittable(_, _, _, _)
Emittable(w, m, id, seen) ==
  Let(Again(w, m, id), LAMBDA r :
    Let(r.heap[r.id], LAMBDA n :
      CASE r.id \in seen \/ n.proc -> TRUE
        [] ~(r.id \in seen \/ n.proc) /\ n.ptr # 0 -> Emittable([w EXCEPT !.heap = r.heap], m, n.ptr, seen \cup {r.id})
        [] ~(r.id \in seen \/ n.proc) /\ n.ptr = 0 /\ IsArray(n) ->
             n.elem # 0 /\ Emittable([w EXCEPT !.heap = r.heap], m, n.elem, seen \cup {r.id})
        [] OTHER -> IsBase(n.name) \/ n.fields # None))

Entry(id, target, members) == [id |-> id, target |-> target, members |-> members]

Members(w, m, id) ==
  FlattenSeq(Images(SelectSeq(w.heap[id].fields[1], LAMBDA f : Emittable(w, m, f.type, {})),
                    LAMBDA f : Images(f.names, LAMBDA x : [name |-> x, key |-> KeyAgain(w, m, f.type)])))

\* Entries by key; what is there already stays
Enter(entries, key, entry) == IF key \in DOMAIN entries THEN entries ELSE (key :> entry) @@ entries

\* Pointers and arrays are entered when what they refer to is there
Targets(w, m, id) ==
  LET n == w.heap[id] IN
    CASE n.ptr # 0 -> <<KeyAgain(w, m, n.ptr)>>
      [] n.ptr = 0 /\ n.elem # 0 -> <<TypeKey(w.heap, n.elem), w.heap[n.elem].name>>
      [] OTHER -> <<n.name>>

\* A round: the pointers, then the arrays, each with what is there by then
RefRound(w, m, ids, entries) ==
  LET IsPointer(i) == w.heap[i].ptr # 0
      Add(e, i) ==
        LET present == SelectSeq(Targets(w, m, i), LAMBDA k : k \in DOMAIN e)
        IN  IF present = <<>> THEN e ELSE Enter(e, TypeKey(w.heap, i), Entry(i, present[1], <<>>))
  IN  Over(SelectSeq(ids, IsPointer) \o SelectSeq(ids, LAMBDA i : ~IsPointer(i)), entries, Add)

RECURSIVE EnterRefs(_, _, _, _)
EnterRefs(w, m, ids, entries) ==
  Let(RefRound(w, m, ids, entries), LAMBDA more :
    IF more = entries THEN entries ELSE EnterRefs(w, m, ids, more))

\* Base types have no object: their entry is 0
BaseEntries(h, seen) ==
  LET names == {h[i].name : i \in {j \in seen : ~h[j].proc /\ IsBase(h[j].name)}}
      more == (IF \E i \in seen : h[i].proc THEN {<<"PROCEDURE">>} ELSE {})
                \cup (IF \E i \in seen : h[i].dim > 0 THEN {<<"INTEGER">>} ELSE {})
  IN  [k \in names \cup more |-> Entry(0, None, <<>>)]

Entries(w, m) ==
  LET Records(v, entries) ==
        Over(RecordsOf(w, m), entries, LAMBDA e, i : Enter(e, TypeKey(v.heap, i), Entry(i, None, Members(v, m, i))))
      IsRef(v, i) ==
        /\ ~v.heap[i].proc /\ (v.heap[i].ptr # 0 \/ IsArray(v.heap[i]))
        /\ SelectInSeq(v.seen, LAMBDA j : TypeKey(v.heap, j) = TypeKey(v.heap, i))
             = SelectInSeq(v.seen, LAMBDA j : j = i)
      All(v) ==
        EnterRefs([w EXCEPT !.heap = v.heap], m, SelectSeq(v.seen, LAMBDA i : IsRef(v, i)),
                  Records([w EXCEPT !.heap = v.heap], BaseEntries(v.heap, Range(v.seen))))
      With(v) == [heap |-> v.heap, entries |-> All(v)]
  IN  With(Over(Roots(m), [heap |-> w.heap, seen |-> <<>>], LAMBDA a, i : Visit(w, m, a, i)))
=============================================================================
