------------------------------ MODULE ElfTypes -------------------------------
(***************************************************************************)
(* How pylib/elfdata.py turns the types of several modules into the type   *)
(* entries of the debug data.  TypeRef objects refer to each other and are *)
(* changed in place, also by a module that only imports them: they live in *)
(* a heap, a sequence of nodes, and an identity is an index.               *)
(***************************************************************************)
EXTENDS ElfSource

BaseTypes == {"INTEGER", "SET", "REAL", "CHAR", "BOOLEAN", "BYTE", "PROCEDURE"}
IsBase(name) == Len(name) = 1 /\ name[1] \in BaseTypes

\* With the elements of a sequence, one after the other
Over(seq, start, F(_, _)) == FoldLeft(F, start, seq)
Images(seq, F(_)) == [i \in DOMAIN seq |-> F(seq[i])]

-----------------------------------------------------------------------------
(* Loading: every node of the trees of the parser becomes an object.  A    *)
(* node has the module whose constants may complete its dimension, or none *)
(* if it belongs to a type that is local to a procedure.                   *)

New(h, node) == [heap |-> Append(h, node), id |-> Len(h) + 1]

RECURSIVE Load(_, _, _)
Load(h, tree, home) ==
  LET Node(elem, ptr, fields) ==
        [name |-> tree.name, open |-> tree.open, dim |-> tree.dim, deferred |-> tree.deferred,
         elem |-> elem, ptr |-> ptr, fields |-> fields, base |-> tree.base,
         proc |-> tree.proc, scope |-> tree.scope, home |-> home]
      Child(h1, opt) == IF opt = None THEN [heap |-> h1, id |-> 0] ELSE Load(h1, opt[1], home)
      Field(acc, f) == Let(Load(acc.heap, f.type, home), LAMBDA r :
        [heap |-> r.heap, fields |-> Append(acc.fields, [names |-> f.names, type |-> r.id])])
      Fields(h1) ==
        IF tree.fields = None THEN [heap |-> h1, fields |-> None]
        ELSE Let(Over(tree.fields[1], [heap |-> h1, fields |-> <<>>], Field),
                 LAMBDA r : [heap |-> r.heap, fields |-> <<r.fields>>])
  IN  Let(Child(h, tree.elem), LAMBDA e :
        Let(Child(e.heap, tree.ptr), LAMBDA p :
          Let(Fields(p.heap), LAMBDA f : New(f.heap, Node(e.id, p.id, f.fields)))))

LoadAll(h, decls, home) ==
  Over(decls, [heap |-> h, decls |-> <<>>], LAMBDA acc, d :
    Let(Load(acc.heap, d.type, home), LAMBDA r :
      [heap |-> r.heap, decls |-> Append(acc.decls, [d EXCEPT !.type = r.id])]))

LoadProc(h, p, home) ==
  Let(LoadAll(h, p.params, home), LAMBDA a :
    Let(LoadAll(a.heap, p.locals, home), LAMBDA l :
      Let(LoadAll(l.heap, p.types, ""), LAMBDA t :
        [heap |-> t.heap, proc |-> [p EXCEPT !.params = a.decls, !.locals = l.decls, !.types = t.decls]])))

LoadModule(world, m) ==
  LET Proc(acc, p) == Let(LoadProc(acc.heap, p, m.name), LAMBDA r :
        [heap |-> r.heap, procs |-> Append(acc.procs, r.proc)])
  IN  Let(LoadAll(world.heap, m.types, m.name), LAMBDA t :
        Let(LoadAll(t.heap, m.vars, m.name), LAMBDA v :
          Let(Over(m.procs, [heap |-> v.heap, procs |-> <<>>], Proc), LAMBDA p :
            [heap |-> p.heap,
             mods |-> Append(world.mods, [m EXCEPT !.types = t.decls, !.vars = v.decls,
                                                   !.procs = p.procs])])))

\* The modules, in the order of their files
LoadModules(ms) == Over(ms, [heap |-> <<>>, mods |-> <<>>], LoadModule)

Module(w, name) == SelectSeq(w.mods, LAMBDA m : m.name = name)

\* The type a module declares under a name, or 0
TypeDef(m, name) ==
  Let({i \in DOMAIN m.types : m.types[i].name = name},
      LAMBDA found : IF found = {} THEN 0 ELSE m.types[Max(found)].type)

\* The module behind a qualifier; a type needs an import, a constant does not
Imported(w, m, q) == IF q \in DOMAIN m.imports THEN Module(w, m.imports[q]) ELSE <<>>

-----------------------------------------------------------------------------
(* Deferred references: constants of constants, until no more are found,   *)
(* then dimensions.  The order within a round only changes the number of   *)
(* rounds, which the program limits to 64.                                 *)

ConstOf(w, m, name) ==
  LET In(found, n) ==
        IF found = <<>> \/ n \notin DOMAIN found[1].env.consts THEN None
        ELSE <<found[1].env.consts[n]>>
      Real(q) == IF q \in DOMAIN m.imports THEN m.imports[q] ELSE q
  IN  IF Len(name) = 1 THEN In(<<m>>, name[1]) ELSE In(Module(w, Real(name[1])), name[2])

Settled(w) ==
  LET Value(m, n) == ConstOf(w, m, m.env.deferred[n])
      Now(m) == {n \in DOMAIN m.env.deferred : Value(m, n) # None}
      Constants(m, now) ==
        [consts |-> [n \in now |-> Value(m, n)[1]] @@ m.env.consts,
         deferred |-> [n \in DOMAIN m.env.deferred \ now |-> m.env.deferred[n]]]
  IN  [w EXCEPT !.mods = Images(@, LAMBDA m : [m EXCEPT !.env = Constants(m, Now(m))])]

RECURSIVE Settle(_)
Settle(w) == Let(Settled(w), LAMBDA v : IF v = w THEN w ELSE Settle(v))

\* Mutant of Completed: only a name of the module itself is looked up
Completed_Local(w) ==
  [w EXCEPT !.heap = Images(@, LAMBDA n :
     IF n.deferred = None \/ n.home = "" THEN n
     ELSE Let(ConstOf(w, Module(w, n.home)[1], <<Last(n.deferred)>>), LAMBDA v :
            IF v = None THEN n ELSE [n EXCEPT !.dim = v[1], !.deferred = None]))]

Completed(w) ==
  [w EXCEPT !.heap = Images(@, LAMBDA n :
     IF n.deferred = None \/ n.home = "" THEN n
     ELSE Let(ConstOf(w, Module(w, n.home)[1], n.deferred), LAMBDA v :
            IF v = None THEN n ELSE [n EXCEPT !.dim = v[1], !.deferred = None]))]

ResolveDeferred(w) == Completed(Settle(w))

-----------------------------------------------------------------------------
(* Names.  Resolve yields the object a name stands for, seen from module m *)
(* and with a new object for an array or a pointer whose target changed.   *)

IsArray(n) == n.dim > 0 \/ n.open
Blank == [name |-> <<"">>, open |-> FALSE, dim |-> 0, deferred |-> None, elem |-> 0, ptr |-> 0,
          fields |-> None, base |-> None, proc |-> FALSE, scope |-> None, home |-> ""]

RECURSIVE ResolveRef(_, _, _, _)
ResolveRef(w, h, id, m) ==
  LET n == h[id]
      Same == [heap |-> h, id |-> id]
      Pointer(r) ==
        IF r.id = n.ptr THEN [heap |-> r.heap, id |-> id]
        ELSE New(r.heap, [Blank EXCEPT !.name = n.name, !.ptr = r.id])
      Array(r) ==
        IF r.id = n.elem THEN [heap |-> r.heap, id |-> id]
        ELSE New(r.heap, [Blank EXCEPT !.name = r.heap[r.id].name, !.open = n.open,
                                       !.dim = n.dim, !.elem = r.id])
      From(found, def, home) == IF def \in {0, id} THEN Same ELSE ResolveRef(w, h, def, home)
      Foreign(found) ==
        IF found = <<>> THEN Same ELSE From(found, TypeDef(found[1], n.name[2]), found[1])
  IN  CASE n.proc -> Same
        [] ~n.proc /\ n.ptr # 0 -> Pointer(ResolveRef(w, h, n.ptr, m))
        [] ~n.proc /\ n.ptr = 0 /\ IsArray(n) ->
             IF n.elem = 0 THEN Same ELSE Array(ResolveRef(w, h, n.elem, m))
        [] ~n.proc /\ n.ptr = 0 /\ ~IsArray(n) /\ Len(n.name) = 2 -> Foreign(Imported(w, m, n.name[1]))
        [] ~n.proc /\ n.ptr = 0 /\ ~IsArray(n) /\ Len(n.name) = 1 /\ ~IsBase(n.name) ->
             From(<<m>>, TypeDef(m, n.name[1]), m)
        [] OTHER -> Same

Children(n) ==
  (IF n.elem = 0 THEN <<>> ELSE <<n.elem>>) \o (IF n.ptr = 0 THEN <<>> ELSE <<n.ptr>>)
    \o (IF n.fields = None THEN <<>> ELSE Images(n.fields[1], LAMBDA f : f.type))

\* The fields of a record, and of the records in it, are resolved in place
RECURSIVE ResolveFields(_, _, _, _)
ResolveFields(w, h, id, m) ==
  LET At(acc, i) == Let(ResolveRef(w, acc, acc[id].fields[1][i].type, m), LAMBDA r :
        ResolveFields(w, [r.heap EXCEPT ![id].fields[1][i].type = r.id], r.id, m))
  IN  IF h[id].fields = None THEN h ELSE Over([i \in DOMAIN h[id].fields[1] |-> i], h, At)

\* A copy of what can be reached from the fields; what is shared, or refers
\* back, is copied once
RECURSIVE Reachable(_, _)
Reachable(h, ids) ==
  Let(ids \cup UNION {Range(Children(h[i])) : i \in ids},
      LAMBDA more : IF more = ids THEN ids ELSE Reachable(h, more))

CopyFields(h, fields) ==
  LET Copy(old, to(_)) ==
        [heap |-> h \o Images(old, LAMBDA i :
           [h[i] EXCEPT !.elem = to(@), !.ptr = to(@),
                        !.fields = IF @ = None THEN None
                                   ELSE <<Images(@[1], LAMBDA f : [f EXCEPT !.type = to(@)])>>]),
         fields |-> Images(fields, LAMBDA f : [f EXCEPT !.type = to(@)])]
      Moved(old) ==
        Copy(old, LAMBDA i : IF i = 0 THEN 0 ELSE Len(h) + (CHOOSE k \in DOMAIN old : old[k] = i))
  IN  Moved(SetToSeq(Reachable(h, {fields[i].type : i \in DOMAIN fields})))

\* The fields of the base come first; a base that is not found is dropped
RECURSIVE ResolveBase(_, _, _, _)
ResolveBase(w, h, id, m) ==
  LET n == h[id]
      Own == [h EXCEPT ![id].base = None,
                       ![id].fields = IF @ = None THEN <<<<>>>> ELSE @]
      Inherit(h1, base) ==
        IF h1[base].fields = None THEN [h1 EXCEPT ![id].base = None]
        ELSE Let(CopyFields(h1, h1[base].fields[1]), LAMBDA c :
               [c.heap EXCEPT ![id].base = None, ![id].fields = <<c.fields \o @[1]>>])
      From(home, base) == IF base = 0 THEN Own ELSE Inherit(ResolveBase(w, h, base, home), base)
      Foreign(found) == IF found = <<>> THEN Own ELSE From(found[1], TypeDef(found[1], n.base[2]))
  IN  CASE n.base = None -> h
        [] Len(n.base) = 1 -> From(m, TypeDef(m, n.base[1]))
        [] OTHER -> Foreign(Imported(w, m, n.base[1]))

(* One module: bases, then fields, variables, parameters and locals.  The  *)
(* modules are looked up in w, the world before: only the heap changes.    *)

RefAndFields(w, acc, d, m, start(_, _)) ==
  Let(ResolveRef(w, acc.heap, start(acc.heap, d), m), LAMBDA r :
    [heap |-> ResolveFields(w, r.heap, r.id, m), decls |-> Append(acc.decls, [d EXCEPT !.type = r.id])])

ResolveDecls(w, h, decls, m, start(_, _)) ==
  Over(decls, [heap |-> h, decls |-> <<>>], LAMBDA acc, d : RefAndFields(w, acc, d, m, start))

ResolveProc(w, h, p, m) ==
  LET Scope(h1) ==
        Over(p.types, h1, LAMBDA acc, t :
          Let(ResolveFields(w, acc, t.type, m), LAMBDA h2 :
            IF h2[t.type].fields = None THEN h2 ELSE [h2 EXCEPT ![t.type].scope = <<p.name>>]))
      Given(h1, d) == d.type
      Local(h1, d) ==
        Let({i \in DOMAIN p.types : <<p.types[i].name>> = h1[d.type].name},
            LAMBDA is : IF is = {} THEN d.type ELSE p.types[Max(is)].type)
  IN  Let(ResolveDecls(w, Scope(h), p.params, m, Given), LAMBDA a :
        Let(ResolveDecls(w, a.heap, p.locals, m, Local), LAMBDA l :
          [heap |-> l.heap, proc |-> [p EXCEPT !.params = a.decls, !.locals = l.decls]]))

ResolveModule(w, k) ==
  LET m == w.mods[k]
      Bases(h, types) == Over(types, h, LAMBDA acc, t : ResolveBase(w, acc, t.type, m))
      Fields(h) == Over(m.types, h, LAMBDA acc, t : ResolveFields(w, acc, t.type, m))
      Proc(acc, p) == Let(ResolveProc(w, acc.heap, p, m), LAMBDA r :
        [heap |-> r.heap, procs |-> Append(acc.procs, r.proc)])
      Local == Over(m.procs, <<>>, LAMBDA acc, p : acc \o p.types)
  IN  Let(ResolveDecls(w, Fields(Bases(Bases(w.heap, m.types), Local)), m.vars, m,
                       LAMBDA h, d : d.type), LAMBDA v :
        Let(Over(m.procs, [heap |-> v.heap, procs |-> <<>>], Proc), LAMBDA p :
          [heap |-> p.heap,
           mods |-> [w.mods EXCEPT ![k] = [m EXCEPT !.vars = v.decls, !.procs = p.procs]]]))

ResolveTypes(w) ==
  Let(ResolveDeferred(w), LAMBDA v : Over([k \in DOMAIN v.mods |-> k], v, ResolveModule))
=============================================================================
