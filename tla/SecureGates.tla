---------------------------- MODULE SecureGates ----------------------------
(***************************************************************************)
(* gen-secure (tools/gen-secure.py): from a linked Secure program and the  *)
(* names of the modules to expose it makes                                 *)
(*   - NSC.bin, one gateway of 16 bytes per exported procedure, and        *)
(*   - one module NS_m for each exposed module m, with a stub per exported *)
(*     procedure that jumps to its gateway, and one for each module whose  *)
(*     constants or types these need.                                      *)
(*                                                                         *)
(* A constant or type section is known by the modules it refers to with a  *)
(* qualified name, and so is the signature of a procedure; aliases of      *)
(* imports are resolved.  A listing is the sequence of its lines: headings *)
(* and ENDs of procedures, their instructions, and text.                   *)
(***************************************************************************)
EXTENDS Integers, FiniteSets, Sequences, SequencesExt

CONSTANTS
  Programs,  \* the linked programs
  ConstLeaf, \* the module named with --const-leaf
  ScanLines, \* how far below a heading the push is looked for (30 in the code)
  NscAddr    \* the address of the gateways

(* A program: the modules to expose, in order, and for each module of the  *)
(* map file its code address, whether it is there with a listing, the      *)
(* modules its constants and exported types refer to, and its listing.     *)
VARIABLES
  program,
  todo,      \* "resolve", "gateways", "generate", "done"
  classes,   \* module name -> "exposed", "type_only", "const_only"
  order,     \* the modules in classes, in the order of insertion
  work,      \* modules whose dependencies are to be walked
  deps,      \* dependencies of the first module in work still to be looked at
  visited,
  gateways,  \* target addresses, and the names of their procedures
  generated  \* the generated modules
gateVars == <<program, todo, classes, order, work, deps, visited, gateways, generated>>

(* A heading that the pattern takes: exported, without a result.           *)
IsStubbed(line) == line.kind = "proc" /\ line.exported /\ ~line.function

IsCode(line) == line.kind \in {"push", "code"}

(* The END of the procedure at heading i; its instructions, which are not  *)
(* those of the procedures declared inside; and the first of them.         *)
Ends(lines, i) == {j \in i + 1 .. Len(lines) : lines[j].kind = "end" /\ lines[j].name = lines[i].name}
EndAt(lines, i) == CHOOSE j \in Ends(lines, i) : \A k \in Ends(lines, i) : j <= k
Headings(lines, i, j) == {h \in i + 1 .. j - 1 : lines[h].kind = "proc"}
OwnCode(lines, i) ==
  {j \in i + 1 .. EndAt(lines, i) - 1 :
     IsCode(lines[j]) /\ \A h \in Headings(lines, i, j) : EndAt(lines, h) < j}
Entry(lines, i) == CHOOSE j \in OwnCode(lines, i) : \A k \in OwnCode(lines, i) : j <= k

(* What the tool may rely on.  It ends with an error if a module to expose *)
(* is not there with a listing; exported procedures have different names;  *)
(* each procedure has code, and saves the return address first unless it   *)
(* is a leaf; and the module that is taken for a leaf imports none of the  *)
(* others.                                                                 *)
IsProgram(p) ==
  LET There(m) == m \in DOMAIN p.modules /\ p.modules[m].listed
      Of(m) == p.modules[m].lines
  IN  /\ p.exposed \in Seq({m \in DOMAIN p.modules : There(m)}) /\ p.exposed # <<>>
      /\ \A m \in Range(p.exposed) :
           /\ Of(m) \in Seq(Range(Of(m)))
           /\ \A i \in DOMAIN Of(m) : IsStubbed(Of(m)[i]) =>
                /\ \A k \in DOMAIN Of(m) : IsStubbed(Of(m)[k]) /\ Of(m)[k].name = Of(m)[i].name => k = i
                /\ Ends(Of(m), i) # {} /\ OwnCode(Of(m), i) # {}
                /\ Of(m)[i].leaf \/ Of(m)[Entry(Of(m), i)].kind = "push"
      /\ There(ConstLeaf) /\ ConstLeaf \notin Range(p.exposed) =>
           \A d \in p.modules[ConstLeaf].consts \cup p.modules[ConstLeaf].types : ~There(d)

ASSUME GatesAssumption ==
  NscAddr \in Int /\ ScanLines \in Int /\ \A p \in Programs : IsProgram(p)

-----------------------------------------------------------------------------
Known(m) == m \in DOMAIN program.modules /\ program.modules[m].listed
ConstDeps(m) == program.modules[m].consts
TypeDeps(m) == program.modules[m].types
DepsOf(m) == ConstDeps(m) \cup TypeDeps(m)

-----------------------------------------------------------------------------
(* Procedures in a listing, as the tool finds them.                        *)

(* The first push in the lines below the heading, wherever the procedure   *)
(* ends; 0 if there is none.                                               *)
PushBelow(lines, i) ==
  LET upTo == IF i + ScanLines - 1 < Len(lines) THEN i + ScanLines - 1 ELSE Len(lines)
      found == {j \in i + 1 .. upTo : lines[j].kind = "push"}
  IN IF found = {} THEN 0 ELSE CHOOSE j \in found : \A k \in found : j <= k

ExportedProc(lines, i) ==
  LET push == PushBelow(lines, i)
  IN [name |-> lines[i].name, refs |-> lines[i].refs,
      count |-> IF push = 0 THEN 0 ELSE lines[push].count,
      rel   |-> IF push = 0 THEN 0 ELSE lines[push].rel]

ExportedProcs(m) ==
  LET lines == program.modules[m].lines
  IN FlattenSeq([i \in DOMAIN lines |->
       IF IsStubbed(lines[i]) THEN <<ExportedProc(lines, i)>> ELSE <<>>])

-----------------------------------------------------------------------------
(* Dependencies.                                                           *)

GatesInit ==
  /\ program \in Programs
  /\ todo = "resolve"
  /\ classes = [m \in Range(program.exposed) |-> "exposed"]
  /\ order = program.exposed
  /\ work = program.exposed
  /\ deps = DepsOf(Head(program.exposed))
  /\ visited = Range(program.exposed)
  /\ gateways = <<>>
  /\ generated = <<>>

ClassOf(d, current) == IF d \in TypeDeps(current) THEN "type_only" ELSE "const_only"

(* A module met again may turn out to be needed for its types, too.        *)
(* Mutant of Upgraded: the class of the first meeting stays.               *)
Upgraded_Never(d, current) == classes[d]
Upgraded(d, current) ==
  IF classes[d] = "const_only" /\ d \in TypeDeps(current) THEN "type_only" ELSE classes[d]

(* One dependency of the first module in work; they come in any order.     *)
LookAt(d) ==
  /\ todo = "resolve" /\ work # <<>>
  /\ d \in deps
  /\ deps' = deps \ {d}
  /\ LET current == Head(work) IN
     IF d \in visited THEN
       /\ classes' = IF d \in DOMAIN classes
                     THEN [classes EXCEPT ![d] = Upgraded(d, current)] ELSE classes
       /\ UNCHANGED <<order, work, visited>>
     ELSE
       /\ visited' = visited \cup {d}
       /\ IF ~Known(d) THEN UNCHANGED <<classes, order, work>>
          ELSE /\ classes' = [m \in DOMAIN classes \cup {d} |->
                               IF m = d THEN ClassOf(d, current) ELSE classes[m]]
               /\ order' = Append(order, d)
               /\ work' = IF d = ConstLeaf THEN work ELSE Append(work, d)
  /\ UNCHANGED <<program, todo, gateways, generated>>

NextModule ==
  /\ todo = "resolve" /\ work # <<>> /\ deps = {}
  /\ work' = Tail(work)
  /\ deps' = IF Tail(work) = <<>> THEN {} ELSE DepsOf(Head(Tail(work)))
  /\ todo' = IF Tail(work) = <<>> THEN "gateways" ELSE todo
  /\ UNCHANGED <<program, classes, order, visited, gateways, generated>>

-----------------------------------------------------------------------------
(* Gateways and modules.                                                   *)

GatewaysOf(m) ==
  [n \in DOMAIN ExportedProcs(m) |->
    [target |-> program.modules[m].code + ExportedProcs(m)[n].rel,
     proc |-> <<m, ExportedProcs(m)[n].name>>]]

AllGateways == [n \in DOMAIN program.exposed |-> GatewaysOf(program.exposed[n])]

CollectGateways ==
  /\ todo = "gateways"
  /\ gateways' = FlattenSeq(AllGateways)
  /\ todo' = "generate"
  /\ UNCHANGED <<program, classes, order, work, deps, visited, generated>>

(* The constant leaf, the other modules with constants only, those with    *)
(* types, and the exposed modules in the order of the command line.        *)
InOrderOf(ms) == FlattenSeq([n \in DOMAIN order |-> IF order[n] \in ms THEN <<order[n]>> ELSE <<>>])
OfClass(c) == {m \in DOMAIN classes : classes[m] = c}
GenerationOrder ==
  InOrderOf({ConstLeaf} \ OfClass("exposed")) \o InOrderOf(OfClass("const_only") \ {ConstLeaf})
    \o InOrderOf(OfClass("type_only") \ {ConstLeaf}) \o program.exposed

NsImports(m) == DepsOf(m) \cap DOMAIN classes

(* The stub has the signature of the procedure, drops what its own         *)
(* prologue has pushed, and jumps to its gateway.                          *)
StubAt(index, proc) ==
  [name |-> proc.name, refs |-> proc.refs, drop |-> 4 * proc.count,
   gateway |-> NscAddr + 16 * index]

Stubs(m, index) ==
  [n \in DOMAIN ExportedProcs(m) |-> StubAt(index + n - 1, ExportedProcs(m)[n])]

(* The gateways given to the modules generated so far.                     *)
GatewayIndex == Len(FlattenSeq([n \in DOMAIN generated |-> generated[n].stubs]))

NsModule(m) ==
  [name |-> m, imports |-> NsImports(m), consts |-> ConstDeps(m),
   types |-> IF classes[m] \in {"exposed", "type_only"} THEN TypeDeps(m) ELSE {},
   hasTypes |-> classes[m] \in {"exposed", "type_only"},
   stubs |-> IF classes[m] = "exposed" THEN Stubs(m, GatewayIndex) ELSE <<>>]

GenerateModule ==
  /\ todo = "generate"
  /\ generated' = Append(generated, NsModule(GenerationOrder[Len(generated) + 1]))
  /\ todo' = IF Len(generated) + 1 = Len(GenerationOrder) THEN "done" ELSE todo
  /\ UNCHANGED <<program, classes, order, work, deps, visited, gateways>>

GatesNext ==
  \/ \E d \in deps : LookAt(d)
  \/ NextModule
  \/ CollectGateways
  \/ GenerateModule

GatesSpec == GatesInit /\ [][GatesNext]_gateVars

-----------------------------------------------------------------------------
(* The reader: the Non-secure program, linked with the generated modules.  *)

(* NSC.bin is padded to 32 bytes; a gateway is 16 bytes, its target in the *)
(* last four, with the Thumb bit.                                          *)
TargetAt(addr) == gateways[(addr - NscAddr) \div 16 + 1]

(* What a prologue pushes, the same for a stub and for the procedure with  *)
(* its parameters at heading i: a leaf pushes nothing.                     *)
Pushed(lines, i) == IF lines[i].leaf THEN 0 ELSE 4 * lines[Entry(lines, i)].count

(* The call of a stub arrives where the procedure at heading i of module m *)
(* begins, with the stack as it was at the call.                           *)
Arrives(stub, m, i) ==
  LET lines == program.modules[m].lines
  IN /\ TargetAt(stub.gateway).target = program.modules[m].code + lines[Entry(lines, i)].rel
     /\ stub.drop = Pushed(lines, i)

(* Not a leaf, no procedure declared inside, and not too far down.         *)
IsPlain(lines, i) ==
  /\ ~lines[i].leaf /\ Headings(lines, i, EndAt(lines, i)) = {}
  /\ Entry(lines, i) < i + ScanLines

-----------------------------------------------------------------------------
(* Properties.                                                             *)

(* The gateway of a stub is the one made for its procedure: gateways are   *)
(* numbered twice, in the order of the command line and in the order of    *)
(* generation.  The call of a plain procedure arrives.                     *)
StubsArrive ==
  todo = "done" =>
    \A n \in DOMAIN generated : \A k \in DOMAIN generated[n].stubs :
      LET stub == generated[n].stubs[k]
          m == generated[n].name
          lines == program.modules[m].lines
      IN /\ TargetAt(stub.gateway).proc = <<m, stub.name>>
         /\ \A i \in DOMAIN lines :
              IsStubbed(lines[i]) /\ lines[i].name = stub.name /\ IsPlain(lines, i) => Arrives(stub, m, i)

(* "NS interface modules with stub procedures", of every exported one.     *)
EachStubArrives ==
  todo = "done" =>
    \A n \in DOMAIN generated : \A k \in DOMAIN generated[n].stubs :
      LET stub == generated[n].stubs[k]
          m == generated[n].name
          lines == program.modules[m].lines
      IN \A i \in DOMAIN lines : IsStubbed(lines[i]) /\ lines[i].name = stub.name => Arrives(stub, m, i)

(* The generated modules compile as far as constants and types go: each    *)
(* module they refer to is imported and generated, with its types if types *)
(* are referred to; whatever order the dependencies are met in.            *)
IsGenerated(m) == \E n \in DOMAIN generated : generated[n].name = m
SectionsClosed ==
  todo = "done" =>
    \A n \in DOMAIN generated :
      LET g == generated[n]
          Is(d) == \E k \in DOMAIN generated : generated[k].name = d /\ generated[k].hasTypes
      IN /\ \A d \in g.consts \cup g.types : Known(d) => d \in g.imports
         /\ \A d \in g.imports : IsGenerated(d)
         /\ \A d \in g.types : Known(d) => Is(d)

(* "Type-only and CONST-only dependency modules as needed": what the       *)
(* signature of a stub refers to is imported, and generated with types.    *)
SignaturesClosed ==
  todo = "done" =>
    \A n \in DOMAIN generated : \A k \in DOMAIN generated[n].stubs :
      \A d \in generated[n].stubs[k].refs : Known(d) =>
        /\ d \in generated[n].imports
        /\ \E x \in DOMAIN generated : generated[x].name = d /\ generated[x].hasTypes

(* What is generated fits together, and fits the Secure program, as far as *)
(* sections and plain procedures go.                                       *)
GatesSound == StubsArrive /\ SectionsClosed
=============================================================================
