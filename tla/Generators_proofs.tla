------------------------- MODULE Generators_proofs -------------------------
(***************************************************************************)
(* Proofs about the tools that read what the compiler leaves: gen-secure   *)
(* as SecureGates, for every program and whatever order the dependencies   *)
(* are met in; and gen-rdb as RdbCalls, for every program within reach of  *)
(* a call.                                                                 *)
(***************************************************************************)
EXTENDS SecureGates, RdbCalls, QueueLemmas

LEMMA JoinedRange ==
  ASSUME NEW S, NEW a \in Seq(S), NEW b \in Seq(S)
  PROVE  a \o b \in Seq(S) /\ Range(a \o b) = Range(a) \cup Range(b)
<1>1. /\ a \o b \in Seq(S) /\ Len(a) \in Nat /\ Len(b) \in Nat /\ Len(a \o b) = Len(a) + Len(b)
      /\ \A i \in 1 .. Len(a) : (a \o b)[i] = a[i]
      /\ \A i \in 1 .. Len(b) : (a \o b)[Len(a) + i] = b[i]
  BY Joined
<1>2. /\ DOMAIN (a \o b) = 1 .. Len(a) + Len(b) /\ DOMAIN a = 1 .. Len(a) /\ DOMAIN b = 1 .. Len(b)
  BY <1>1
<1> DEFINE c == a \o b
<1> HIDE DEF c
<1>3. ASSUME NEW i \in DOMAIN c PROVE c[i] \in Range(a) \cup Range(b)
  <2>1. CASE i <= Len(a)
    BY <1>1, <1>2, <2>1 DEF Range, c
  <2>2. CASE i > Len(a)
    <3>1. i - Len(a) \in 1 .. Len(b) /\ Len(a) + (i - Len(a)) = i
      BY <1>1, <1>2, <2>2 DEF c
    <3>2. c[i] = b[i - Len(a)]
      BY <1>1, <3>1 DEF c
    <3> QED BY <1>2, <3>1, <3>2 DEF Range
  <2> QED BY <1>1, <1>2, <2>1, <2>2 DEF c
<1>4. \A i \in DOMAIN a : i \in DOMAIN c /\ c[i] = a[i]
  BY <1>1, <1>2 DEF c
<1>5. \A i \in DOMAIN b : Len(a) + i \in DOMAIN c /\ c[Len(a) + i] = b[i]
  BY <1>1, <1>2 DEF c
<1>6. Range(c) = Range(a) \cup Range(b)
  BY <1>3, <1>4, <1>5 DEF Range
<1> QED BY <1>1, <1>6 DEF c

-----------------------------------------------------------------------------
(* gen-secure: the program, the walk over it, and what it generates.      *)

Settled(m, d) == d \in DOMAIN classes /\ (d \in TypeDeps(m) => classes[d] # "const_only")

\* The walk: a module without a listing is never entered, one with a listing
\* when it is met
Walk ==
  /\ program \in Programs
  /\ todo \in {"resolve", "gateways", "generate", "done"}
  /\ \A m \in DOMAIN classes : /\ Known(m) /\ classes[m] \in {"exposed", "type_only", "const_only"}
                               /\ classes[m] = "exposed" <=> m \in Range(program.exposed)
  /\ Range(program.exposed) \subseteq DOMAIN classes
  /\ order \in Seq(DOMAIN classes) /\ Range(order) = DOMAIN classes
  /\ DOMAIN classes \subseteq visited /\ \A m \in visited : Known(m) => m \in DOMAIN classes
  /\ work \in Seq(DOMAIN classes) /\ (todo = "resolve" <=> work # <<>>)
  /\ work # <<>> => deps \subseteq DepsOf(Head(work))

\* Each dependency has been dealt with, or will be
Closing ==
  \A m \in DOMAIN classes :
    \/ work # <<>> /\ m \in Range(Tail(work))
    \/ \A d \in DepsOf(m) : Known(d) => Settled(m, d) \/ (work # <<>> /\ m = Head(work) /\ d \in deps)

\* The modules generated so far, and the numbers of their gateways
Unexposed == Len(GenerationOrder) - Len(program.exposed)
IndexAt(n) == IF n <= Unexposed THEN 0 ELSE Len(Leading(AllGateways, n - Unexposed - 1))
ModuleAt(n) ==
  LET m == GenerationOrder[n] IN
  [name |-> m, imports |-> NsImports(m), consts |-> ConstDeps(m),
   types |-> IF classes[m] \in {"exposed", "type_only"} THEN TypeDeps(m) ELSE {},
   hasTypes |-> classes[m] \in {"exposed", "type_only"},
   stubs |-> IF classes[m] = "exposed" THEN Stubs(m, IndexAt(n)) ELSE <<>>]

Generating ==
  /\ todo \in {"resolve", "gateways"} => generated = <<>>
  /\ todo \in {"generate", "done"} =>
      /\ gateways = FlattenSeq(AllGateways)
      /\ generated = [n \in 1 .. Len(generated) |-> ModuleAt(n)]
      /\ todo = "generate" => Len(generated) \in 0 .. Len(GenerationOrder) - 1
      /\ todo = "done" => Len(generated) = Len(GenerationOrder)

GatesInv == Walk /\ Closing /\ Generating

LEMMA GivenProgram ==
  ASSUME Walk
  PROVE  /\ NscAddr \in Int /\ ScanLines \in Int
         /\ program.exposed \in Seq({m \in DOMAIN program.modules : Known(m)}) /\ program.exposed # <<>>
         /\ \A m \in Range(program.exposed) :
              LET lines == program.modules[m].lines IN
              /\ lines \in Seq(Range(lines))
              /\ \A i \in DOMAIN lines : IsStubbed(lines[i]) =>
                   /\ \A k \in DOMAIN lines : IsStubbed(lines[k]) /\ lines[k].name = lines[i].name => k = i
                   /\ Ends(lines, i) # {} /\ OwnCode(lines, i) # {}
                   /\ lines[i].leaf \/ lines[Entry(lines, i)].kind = "push"
         /\ Known(ConstLeaf) /\ ConstLeaf \notin Range(program.exposed) => \A d \in DepsOf(ConstLeaf) : ~Known(d)
<1>1. IsProgram(program)
  BY GatesAssumption DEF Walk
<1> QED BY <1>1, GatesAssumption DEF IsProgram, Known, DepsOf, ConstDeps, TypeDeps

LEMMA MoreWork ==
  ASSUME NEW S, NEW s \in Seq(S), s # <<>>, NEW e \in S
  PROVE  /\ Append(s, e) \in Seq(S) /\ Append(s, e) # <<>> /\ Head(Append(s, e)) = Head(s)
         /\ Range(Tail(Append(s, e))) = Range(Tail(s)) \cup {e}
<1>1. Append(s, e) \in Seq(S) /\ Append(s, e) # <<>> /\ Head(Append(s, e)) = Head(s)
  OBVIOUS
<1>2. Tail(s) \in Seq(S) /\ Tail(Append(s, e)) = Append(Tail(s), e)
  OBVIOUS
<1>3. Range(Append(Tail(s), e)) = Range(Tail(s)) \cup {e}
  <2>1. PICK t \in Seq(S) : t = Tail(s)
    BY <1>2
  <2>2. Range(Append(t, e)) = Range(t) \cup {e}
    BY AppendRange
  <2> QED BY <2>1, <2>2, Zenon
<1> QED BY <1>1, <1>2, <1>3, Zenon

LEMMA GatesBegin == GatesInit => GatesInv
<1> SUFFICES ASSUME GatesInit PROVE GatesInv
  OBVIOUS
<1> DEFINE S == {m \in DOMAIN program.modules : Known(m)}
<1>1. IsProgram(program) /\ program \in Programs
  BY GatesAssumption DEF GatesInit
<1>2. program.exposed \in Seq(S) /\ program.exposed # <<>>
  BY <1>1 DEF IsProgram, Known
<1>3. /\ DOMAIN classes = Range(program.exposed) /\ \A m \in DOMAIN classes : classes[m] = "exposed"
      /\ Range(program.exposed) \subseteq S
  BY <1>2 DEF GatesInit, Range
<1>4. program.exposed \in Seq(Range(program.exposed))
  BY <1>2 DEF Range
<1>5. Walk
  <2> HIDE DEF S
  <2>1. todo = "resolve" /\ order = program.exposed /\ work = program.exposed
        /\ deps = DepsOf(Head(program.exposed)) /\ visited = Range(program.exposed)
    BY DEF GatesInit
  <2>2. \A m \in S : Known(m)
    BY DEF S
  <2> QED BY <1>1, <1>2, <1>3, <1>4, <2>1, <2>2 DEF Walk
<1>6. Closing
  <2>1. work = program.exposed /\ deps = DepsOf(Head(work))
    BY DEF GatesInit
  <2>2. \A m \in DOMAIN classes : m = Head(work) \/ m \in Range(Tail(work))
    BY <1>2, <1>3, <2>1, HeadAndTail
  <2> QED BY <1>2, <2>1, <2>2 DEF Closing
<1>7. Generating
  BY DEF GatesInit, Generating
<1> QED BY <1>5, <1>6, <1>7 DEF GatesInv

\* What has been settled stays settled
LEMMA StaysSettled ==
  ASSUME Walk, NEW m \in DOMAIN classes, NEW d, Settled(m, d), UNCHANGED program,
         DOMAIN classes \subseteq DOMAIN classes',
         classes'[d] = classes[d] \/ classes'[d] = "type_only"
  PROVE  Settled(m, d)'
BY DEF Settled, TypeDeps

LEMMA LooksAtVisited ==
  ASSUME GatesInv, NEW d \in deps, LookAt(d), d \in visited
  PROVE  Walk' /\ Closing'
<1> DEFINE current == Head(work)
<1>1. /\ todo = "resolve" /\ work # <<>> /\ deps' = deps \ {d}
      /\ UNCHANGED <<order, work, visited, program, todo>>
      /\ classes' = IF d \in DOMAIN classes THEN [classes EXCEPT ![d] = Upgraded(d, current)] ELSE classes
  BY DEF LookAt
<1>2. Walk /\ Closing
  BY DEF GatesInv
<1>3. /\ DOMAIN classes' = DOMAIN classes
      /\ \A m \in DOMAIN classes : m # d => classes'[m] = classes[m]
      /\ d \in DOMAIN classes => classes'[d] = Upgraded(d, current)
  BY <1>1
<1>4. \A m \in DOMAIN classes :
        classes'[m] = classes[m] \/ (classes[m] = "const_only" /\ classes'[m] = "type_only")
  BY <1>3 DEF Upgraded
<1>5. \A m : (Known(m)' <=> Known(m)) /\ DepsOf(m)' = DepsOf(m) /\ TypeDeps(m)' = TypeDeps(m)
  BY <1>1 DEF Known, DepsOf, ConstDeps, TypeDeps
<1>6. Walk'
  <2>1. \A m \in DOMAIN classes' :
          /\ Known(m)' /\ classes'[m] \in {"exposed", "type_only", "const_only"}
          /\ classes'[m] = "exposed" <=> m \in Range(program'.exposed)
    BY <1>1, <1>2, <1>3, <1>4, <1>5 DEF Walk
  <2>2. /\ program' \in Programs /\ todo' \in {"resolve", "gateways", "generate", "done"}
        /\ Range(program'.exposed) \subseteq DOMAIN classes'
        /\ order' \in Seq(DOMAIN classes') /\ Range(order') = DOMAIN classes'
        /\ DOMAIN classes' \subseteq visited'
        /\ work' \in Seq(DOMAIN classes') /\ (todo' = "resolve" <=> work' # <<>>)
    BY <1>1, <1>2, <1>3 DEF Walk
  <2>3. \A m \in visited' : Known(m)' => m \in DOMAIN classes'
    BY <1>1, <1>2, <1>3, <1>5 DEF Walk
  <2>4. work' # <<>> => deps' \subseteq DepsOf(Head(work))'
    BY <1>1, <1>2, <1>5 DEF Walk, DepsOf, ConstDeps, TypeDeps
  <2> QED BY <2>1, <2>2, <2>3, <2>4 DEF Walk
<1>7. Closing'
  <2> SUFFICES ASSUME NEW m \in DOMAIN classes, ~(m \in Range(Tail(work))), NEW e \in DepsOf(m), Known(e)
               PROVE  Settled(m, e)' \/ (m = Head(work) /\ e \in deps')
    BY <1>1, <1>3, <1>5 DEF Closing
  <2>1. CASE Settled(m, e)
    <3>1. classes'[e] = classes[e] \/ classes'[e] = "type_only"
      BY <1>4, <2>1 DEF Settled
    <3> QED BY <1>1, <1>2, <1>3, <2>1, <3>1, StaysSettled
  <2>2. CASE m = Head(work) /\ e \in deps
    <3>1. CASE e # d
      BY <1>1, <2>2, <3>1
    <3>2. CASE e = d
      <4>1. d \in DOMAIN classes
        BY <1>2, <3>2 DEF Walk
      <4>2. d \in TypeDeps(m) => classes'[d] # "const_only"
        BY <1>3, <2>2, <4>1 DEF Upgraded
      <4> QED BY <1>3, <1>5, <3>2, <4>1, <4>2 DEF Settled
    <3> QED BY <3>1, <3>2
  <2> QED BY <1>1, <1>2, <2>1, <2>2 DEF Closing
<1> QED BY <1>6, <1>7

LEMMA LooksAtNew ==
  ASSUME GatesInv, NEW d \in deps, LookAt(d), d \notin visited
  PROVE  Walk' /\ Closing'
<1> DEFINE current == Head(work)
<1>1. /\ todo = "resolve" /\ work # <<>> /\ deps' = deps \ {d} /\ visited' = visited \cup {d}
      /\ UNCHANGED <<program, todo>>
  BY DEF LookAt
<1>2. Walk /\ Closing
  BY DEF GatesInv
<1>5. \A m : (Known(m)' <=> Known(m)) /\ DepsOf(m)' = DepsOf(m) /\ TypeDeps(m)' = TypeDeps(m)
  BY <1>1 DEF Known, DepsOf, ConstDeps, TypeDeps
<1>6. d \notin DOMAIN classes /\ d \notin Range(program.exposed)
  BY <1>2 DEF Walk
<1>7. CASE ~Known(d)
  <2>1. UNCHANGED <<classes, order, work>>
    BY <1>7 DEF LookAt
  <2>2. Walk'
    <3>1. \A m \in visited' : Known(m)' => m \in DOMAIN classes'
      BY <1>1, <1>2, <1>5, <1>7, <2>1 DEF Walk
    <3>2. work' # <<>> => deps' \subseteq DepsOf(Head(work))'
      BY <1>1, <1>2, <1>5, <2>1 DEF Walk, DepsOf, ConstDeps, TypeDeps
    <3>3. \A m \in DOMAIN classes' :
            /\ Known(m)' /\ classes'[m] \in {"exposed", "type_only", "const_only"}
            /\ classes'[m] = "exposed" <=> m \in Range(program'.exposed)
      BY <1>1, <1>2, <1>5, <2>1 DEF Walk
    <3>4. /\ program' \in Programs /\ todo' \in {"resolve", "gateways", "generate", "done"}
          /\ Range(program'.exposed) \subseteq DOMAIN classes'
          /\ order' \in Seq(DOMAIN classes') /\ Range(order') = DOMAIN classes'
          /\ DOMAIN classes' \subseteq visited'
          /\ work' \in Seq(DOMAIN classes') /\ (todo' = "resolve" <=> work' # <<>>)
      BY <1>1, <1>2, <2>1 DEF Walk
    <3> QED BY <3>1, <3>2, <3>3, <3>4 DEF Walk
  <2>3. Closing'
    <3> SUFFICES ASSUME NEW m \in DOMAIN classes, ~(m \in Range(Tail(work))), NEW e \in DepsOf(m), Known(e)
                 PROVE  Settled(m, e)' \/ (m = Head(work) /\ e \in deps')
      BY <1>1, <1>5, <2>1 DEF Closing
    <3>1. CASE Settled(m, e)
      BY <1>5, <2>1, <3>1 DEF Settled
    <3>2. CASE m = Head(work) /\ e \in deps
      BY <1>1, <1>7, <3>2
    <3> QED BY <1>1, <1>2, <3>1, <3>2 DEF Closing
  <2> QED BY <2>2, <2>3
<1>8. CASE Known(d)
  <2>1. /\ classes' = [m \in DOMAIN classes \cup {d} |-> IF m = d THEN ClassOf(d, current) ELSE classes[m]]
        /\ order' = Append(order, d) /\ work' = IF d = ConstLeaf THEN work ELSE Append(work, d)
    BY <1>8 DEF LookAt
  <2>2. /\ DOMAIN classes' = DOMAIN classes \cup {d}
        /\ \A m \in DOMAIN classes : classes'[m] = classes[m]
        /\ classes'[d] = ClassOf(d, current)
    BY <1>6, <2>1
  <2>3. ClassOf(d, current) \in {"type_only", "const_only"}
    BY DEF ClassOf
  <2> DEFINE S == DOMAIN classes \cup {d}
  <2>4. order \in Seq(S) /\ work \in Seq(S) /\ d \in S
    <3>1. order \in Seq(DOMAIN classes) /\ work \in Seq(DOMAIN classes)
      BY <1>2 DEF Walk
    <3> QED BY <3>1
  <2>5. order' \in Seq(S) /\ Range(order') = S
    <3>1. Append(order, d) \in Seq(S) /\ Range(Append(order, d)) = Range(order) \cup {d}
      BY <2>4, AppendRange
    <3> QED BY <1>2, <2>1, <3>1 DEF Walk
  <2>6. /\ work' \in Seq(S) /\ work' # <<>> /\ Head(work') = Head(work)
        /\ Range(Tail(work')) = IF d = ConstLeaf THEN Range(Tail(work)) ELSE Range(Tail(work)) \cup {d}
    <3>1. /\ Append(work, d) \in Seq(S) /\ Append(work, d) # <<>> /\ Head(Append(work, d)) = Head(work)
          /\ Range(Tail(Append(work, d))) = Range(Tail(work)) \cup {d}
      BY <1>1, <2>4, MoreWork
    <3> QED BY <1>1, <2>1, <2>4, <3>1
  <2>7. Walk'
    <3>1. \A m \in visited' : Known(m)' => m \in DOMAIN classes'
      BY <1>1, <1>2, <1>5, <2>2 DEF Walk
    <3>2. work' # <<>> => deps' \subseteq DepsOf(Head(work))'
      BY <1>1, <1>2, <1>5, <2>6 DEF Walk, DepsOf, ConstDeps, TypeDeps
    <3>3. \A m \in DOMAIN classes' :
            /\ Known(m)' /\ classes'[m] \in {"exposed", "type_only", "const_only"}
            /\ classes'[m] = "exposed" <=> m \in Range(program'.exposed)
      BY <1>1, <1>2, <1>5, <1>6, <1>8, <2>2, <2>3 DEF Walk
    <3>4. /\ program' \in Programs /\ todo' \in {"resolve", "gateways", "generate", "done"}
          /\ Range(program'.exposed) \subseteq DOMAIN classes'
          /\ DOMAIN classes' \subseteq visited'
      BY <1>1, <1>2, <2>2 DEF Walk
    <3>5. /\ order' \in Seq(DOMAIN classes') /\ Range(order') = DOMAIN classes'
          /\ work' \in Seq(DOMAIN classes') /\ (todo' = "resolve" <=> work' # <<>>)
      BY <1>1, <2>2, <2>5, <2>6
    <3> QED BY <3>1, <3>2, <3>3, <3>4, <3>5 DEF Walk
  <2>8. Closing'
    <3> SUFFICES ASSUME NEW m \in S, ~(m \in Range(Tail(work'))), NEW e \in DepsOf(m), Known(e)
                 PROVE  Settled(m, e)' \/ (m = Head(work) /\ e \in deps')
      BY <1>5, <2>2, <2>6 DEF Closing
    <3>1. CASE m = d
      <4>1. d = ConstLeaf
        BY <2>6, <3>1
      <4> QED BY <1>2, <1>6, <1>8, <3>1, <4>1, GivenProgram
    <3>2. CASE m # d
      <4>1. m \in DOMAIN classes /\ m \notin Range(Tail(work))
        BY <2>6, <3>2
      <4>2. CASE Settled(m, e)
        <5>1. classes'[e] = classes[e] /\ DOMAIN classes \subseteq DOMAIN classes'
          BY <2>2, <4>2 DEF Settled
        <5> QED BY <1>1, <1>2, <4>1, <4>2, <5>1, StaysSettled
      <4>3. CASE m = Head(work) /\ e \in deps
        <5>1. CASE e # d
          BY <1>1, <4>3, <5>1
        <5>2. CASE e = d
          <6>1. d \in TypeDeps(m) => classes'[d] # "const_only"
            BY <2>2, <4>3 DEF ClassOf
          <6> QED BY <1>5, <2>2, <5>2, <6>1 DEF Settled
        <5> QED BY <5>1, <5>2
      <4> QED BY <1>1, <1>2, <4>1, <4>2, <4>3 DEF Closing
    <3> QED BY <3>1, <3>2
  <2> QED BY <2>7, <2>8
<1> QED BY <1>7, <1>8

LEMMA WalksOn ==
  ASSUME GatesInv, NextModule
  PROVE  Walk' /\ Closing'
<1>1. /\ todo = "resolve" /\ work # <<>> /\ deps = {} /\ work' = Tail(work)
      /\ deps' = IF Tail(work) = <<>> THEN {} ELSE DepsOf(Head(Tail(work)))
      /\ todo' = IF Tail(work) = <<>> THEN "gateways" ELSE todo
      /\ UNCHANGED <<program, classes, order, visited>>
  BY DEF NextModule
<1>2. Walk /\ Closing
  BY DEF GatesInv
<1>3. work \in Seq(DOMAIN classes)
  BY <1>2 DEF Walk
<1>4. Tail(work) \in Seq(DOMAIN classes)
  BY <1>1, <1>3, HeadAndTail
<1>5. \A m : (Known(m)' <=> Known(m)) /\ DepsOf(m)' = DepsOf(m) /\ TypeDeps(m)' = TypeDeps(m)
  BY <1>1 DEF Known, DepsOf, ConstDeps, TypeDeps
<1>6. Walk'
  <2>1. \A m \in DOMAIN classes' :
          /\ Known(m)' /\ classes'[m] \in {"exposed", "type_only", "const_only"}
          /\ classes'[m] = "exposed" <=> m \in Range(program'.exposed)
    BY <1>1, <1>2, <1>5 DEF Walk
  <2>2. /\ program' \in Programs /\ todo' \in {"resolve", "gateways", "generate", "done"}
        /\ Range(program'.exposed) \subseteq DOMAIN classes'
        /\ order' \in Seq(DOMAIN classes') /\ Range(order') = DOMAIN classes'
        /\ DOMAIN classes' \subseteq visited'
        /\ work' \in Seq(DOMAIN classes') /\ (todo' = "resolve" <=> work' # <<>>)
    BY <1>1, <1>2, <1>4 DEF Walk
  <2>3. \A m \in visited' : Known(m)' => m \in DOMAIN classes'
    BY <1>1, <1>2, <1>5 DEF Walk
  <2>4. work' # <<>> => deps' \subseteq DepsOf(Head(work))'
    BY <1>1, <1>5 DEF Walk, DepsOf, ConstDeps, TypeDeps
  <2> QED BY <2>1, <2>2, <2>3, <2>4 DEF Walk
<1>7. Closing'
  <2> SUFFICES ASSUME NEW m \in DOMAIN classes, ~(Tail(work) # <<>> /\ m \in Range(Tail(Tail(work)))),
                      NEW e \in DepsOf(m), Known(e)
               PROVE  Settled(m, e)' \/ (Tail(work) # <<>> /\ m = Head(Tail(work)) /\ e \in deps')
    BY <1>1, <1>5 DEF Closing
  <2>1. CASE m \in Range(Tail(work))
    <3>1. Tail(work) # <<>>
      BY <2>1 DEF Range
    <3>2. m = Head(Tail(work))
      BY <1>4, <2>1, <3>1, HeadAndTail
    <3> QED BY <1>1, <3>1, <3>2
  <2>2. CASE m \notin Range(Tail(work))
    <3>1. Settled(m, e)
      BY <1>1, <1>2, <2>2 DEF Closing
    <3> QED BY <1>1, <1>5, <3>1 DEF Settled
  <2> QED BY <2>1, <2>2
<1> QED BY <1>6, <1>7

-----------------------------------------------------------------------------
LEMMA PickedInOrder ==
  ASSUME Walk, NEW ms
  PROVE  InOrderOf(ms) \in Seq(DOMAIN classes) /\ Range(InOrderOf(ms)) = DOMAIN classes \cap ms
<1> DEFINE S == DOMAIN classes
           ss == [n \in DOMAIN order |-> IF order[n] \in ms THEN <<order[n]>> ELSE <<>>]
<1>1. order \in Seq(S) /\ Range(order) = S
  BY DEF Walk
<1>2. Len(order) \in Nat /\ DOMAIN order = 1 .. Len(order) /\ \A n \in DOMAIN order : order[n] \in S
  BY <1>1
<1>3. ss \in Seq(Seq(S)) /\ Len(ss) = Len(order) /\ InOrderOf(ms) = FlattenSeq(ss)
      /\ \A n \in 1 .. Len(ss) : ss[n] = IF order[n] \in ms THEN <<order[n]>> ELSE <<>>
  <2> HIDE DEF S
  <2>1. \A n \in DOMAIN order : (IF order[n] \in ms THEN <<order[n]>> ELSE <<>>) \in Seq(S)
    BY <1>2
  <2> QED BY <1>2, <2>1 DEF InOrderOf
<1> HIDE DEF ss, S
<1>4. FlattenSeq(ss) \in Seq(S)
  BY <1>3, FlattenIs
<1>5. ASSUME NEW m \in Range(FlattenSeq(ss)) PROVE m \in S \cap ms
  <2>1. PICK j \in 1 .. Len(FlattenSeq(ss)) : m = FlattenSeq(ss)[j]
    BY <1>4 DEF Range
  <2>2. PICK i \in 1 .. Len(ss) :
          \E k \in 1 .. Len(ss[i]) : j = Len(Leading(ss, i - 1)) + k /\ FlattenSeq(ss)[j] = ss[i][k]
    <3>1. ss \in Seq(Seq(S))
      BY <1>3
    <3> QED BY <3>1, PlaceOfEach
  <2>3. PICK k \in 1 .. Len(ss[i]) : m = ss[i][k]
    BY <2>1, <2>2
  <2>4. order[i] \in ms
    <3>1. SUFFICES ASSUME order[i] \notin ms PROVE FALSE
      OBVIOUS
    <3>2. ss[i] = <<>> /\ Len(<<>>) = 0
      BY <1>3, <3>1
    <3> QED BY <2>3, <3>2
  <2>5. ss[i] = <<order[i]>>
    BY <1>3, <2>4
  <2>6. m = order[i]
    <3>1. k = 1
      BY <2>3, <2>5
    <3> QED BY <2>3, <2>5, <3>1
  <2> QED BY <1>2, <1>3, <2>4, <2>6
<1>6. ASSUME NEW m \in S, m \in ms PROVE m \in Range(FlattenSeq(ss))
  <2>1. PICK i \in 1 .. Len(ss) : order[i] = m
    BY <1>1, <1>2, <1>3 DEF Range
  <2>2. ss[i] = <<m>>
    BY <1>3, <1>6, <2>1
  <2>5. 1 \in 1 .. Len(ss[i]) /\ ss[i][1] = m
    BY <2>2
  <2>3. /\ Len(Leading(ss, i - 1)) + 1 \in 1 .. Len(FlattenSeq(ss))
        /\ FlattenSeq(ss)[Len(Leading(ss, i - 1)) + 1] = ss[i][1]
    BY <1>3, <2>5, Placed
  <2>4. FlattenSeq(ss)[Len(Leading(ss, i - 1)) + 1] \in Range(FlattenSeq(ss))
    BY <1>4, <2>3 DEF Range
  <2> QED BY <2>3, <2>4, <2>5
<1> QED BY <1>3, <1>4, <1>5, <1>6 DEF S

\* All the modules that have a class are generated, the exposed ones behind
\* the others, in the order of the command line
LEMMA OrderIs ==
  ASSUME Walk
  PROVE  /\ GenerationOrder \in Seq(DOMAIN classes) /\ Range(GenerationOrder) = DOMAIN classes
         /\ Unexposed \in Nat /\ Len(program.exposed) \in Nat
         /\ Len(GenerationOrder) = Unexposed + Len(program.exposed)
         /\ \A n \in 1 .. Unexposed : classes[GenerationOrder[n]] # "exposed"
         /\ \A n \in 1 .. Len(program.exposed) : GenerationOrder[Unexposed + n] = program.exposed[n]
<1> DEFINE S == DOMAIN classes
           a == InOrderOf({ConstLeaf} \ OfClass("exposed"))
           b == InOrderOf(OfClass("const_only") \ {ConstLeaf})
           c == InOrderOf(OfClass("type_only") \ {ConstLeaf})
           e == program.exposed
           ab == a \o b
           abc == ab \o c
<1>1. GenerationOrder = abc \o e
  BY DEF GenerationOrder
<1>2. a \in Seq(S) /\ Range(a) = S \cap ({ConstLeaf} \ OfClass("exposed"))
  BY PickedInOrder
<1>3. b \in Seq(S) /\ Range(b) = S \cap (OfClass("const_only") \ {ConstLeaf})
  BY PickedInOrder
<1>4. c \in Seq(S) /\ Range(c) = S \cap (OfClass("type_only") \ {ConstLeaf})
  BY PickedInOrder
<1>5. e \in Seq(S) /\ Range(e) = OfClass("exposed")
  <2>1. Range(e) \subseteq S /\ Range(e) = OfClass("exposed")
    BY DEF Walk, OfClass
  <2>2. e \in Seq({m \in DOMAIN program.modules : Known(m)})
    BY GivenProgram
  <2>3. e \in Seq(Range(e))
    BY <2>2 DEF Range
  <2> QED BY <2>1, <2>3
<1> HIDE DEF a, b, c, e
<1>6. ab \in Seq(S) /\ Range(ab) = Range(a) \cup Range(b)
  BY <1>2, <1>3, JoinedRange
<1> HIDE DEF ab
<1>7. abc \in Seq(S) /\ Range(abc) = Range(ab) \cup Range(c)
  BY <1>4, <1>6, JoinedRange DEF abc
<1> HIDE DEF abc
<1>8. /\ abc \o e \in Seq(S) /\ Range(abc \o e) = Range(abc) \cup Range(e)
      /\ Len(abc \o e) = Len(abc) + Len(e) /\ Len(abc) \in Nat /\ Len(e) \in Nat
      /\ \A n \in 1 .. Len(abc) : (abc \o e)[n] = abc[n]
      /\ \A n \in 1 .. Len(e) : (abc \o e)[Len(abc) + n] = e[n]
  BY <1>5, <1>7, JoinedRange, Joined
<1>9. Range(abc \o e) = S
  <2>1. \A m \in S : classes[m] \in {"exposed", "type_only", "const_only"}
    BY DEF Walk
  <2>2. \A m \in S : m \in Range(a) \cup Range(b) \cup Range(c) \cup Range(e)
    BY <1>2, <1>3, <1>4, <1>5, <2>1 DEF OfClass
  <2>3. Range(e) \subseteq S
    BY <1>5 DEF OfClass
  <2> QED BY <1>2, <1>3, <1>4, <1>6, <1>7, <1>8, <2>2, <2>3
<1>10. \A n \in 1 .. Len(abc) : classes[abc[n]] # "exposed"
  <2>1. \A m \in Range(abc) : m \in S /\ m \notin OfClass("exposed")
    BY <1>2, <1>3, <1>4, <1>6, <1>7 DEF OfClass
  <2>2. \A n \in 1 .. Len(abc) : abc[n] \in Range(abc)
    BY <1>7 DEF Range
  <2> QED BY <2>1, <2>2 DEF OfClass
<1>11. Unexposed = Len(abc)
  BY <1>1, <1>8 DEF Unexposed, e
<1> QED BY <1>1, <1>8, <1>9, <1>10, <1>11 DEF e

-----------------------------------------------------------------------------
\* A gateway has the address of a procedure, and the stub that of a gateway
LEMMA ProcsOf ==
  ASSUME Walk, NEW m \in Range(program.exposed)
  PROVE  /\ \E S : ExportedProcs(m) \in Seq(S)
         /\ \A k \in DOMAIN ExportedProcs(m) :
              \E i \in DOMAIN program.modules[m].lines :
                /\ IsStubbed(program.modules[m].lines[i])
                /\ ExportedProcs(m)[k] = ExportedProc(program.modules[m].lines, i)
<1> DEFINE lines == program.modules[m].lines
           S == {ExportedProc(lines, i) : i \in DOMAIN lines}
           ss == [i \in DOMAIN lines |-> IF IsStubbed(lines[i]) THEN <<ExportedProc(lines, i)>> ELSE <<>>]
<1>1. lines \in Seq(Range(lines))
  BY GivenProgram
<1>2. ExportedProcs(m) = FlattenSeq(ss)
  BY DEF ExportedProcs
<1>3. Len(lines) \in Nat /\ DOMAIN lines = 1 .. Len(lines)
  <2> HIDE DEF lines
  <2> QED BY <1>1
<1> HIDE DEF lines
<1>4. ss \in Seq(Seq(S)) /\ Len(ss) = Len(lines)
      /\ \A i \in 1 .. Len(ss) : ss[i] = IF IsStubbed(lines[i]) THEN <<ExportedProc(lines, i)>> ELSE <<>>
  <2>1. \A i \in DOMAIN lines : (IF IsStubbed(lines[i]) THEN <<ExportedProc(lines, i)>> ELSE <<>>) \in Seq(S)
    <3>1. \A i \in DOMAIN lines : ExportedProc(lines, i) \in S
      OBVIOUS
    <3> HIDE DEF S
    <3> QED BY <3>1
  <2> HIDE DEF S
  <2> QED BY <1>3, <2>1
<1> HIDE DEF ss, S
<1>5. FlattenSeq(ss) \in Seq(S)
  BY <1>4, FlattenIs
<1>6. ASSUME NEW k \in DOMAIN FlattenSeq(ss)
      PROVE  \E i \in DOMAIN lines : IsStubbed(lines[i]) /\ FlattenSeq(ss)[k] = ExportedProc(lines, i)
  <2>1. k \in 1 .. Len(FlattenSeq(ss))
    BY <1>5
  <2>2. PICK i \in 1 .. Len(ss) : \E j \in 1 .. Len(ss[i]) : FlattenSeq(ss)[k] = ss[i][j]
    BY <1>4, <2>1, PlaceOfEach
  <2>3. PICK j \in 1 .. Len(ss[i]) : FlattenSeq(ss)[k] = ss[i][j]
    BY <2>2
  <2>4. IsStubbed(lines[i])
    <3>1. SUFFICES ASSUME ~IsStubbed(lines[i]) PROVE FALSE
      OBVIOUS
    <3>2. ss[i] = <<>> /\ Len(<<>>) = 0
      BY <1>4, <3>1
    <3> QED BY <2>3, <3>2
  <2>5. ss[i] = <<ExportedProc(lines, i)>>
    BY <1>4, <2>4
  <2>6. j = 1
    BY <2>3, <2>5
  <2>7. FlattenSeq(ss)[k] = ExportedProc(lines, i)
    BY <2>3, <2>5, <2>6
  <2> QED BY <1>3, <1>4, <2>4, <2>7
<1> QED BY <1>2, <1>5, <1>6 DEF lines

LEMMA GatewaysAre ==
  ASSUME Walk
  PROVE  \E S : /\ AllGateways \in Seq(Seq(S)) /\ Len(AllGateways) = Len(program.exposed)
                /\ \A n \in 1 .. Len(program.exposed) :
                     LET m == program.exposed[n] IN
                     /\ m \in Range(program.exposed) /\ AllGateways[n] = GatewaysOf(m)
                     /\ Len(AllGateways[n]) = Len(ExportedProcs(m))
                     /\ Len(ExportedProcs(m)) \in Nat /\ DOMAIN ExportedProcs(m) = 1 .. Len(ExportedProcs(m))
                     /\ \A k \in 1 .. Len(ExportedProcs(m)) : AllGateways[n][k] =
                          [target |-> program.modules[m].code + ExportedProcs(m)[k].rel,
                           proc |-> <<m, ExportedProcs(m)[k].name>>]
<1> DEFINE e == program.exposed
           Gate(m, k) == [target |-> program.modules[m].code + ExportedProcs(m)[k].rel,
                          proc |-> <<m, ExportedProcs(m)[k].name>>]
           S == UNION {{Gate(m, k) : k \in DOMAIN ExportedProcs(m)} : m \in Range(e)}
<1>1. e \in Seq(Range(e)) /\ Len(e) \in Nat /\ DOMAIN e = 1 .. Len(e) /\ \A n \in DOMAIN e : e[n] \in Range(e)
  <2>1. e \in Seq({m \in DOMAIN program.modules : Known(m)})
    BY GivenProgram
  <2> HIDE DEF e
  <2> QED BY <2>1 DEF Range
<1>2. ASSUME NEW m \in Range(e)
      PROVE  /\ Len(ExportedProcs(m)) \in Nat /\ DOMAIN ExportedProcs(m) = 1 .. Len(ExportedProcs(m))
             /\ GatewaysOf(m) \in Seq(S) /\ Len(GatewaysOf(m)) = Len(ExportedProcs(m))
             /\ \A k \in 1 .. Len(ExportedProcs(m)) : GatewaysOf(m)[k] = Gate(m, k)
  <2>1. PICK T : ExportedProcs(m) \in Seq(T)
    BY ProcsOf
  <2>2. Len(ExportedProcs(m)) \in Nat /\ DOMAIN ExportedProcs(m) = 1 .. Len(ExportedProcs(m))
    BY <2>1
  <2>3. \A k \in DOMAIN ExportedProcs(m) : Gate(m, k) \in S
    OBVIOUS
  <2>4. GatewaysOf(m) = [k \in DOMAIN ExportedProcs(m) |-> Gate(m, k)]
    BY DEF GatewaysOf
  <2> HIDE DEF Gate, S
  <2> QED BY <2>2, <2>3, <2>4
<1>3. AllGateways = [n \in DOMAIN e |-> GatewaysOf(e[n])]
  BY DEF AllGateways
<1> HIDE DEF S
<1>4. AllGateways \in Seq(Seq(S)) /\ Len(AllGateways) = Len(e)
      /\ \A n \in 1 .. Len(e) : AllGateways[n] = GatewaysOf(e[n])
  <2> HIDE DEF e
  <2> QED BY <1>1, <1>2, <1>3
<1> QED BY <1>1, <1>2, <1>4

\* The gateways are counted in the same way both times
LEMMA GatewaysCounted ==
  ASSUME Walk, NEW j \in 0 .. Len(GenerationOrder) - 1
  PROVE  Len(FlattenSeq([n \in 1 .. j |-> ModuleAt(n).stubs])) = IndexAt(j + 1)
<1> DEFINE L == Len(GenerationOrder)
           Stub(m, k, x) == StubAt(x + k - 1, ExportedProcs(m)[k])
           S == {ModuleAt(n).stubs[k] : n \in 1 .. L, k \in Nat}
           ss == [n \in 1 .. L |-> ModuleAt(n).stubs]
           Count(n) == IF n <= Unexposed THEN 0 ELSE Len(Leading(AllGateways, n - Unexposed))
           Bad == {n \in 0 .. L : Len(Leading(ss, n)) # Count(n)}
<1>1. /\ Unexposed \in Nat /\ Len(program.exposed) \in Nat /\ L = Unexposed + Len(program.exposed) /\ L \in Nat
      /\ \A n \in 1 .. Unexposed : classes[GenerationOrder[n]] # "exposed"
      /\ \A n \in 1 .. Len(program.exposed) : GenerationOrder[Unexposed + n] = program.exposed[n]
  BY OrderIs
<1>2. PICK G : /\ AllGateways \in Seq(Seq(G)) /\ Len(AllGateways) = Len(program.exposed)
               /\ \A n \in 1 .. Len(program.exposed) :
                    LET m == program.exposed[n] IN
                    /\ m \in Range(program.exposed)
                    /\ Len(AllGateways[n]) = Len(ExportedProcs(m))
                    /\ Len(ExportedProcs(m)) \in Nat /\ DOMAIN ExportedProcs(m) = 1 .. Len(ExportedProcs(m))
  <2> HIDE DEF ss, S, L
  <2> QED BY GatewaysAre
<1>3. ASSUME NEW n \in 1 .. Unexposed PROVE ModuleAt(n).stubs = <<>>
  BY <1>1, <1>3 DEF ModuleAt
<1>4. ASSUME NEW n \in 1 .. Len(program.exposed)
      PROVE  /\ ModuleAt(Unexposed + n).stubs = Stubs(program.exposed[n], IndexAt(Unexposed + n))
             /\ Len(ModuleAt(Unexposed + n).stubs) = Len(AllGateways[n])
             /\ Len(AllGateways[n]) \in Nat
             /\ DOMAIN ModuleAt(Unexposed + n).stubs = 1 .. Len(AllGateways[n])
  <2> DEFINE m == program.exposed[n]
  <2>1. GenerationOrder[Unexposed + n] = m /\ m \in Range(program.exposed)
    BY <1>1, <1>2
  <2>2. classes[m] = "exposed"
    BY <2>1 DEF Walk
  <2>3. ModuleAt(Unexposed + n).stubs = Stubs(m, IndexAt(Unexposed + n))
    BY <2>1, <2>2 DEF ModuleAt
  <2>4. DOMAIN Stubs(m, IndexAt(Unexposed + n)) = 1 .. Len(AllGateways[n]) /\ Len(AllGateways[n]) \in Nat
    BY <1>2 DEF Stubs
  <2>5. Len(Stubs(m, IndexAt(Unexposed + n))) = Len(AllGateways[n])
    <3> DEFINE d == IndexAt(Unexposed + n)
               l == Len(AllGateways[n])
    <3>1. Stubs(m, d) = [k \in 1 .. l |-> StubAt(d + k - 1, ExportedProcs(m)[k])] /\ l \in Nat
      BY <1>2 DEF Stubs
    <3> HIDE DEF d, m, l
    <3>2. Len(Stubs(m, d)) = l
      BY <3>1
    <3> QED BY <3>2 DEF d, m, l
  <2> QED BY <2>3, <2>4, <2>5
<1>5. ss \in Seq(Seq(S)) /\ Len(ss) = L /\ \A n \in 1 .. L : ss[n] = ModuleAt(n).stubs
  <2>1. ASSUME NEW n \in 1 .. L PROVE ModuleAt(n).stubs \in Seq(S)
    <3>1. CASE n <= Unexposed
      <4>1. ModuleAt(n).stubs = <<>>
        BY <1>1, <1>3, <3>1
      <4> HIDE DEF S
      <4> QED BY <4>1
    <3>2. CASE n > Unexposed
      <4>1. n - Unexposed \in 1 .. Len(program.exposed) /\ Unexposed + (n - Unexposed) = n
        BY <1>1, <3>2
      <4>2. PICK l \in Nat : Len(ModuleAt(n).stubs) = l /\ DOMAIN ModuleAt(n).stubs = 1 .. l
        BY <1>4, <4>1
      <4>3. \A k \in 1 .. l : ModuleAt(n).stubs[k] \in S
        OBVIOUS
      <4>4. \E x, p : ModuleAt(n).stubs = Stubs(p, x)
        BY <1>4, <4>1
      <4>5. ModuleAt(n).stubs = [k \in 1 .. l |-> ModuleAt(n).stubs[k]]
        BY <4>2, <4>4 DEF Stubs
      <4> DEFINE t == ModuleAt(n).stubs
      <4> HIDE DEF S, t
      <4>6. t \in Seq(S)
        BY <4>2, <4>3, <4>5 DEF t
      <4> QED BY <4>6 DEF t
    <3> QED BY <1>1, <3>1, <3>2
  <2> HIDE DEF S, L
  <2> QED BY <1>1, <2>1
<1>6. 0 \notin Bad
  <2>1. Leading(ss, 0) = <<>>
    <3> HIDE DEF ss, S
    <3> QED BY <1>5, FrontStep
  <2> QED BY <1>1, <2>1
<1>7. ASSUME NEW n \in 1 .. L, n - 1 \notin Bad PROVE n \notin Bad
  <2>1. Len(Leading(ss, n - 1)) = Count(n - 1)
    BY <1>1, <1>7
  <2>2. Len(Leading(ss, n)) = Len(Leading(ss, n - 1)) + Len(ModuleAt(n).stubs)
    <3>1. ss \in Seq(Seq(S)) /\ n \in 1 .. Len(ss) /\ ss[n] = ModuleAt(n).stubs
      BY <1>5
    <3> HIDE DEF ss, S, Count, Bad
    <3> QED BY <3>1, FrontStep
  <2>3. CASE n <= Unexposed
    <3>1. Count(n) = 0 /\ Count(n - 1) = 0 /\ Len(ModuleAt(n).stubs) = 0
      BY <1>1, <1>3, <2>3
    <3> QED BY <2>1, <2>2, <3>1
  <2>4. CASE n > Unexposed
    <3> DEFINE i == n - Unexposed
    <3>1. i \in 1 .. Len(program.exposed) /\ Unexposed + i = n /\ i \in 1 .. Len(AllGateways)
      BY <1>1, <1>2, <2>4
    <3>2. Len(ModuleAt(n).stubs) = Len(AllGateways[i])
      BY <1>4, <3>1
    <3>3. /\ Len(Leading(AllGateways, i)) = Len(Leading(AllGateways, i - 1)) + Len(AllGateways[i])
          /\ Leading(AllGateways, 0) = <<>>
      <4> HIDE DEF i
      <4> QED BY <1>2, <3>1, FrontStep
    <3>4. Count(n) = Len(Leading(AllGateways, i))
      BY <1>1, <2>4
    <3>5. Count(n - 1) = Len(Leading(AllGateways, i - 1))
      <4>1. CASE i = 1
        <5>1. Leading(AllGateways, i - 1) = <<>> /\ n - 1 <= Unexposed
          BY <1>1, <3>3, <4>1
        <5> QED BY <5>1
      <4>2. CASE i # 1
        <5>1. ~(n - 1 <= Unexposed) /\ (n - 1) - Unexposed = i - 1
          BY <1>1, <3>1, <4>2
        <5> QED BY <5>1
      <4> QED BY <4>1, <4>2
    <3> HIDE DEF i, Count, ss
    <3>6. Len(Leading(ss, n)) = Count(n)
      BY <2>1, <2>2, <3>2, <3>3, <3>4, <3>5
    <3> QED BY <3>6
  <2> QED BY <1>1, <2>3, <2>4
<1>8. Bad = {}
  <2>1. Bad \in SUBSET (0 .. L)
    OBVIOUS
  <2> HIDE DEF Bad, L
  <2> QED BY <1>1, <1>6, <1>7, <2>1, NoFirstFailure
<1>9. Len(Leading(ss, j)) = Count(j)
  <2>1. j \in 0 .. L
    BY <1>1
  <2> HIDE DEF ss, Count
  <2> QED BY <1>8, <2>1
<1>10. Leading(ss, j) = FlattenSeq([n \in 1 .. j |-> ModuleAt(n).stubs])
  <2>1. SubSeq(ss, 1, j) = [n \in 1 .. j |-> ss[n]]
    <3>1. j \in 0 .. Len(ss)
      BY <1>1, <1>5
    <3> HIDE DEF ss, S
    <3> QED BY <1>5, <3>1
  <2>2. \A n \in 1 .. j : ss[n] = ModuleAt(n).stubs
    BY <1>1
  <2>3. [n \in 1 .. j |-> ss[n]] = [n \in 1 .. j |-> ModuleAt(n).stubs]
    <3> HIDE DEF ss
    <3> QED BY <2>2
  <2> QED BY <2>1, <2>3 DEF Leading
<1>11. Count(j) = IndexAt(j + 1)
  <2>1. CASE j < Unexposed
    BY <1>1, <2>1 DEF IndexAt
  <2>2. CASE j = Unexposed
    <3>1. Leading(AllGateways, 0) = <<>>
      BY <1>2, FrontStep
    <3>2. (j + 1) - Unexposed - 1 = 0 /\ ~(j + 1 <= Unexposed) /\ j <= Unexposed
      BY <1>1, <2>2
    <3> QED BY <3>1, <3>2 DEF IndexAt
  <2>3. CASE j > Unexposed
    <3>1. (j + 1) - Unexposed - 1 = j - Unexposed /\ ~(j + 1 <= Unexposed) /\ ~(j <= Unexposed)
      BY <1>1, <2>3
    <3> QED BY <3>1 DEF IndexAt
  <2> QED BY <1>1, <2>1, <2>2, <2>3
<1> QED BY <1>9, <1>10, <1>11

-----------------------------------------------------------------------------
LEMMA GatewaysCollect ==
  ASSUME GatesInv, CollectGateways
  PROVE  GatesInv'
<1>1. /\ todo = "gateways" /\ todo' = "generate" /\ gateways' = FlattenSeq(AllGateways)
      /\ UNCHANGED <<program, classes, order, work, deps, visited, generated>>
  BY DEF CollectGateways
<1>2. Walk /\ Closing /\ Generating
  BY DEF GatesInv
<1>3. Walk'
  BY <1>1, <1>2 DEF Walk, Known, DepsOf, ConstDeps, TypeDeps
<1>4. Closing'
  BY <1>1, <1>2 DEF Closing, Settled, Known, DepsOf, ConstDeps, TypeDeps
<1>5. AllGateways' = AllGateways
  BY <1>1 DEF AllGateways, GatewaysOf, ExportedProcs
<1>6. GenerationOrder' = GenerationOrder
  BY <1>1 DEF GenerationOrder, InOrderOf, OfClass
<1>7. Len(GenerationOrder) > 0 /\ Len(GenerationOrder) \in Nat
  <2>1. Len(program.exposed) # 0
    <3>1. program.exposed \in Seq({m \in DOMAIN program.modules : Known(m)}) /\ program.exposed # <<>>
      BY <1>2, GivenProgram
    <3> QED BY <3>1
  <2> QED BY <1>2, <2>1, OrderIs
<1>8. generated = <<>>
  BY <1>1, <1>2 DEF Generating
<1>9. generated' = [n \in 1 .. Len(generated') |-> ModuleAt(n)']
  <2>1. generated' = <<>> /\ Len(<<>>) = 0
    BY <1>1, <1>8
  <2> QED BY <2>1
<1>10. Generating'
  <2>1. gateways' = FlattenSeq(AllGateways)'
    BY <1>1, <1>5
  <2>2. Len(generated') \in 0 .. Len(GenerationOrder) - 1
    BY <1>1, <1>7, <1>8
  <2> QED BY <1>1, <1>6, <1>9, <2>1, <2>2 DEF Generating
<1> QED BY <1>3, <1>4, <1>10 DEF GatesInv

LEMMA ModuleIsGenerated ==
  ASSUME GatesInv, GenerateModule
  PROVE  GatesInv'
<1> DEFINE j == Len(generated)
           L == Len(GenerationOrder)
<1>1. /\ todo = "generate" /\ todo' = (IF j + 1 = L THEN "done" ELSE todo)
      /\ generated' = Append(generated, NsModule(GenerationOrder[j + 1]))
      /\ UNCHANGED <<program, classes, order, work, deps, visited, gateways>>
  BY DEF GenerateModule
<1>2. Walk /\ Closing /\ Generating
  BY DEF GatesInv
<1>3. Walk'
  <2>1. todo' \in {"generate", "done"} /\ work = <<>>
    BY <1>1, <1>2 DEF Walk
  <2> QED BY <1>1, <1>2, <2>1 DEF Walk, Known, DepsOf, ConstDeps, TypeDeps
<1>4. Closing'
  BY <1>1, <1>2 DEF Closing, Settled, Known, DepsOf, ConstDeps, TypeDeps
<1>5. AllGateways' = AllGateways
  BY <1>1 DEF AllGateways, GatewaysOf, ExportedProcs
<1>6. GenerationOrder' = GenerationOrder
  BY <1>1 DEF GenerationOrder, InOrderOf, OfClass
<1>7. ASSUME NEW n PROVE ModuleAt(n)' = ModuleAt(n)
  BY <1>1, <1>5, <1>6 DEF ModuleAt, IndexAt, Unexposed, NsImports, DepsOf, ConstDeps, TypeDeps, Stubs, ExportedProcs
<1>8. /\ gateways = FlattenSeq(AllGateways) /\ generated = [n \in 1 .. j |-> ModuleAt(n)]
      /\ j \in 0 .. L - 1 /\ L \in Nat
  <2>1. L \in Nat
    BY <1>2, OrderIs
  <2> QED BY <1>1, <1>2, <2>1 DEF Generating
<1>9. GatewayIndex = IndexAt(j + 1)
  <2>1. [n \in DOMAIN generated |-> generated[n].stubs] = [n \in 1 .. j |-> ModuleAt(n).stubs]
    BY <1>8
  <2> QED BY <1>2, <1>8, <2>1, GatewaysCounted DEF GatewayIndex
<1>10. NsModule(GenerationOrder[j + 1]) = ModuleAt(j + 1)
  BY <1>9 DEF NsModule, ModuleAt
<1>11. generated' = [n \in 1 .. j + 1 |-> ModuleAt(n)] /\ Len(generated') = j + 1
  <2> DEFINE S == {ModuleAt(n) : n \in Nat}
             g == generated
             x == ModuleAt(j + 1)
             k == Len(g)
  <2>1. \A n \in Nat : ModuleAt(n) \in S
    OBVIOUS
  <2> HIDE DEF S
  <2>2. g = [n \in 1 .. k |-> ModuleAt(n)] /\ k \in Nat /\ x \in S /\ x = ModuleAt(k + 1)
    BY <1>8, <2>1
  <2> HIDE DEF g, x, k
  <2>3. g \in Seq(S) /\ Len(g) = k
    BY <2>1, <2>2
  <2>4. Append(g, x) = [n \in 1 .. k + 1 |-> ModuleAt(n)] /\ Len(Append(g, x)) = k + 1
    BY <2>2, <2>3
  <2> QED BY <1>1, <1>10, <2>4 DEF g, x, k
<1>12. Generating'
  <2>1. generated' = [n \in 1 .. Len(generated') |-> ModuleAt(n)']
    <3>1. generated' = [n \in 1 .. Len(generated') |-> ModuleAt(n)]
      BY <1>11
    <3>2. [n \in 1 .. Len(generated') |-> ModuleAt(n)] = [n \in 1 .. Len(generated') |-> ModuleAt(n)']
      BY <1>7
    <3> QED BY <3>1, <3>2
  <2>2. gateways' = FlattenSeq(AllGateways)'
    BY <1>1, <1>5, <1>8
  <2>3. /\ todo' \in {"generate", "done"}
        /\ todo' = "generate" => Len(generated') \in 0 .. Len(GenerationOrder') - 1
        /\ todo' = "done" => Len(generated') = Len(GenerationOrder')
    BY <1>1, <1>6, <1>8, <1>11
  <2> QED BY <2>1, <2>2, <2>3 DEF Generating
<1> QED BY <1>3, <1>4, <1>12 DEF GatesInv

LEMMA GatesStep == GatesInv /\ [GatesNext]_gateVars => GatesInv'
<1> SUFFICES ASSUME GatesInv, [GatesNext]_gateVars PROVE GatesInv'
  OBVIOUS
<1>1. ASSUME NEW d \in deps, LookAt(d) PROVE GatesInv'
  <2>1. Walk' /\ Closing'
    BY <1>1, LooksAtVisited, LooksAtNew
  <2>2. Generating'
    BY <1>1 DEF LookAt, GatesInv, Generating
  <2> QED BY <2>1, <2>2 DEF GatesInv
<1>2. CASE NextModule
  <2>1. Walk' /\ Closing'
    BY <1>2, WalksOn
  <2>2. todo' \in {"gateways", "resolve"} /\ generated' = generated /\ todo = "resolve"
    BY <1>2 DEF NextModule
  <2>3. Generating'
    BY <2>2 DEF GatesInv, Generating
  <2> QED BY <2>1, <2>3 DEF GatesInv
<1>3. CASE CollectGateways
  BY <1>3, GatewaysCollect
<1>4. CASE GenerateModule
  BY <1>4, ModuleIsGenerated
<1>5. CASE UNCHANGED gateVars
  <2>1. UNCHANGED <<program, todo, classes, order, work, deps, visited, gateways, generated>>
    BY <1>5 DEF gateVars
  <2>2. Walk'
    BY <2>1 DEF GatesInv, Walk, Known, DepsOf, ConstDeps, TypeDeps
  <2>3. Closing'
    BY <2>1 DEF GatesInv, Closing, Settled, Known, DepsOf, ConstDeps, TypeDeps
  <2>4. AllGateways' = AllGateways
    BY <2>1 DEF AllGateways, GatewaysOf, ExportedProcs
  <2>5. GenerationOrder' = GenerationOrder
    BY <2>1 DEF GenerationOrder, InOrderOf, OfClass
  <2>6. ASSUME NEW n PROVE ModuleAt(n)' = ModuleAt(n)
    BY <2>1, <2>4, <2>5 DEF ModuleAt, IndexAt, Unexposed, NsImports, DepsOf, ConstDeps, TypeDeps, Stubs, ExportedProcs
  <2>7. Generating'
    <3>1. [n \in 1 .. Len(generated) |-> ModuleAt(n)'] = [n \in 1 .. Len(generated) |-> ModuleAt(n)]
      BY <2>6
    <3> QED BY <2>1, <2>4, <2>5, <3>1 DEF GatesInv, Generating
  <2> QED BY <2>2, <2>3, <2>7 DEF GatesInv
<1> QED BY <1>1, <1>2, <1>3, <1>4, <1>5 DEF GatesNext

\* The first instruction of a procedure is below its heading and above its END
LEMMA EntryIs ==
  ASSUME NEW lines, NEW i \in Nat, Len(lines) \in Nat, Ends(lines, i) # {}, OwnCode(lines, i) # {}
  PROVE  /\ EndAt(lines, i) \in i + 1 .. Len(lines)
         /\ Entry(lines, i) \in OwnCode(lines, i) /\ \A j \in OwnCode(lines, i) : Entry(lines, i) <= j
<1>1. EndAt(lines, i) \in Ends(lines, i)
  <2>1. Ends(lines, i) \in SUBSET Nat
    BY DEF Ends
  <2>2. \E x \in Ends(lines, i) : \A y \in Ends(lines, i) : x <= y
    BY <2>1, LeastNumber
  <2> QED BY <2>2 DEF EndAt
<1>2. EndAt(lines, i) \in i + 1 .. Len(lines)
  BY <1>1 DEF Ends
<1>3. OwnCode(lines, i) \in SUBSET Nat
  BY <1>2 DEF OwnCode
<1>4. \E x \in OwnCode(lines, i) : \A y \in OwnCode(lines, i) : x <= y
  BY <1>3, LeastNumber
<1>5. Entry(lines, i) \in OwnCode(lines, i) /\ \A j \in OwnCode(lines, i) : Entry(lines, i) <= j
  BY <1>4 DEF Entry
<1> QED BY <1>2, <1>5

\* The push that the search below the heading of a plain procedure finds is
\* the procedure's first instruction
LEMMA PushIsOwn ==
  ASSUME Walk, NEW m \in Range(program.exposed), NEW k \in DOMAIN ExportedProcs(m),
         NEW i \in DOMAIN program.modules[m].lines, IsStubbed(program.modules[m].lines[i]),
         program.modules[m].lines[i].name = ExportedProcs(m)[k].name, IsPlain(program.modules[m].lines, i)
  PROVE  LET lines == program.modules[m].lines IN
         /\ ExportedProcs(m)[k].rel = lines[Entry(lines, i)].rel
         /\ 4 * ExportedProcs(m)[k].count = Pushed(lines, i)
<1> DEFINE lines == program.modules[m].lines
           p == ExportedProcs(m)[k]
           e == Entry(lines, i)
           E == EndAt(lines, i)
<1>1. /\ Len(lines) \in Nat /\ DOMAIN lines = 1 .. Len(lines) /\ ScanLines \in Int
      /\ \A h \in DOMAIN lines : IsStubbed(lines[h]) /\ lines[h].name = lines[i].name => h = i
      /\ Ends(lines, i) # {} /\ OwnCode(lines, i) # {}
      /\ lines[i].leaf \/ lines[e].kind = "push"
  <2>1. lines \in Seq(Range(lines))
    BY GivenProgram
  <2>2. Len(lines) \in Nat /\ DOMAIN lines = 1 .. Len(lines)
    <3> HIDE DEF lines
    <3> QED BY <2>1
  <2> QED BY <2>2, GivenProgram
<1>2. p = ExportedProc(lines, i)
  <2>1. PICK h \in DOMAIN lines : IsStubbed(lines[h]) /\ p = ExportedProc(lines, h)
    BY ProcsOf
  <2>2. lines[h].name = p.name
    BY <2>1 DEF ExportedProc
  <2>3. h = i
    BY <1>1, <2>1, <2>2
  <2> QED BY <2>1, <2>3
<1>3. ~lines[i].leaf /\ Headings(lines, i, E) = {} /\ e < i + ScanLines
  BY DEF IsPlain
<1> HIDE DEF lines, p
<1>4. i \in Nat /\ E \in i + 1 .. Len(lines) /\ e \in OwnCode(lines, i) /\ \A j \in OwnCode(lines, i) : e <= j
  <2>1. i \in Nat
    BY <1>1 DEF lines
  <2> QED BY <1>1, <2>1, EntryIs
<1>5. e \in i + 1 .. E - 1 /\ lines[e].kind = "push"
  BY <1>1, <1>3, <1>4 DEF OwnCode
<1> HIDE DEF e, E
<1> DEFINE upTo == IF i + ScanLines - 1 < Len(lines) THEN i + ScanLines - 1 ELSE Len(lines)
           found == {j \in i + 1 .. upTo : lines[j].kind = "push"}
<1>6. e \in found
  BY <1>1, <1>3, <1>4, <1>5
<1>7. ASSUME NEW j \in found PROVE e <= j
  <2> SUFFICES ASSUME j < e PROVE FALSE
    BY <1>1, <1>4, <1>5
  <2>1. j \in i + 1 .. E - 1 /\ IsCode(lines[j])
    BY <1>1, <1>4, <1>5 DEF IsCode
  <2>2. Headings(lines, i, j) = {}
    BY <1>3, <1>4, <2>1 DEF Headings
  <2>3. j \in OwnCode(lines, i)
    BY <2>1, <2>2 DEF OwnCode, E
  <2> QED BY <1>1, <1>4, <1>5, <2>1, <2>3
<1>8. PushBelow(lines, i) = e
  <2>1. PushBelow(lines, i) = CHOOSE j \in found : \A h \in found : j <= h
    BY <1>6 DEF PushBelow
  <2>2. \A j \in found : (\A h \in found : j <= h) => j = e
    BY <1>1, <1>4, <1>5, <1>6, <1>7
  <2> HIDE DEF found
  <2> QED BY <1>6, <1>7, <2>1, <2>2
<1>9. e # 0
  BY <1>4, <1>5
<1>10. p.rel = lines[e].rel /\ p.count = lines[e].count
  BY <1>2, <1>8, <1>9 DEF ExportedProc
<1> QED BY <1>3, <1>10 DEF Pushed, e, p, lines

LEMMA StubsDoArrive == GatesInv => StubsArrive
<1> SUFFICES ASSUME GatesInv, todo = "done", NEW n \in DOMAIN generated, NEW k \in DOMAIN generated[n].stubs
             PROVE  LET stub == generated[n].stubs[k]
                        name == generated[n].name
                        lines == program.modules[name].lines
                    IN /\ TargetAt(stub.gateway).proc = <<name, stub.name>>
                       /\ \A h \in DOMAIN lines :
                            IsStubbed(lines[h]) /\ lines[h].name = stub.name /\ IsPlain(lines, h)
                              => Arrives(stub, name, h)
  BY DEF StubsArrive
<1> DEFINE L == Len(GenerationOrder)
<1>1. Walk /\ gateways = FlattenSeq(AllGateways) /\ generated = [x \in 1 .. L |-> ModuleAt(x)]
  BY DEF GatesInv, Generating
<1>2. n \in 1 .. L /\ generated[n] = ModuleAt(n)
  BY <1>1
<1>3. /\ Unexposed \in Nat /\ Len(program.exposed) \in Nat /\ L = Unexposed + Len(program.exposed)
      /\ \A x \in 1 .. Unexposed : classes[GenerationOrder[x]] # "exposed"
      /\ \A x \in 1 .. Len(program.exposed) : GenerationOrder[Unexposed + x] = program.exposed[x]
  BY <1>1, OrderIs
<1> DEFINE i == n - Unexposed
           m == program.exposed[i]
           p == ExportedProcs(m)[k]
           at == Len(Leading(AllGateways, i - 1))
<1>4. i \in 1 .. Len(program.exposed) /\ Unexposed + i = n
  <2>1. SUFFICES ASSUME n <= Unexposed PROVE FALSE
    <3> HIDE DEF L
    <3> QED BY <1>2, <1>3, <2>1
  <2>2. generated[n].stubs = <<>>
    BY <1>2, <1>3, <2>1 DEF ModuleAt
  <2> QED BY <2>2
<1>5. PICK G : /\ AllGateways \in Seq(Seq(G)) /\ Len(AllGateways) = Len(program.exposed)
               /\ \A x \in 1 .. Len(program.exposed) :
                    LET y == program.exposed[x] IN
                    /\ y \in Range(program.exposed) /\ Len(AllGateways[x]) = Len(ExportedProcs(y))
                    /\ Len(ExportedProcs(y)) \in Nat /\ DOMAIN ExportedProcs(y) = 1 .. Len(ExportedProcs(y))
                    /\ \A z \in 1 .. Len(ExportedProcs(y)) : AllGateways[x][z] =
                         [target |-> program.modules[y].code + ExportedProcs(y)[z].rel,
                          proc |-> <<y, ExportedProcs(y)[z].name>>]
  <2> HIDE DEF L, i, m, p, at
  <2> QED BY <1>1, GatewaysAre
<1>6. /\ m \in Range(program.exposed) /\ Len(AllGateways[i]) = Len(ExportedProcs(m))
      /\ DOMAIN ExportedProcs(m) = 1 .. Len(ExportedProcs(m))
  BY <1>4, <1>5
<1>7. generated[n].name = m /\ generated[n].stubs = Stubs(m, at)
  <2>1. GenerationOrder[n] = m
    BY <1>3, <1>4
  <2>2. classes[m] = "exposed"
    BY <1>1, <1>6 DEF Walk
  <2>3. IndexAt(n) = at
    BY <1>3, <1>4 DEF IndexAt
  <2> HIDE DEF m, at
  <2> QED BY <1>2, <2>1, <2>2, <2>3 DEF ModuleAt
<1>8. k \in 1 .. Len(ExportedProcs(m)) /\ generated[n].stubs[k] = StubAt(at + k - 1, p)
  <2>1. k \in DOMAIN ExportedProcs(m)
    BY <1>7 DEF Stubs
  <2> QED BY <1>6, <1>7, <2>1 DEF Stubs
<1>9. AllGateways[i][k] = [target |-> program.modules[m].code + p.rel, proc |-> <<m, p.name>>]
  BY <1>4, <1>5, <1>8
<1>10. at \in Nat /\ gateways[at + k] = AllGateways[i][k]
  <2>1. i \in 1 .. Len(AllGateways) /\ k \in 1 .. Len(AllGateways[i]) /\ AllGateways \in Seq(Seq(G))
    BY <1>4, <1>5, <1>6, <1>8
  <2> HIDE DEF i, m
  <2> QED BY <1>1, <2>1, Placed
<1>11. TargetAt(NscAddr + 16 * (at + k - 1)) = gateways[at + k]
  <2>1. k \in Nat /\ NscAddr \in Int
    BY <1>1, <1>6, <1>8, GivenProgram
  <2> HIDE DEF at
  <2>2. at + k - 1 \in Int
    BY <1>10, <2>1
  <2>3. ((NscAddr + 16 * (at + k - 1)) - NscAddr) \div 16 + 1 = at + k
    <3>1. \A x \in Int : ((NscAddr + 16 * x) - NscAddr) \div 16 = x
      BY <2>1
    <3> QED BY <1>10, <2>1, <2>2, <3>1
  <2> QED BY <2>3 DEF TargetAt
<1>12. ASSUME NEW h \in DOMAIN program.modules[m].lines, IsStubbed(program.modules[m].lines[h]),
              program.modules[m].lines[h].name = p.name, IsPlain(program.modules[m].lines, h)
       PROVE  /\ p.rel = program.modules[m].lines[Entry(program.modules[m].lines, h)].rel
              /\ 4 * p.count = Pushed(program.modules[m].lines, h)
  <2>1. k \in DOMAIN ExportedProcs(m)
    BY <1>6, <1>8
  <2> HIDE DEF m
  <2> QED BY <1>1, <1>6, <1>12, <2>1, PushIsOwn
<1> HIDE DEF m, p, at, i, L
<1>13. /\ generated[n].stubs[k].name = p.name /\ generated[n].stubs[k].drop = 4 * p.count
       /\ generated[n].stubs[k].gateway = NscAddr + 16 * (at + k - 1)
  BY <1>8 DEF StubAt
<1>14. TargetAt(generated[n].stubs[k].gateway) =
         [target |-> program.modules[m].code + p.rel, proc |-> <<m, p.name>>]
  BY <1>9, <1>10, <1>11, <1>13
<1> QED BY <1>7, <1>12, <1>13, <1>14 DEF Arrives

LEMMA SectionsAreClosed == GatesInv => SectionsClosed
<1> SUFFICES ASSUME GatesInv, todo = "done" PROVE SectionsClosed
  BY DEF SectionsClosed
<1> DEFINE L == Len(GenerationOrder)
<1>1. Walk /\ Closing /\ generated = [x \in 1 .. L |-> ModuleAt(x)]
  BY DEF GatesInv, Generating
<1>2. GenerationOrder \in Seq(DOMAIN classes) /\ Range(GenerationOrder) = DOMAIN classes
  BY <1>1, OrderIs
<1>3. L \in Nat /\ DOMAIN GenerationOrder = 1 .. L /\ DOMAIN generated = 1 .. L
      /\ \A n \in 1 .. L : GenerationOrder[n] \in DOMAIN classes
  BY <1>1, <1>2
<1>4. \A n \in 1 .. L : /\ generated[n].name = GenerationOrder[n]
                        /\ generated[n].imports = NsImports(GenerationOrder[n])
                        /\ generated[n].consts \subseteq DepsOf(GenerationOrder[n])
                        /\ generated[n].types \subseteq TypeDeps(GenerationOrder[n])
                        /\ generated[n].hasTypes <=> classes[GenerationOrder[n]] \in {"exposed", "type_only"}
  <2> HIDE DEF L
  <2> QED BY <1>1 DEF ModuleAt, DepsOf, ConstDeps
<1>5. \A d \in DOMAIN classes : \E n \in 1 .. L : GenerationOrder[n] = d
  BY <1>2, <1>3 DEF Range
<1>6. \A m \in DOMAIN classes : \A d \in DepsOf(m) : Known(d) => Settled(m, d)
  BY <1>1 DEF Closing, Walk
<1> HIDE DEF L
<1>7. ASSUME NEW n \in 1 .. L, NEW d \in generated[n].consts \cup generated[n].types, Known(d)
      PROVE  d \in generated[n].imports
  BY <1>3, <1>4, <1>6, <1>7 DEF Settled, NsImports, DepsOf
<1>8. ASSUME NEW n \in 1 .. L, NEW d \in generated[n].imports PROVE IsGenerated(d)
  BY <1>3, <1>4, <1>5 DEF IsGenerated, NsImports
<1>9. ASSUME NEW n \in 1 .. L, NEW d \in generated[n].types, Known(d)
      PROVE  \E k \in DOMAIN generated : generated[k].name = d /\ generated[k].hasTypes
  <2>1. d \in DOMAIN classes /\ classes[d] # "const_only"
    BY <1>3, <1>4, <1>6, <1>9 DEF Settled, DepsOf
  <2>2. classes[d] \in {"exposed", "type_only"}
    BY <1>1, <2>1 DEF Walk
  <2> QED BY <1>3, <1>4, <1>5, <2>1, <2>2
<1> QED BY <1>3, <1>7, <1>8, <1>9 DEF SectionsClosed

\* What gen-secure generates fits together and fits the Secure program: a
\* stub has the gateway of its procedure and, if this is a plain one, arrives
\* at its first instruction with the stack as it was; and what the sections
\* of a module refer to is generated.  It is so for every program, and
\* whatever order the dependencies are met in.
THEOREM GatesAreSound == GatesSpec => []GatesSound
<1>1. GatesInit => GatesInv
  BY GatesBegin
<1>2. GatesInv /\ [GatesNext]_gateVars => GatesInv'
  BY GatesStep
<1>3. GatesInv => GatesSound
  BY StubsDoArrive, SectionsAreClosed DEF GatesSound
<1> QED BY <1>1, <1>2, <1>3, PTL DEF GatesSpec

-----------------------------------------------------------------------------
(* gen-rdb: a call, bit by bit.                                           *)

LEMMA Powers ==
  /\ 2^10 = 1024 /\ 2^11 = 2048 /\ 2^12 = 4096 /\ 2^13 = 8192 /\ 2^14 = 16384
  /\ 2^21 = 2097152 /\ 2^22 = 4194304 /\ 2^23 = 8388608 /\ 2^24 = 16777216 /\ 2^25 = 33554432
<1>0. 2^0 = 1
  BY TwoToZero
<1> DEFINE p == [w \in Nat |-> 2^w]
<1>1. \A w \in Nat : p[w + 1] = 2 * p[w]
  BY TwoToThe, SMT
<1>2. p[0] = 1
  BY <1>0, SMT
<1>3. \A w \in Nat : p[w] = 2^w
  BY SMT
<1> HIDE DEF p
<1>4. p[1] = 2 /\ p[2] = 4 /\ p[3] = 8 /\ p[4] = 16 /\ p[5] = 32
  <2>1. p[0 + 1] = 2 * p[0] /\ p[1 + 1] = 2 * p[1] /\ p[2 + 1] = 2 * p[2] /\ p[3 + 1] = 2 * p[3] /\ p[4 + 1] = 2 * p[4]
    BY <1>1, SMT
  <2> QED BY <1>2, <2>1, SMT
<1>5. p[6] = 64 /\ p[7] = 128 /\ p[8] = 256 /\ p[9] = 512 /\ p[10] = 1024
  <2>1. p[5 + 1] = 2 * p[5] /\ p[6 + 1] = 2 * p[6] /\ p[7 + 1] = 2 * p[7] /\ p[8 + 1] = 2 * p[8] /\ p[9 + 1] = 2 * p[9]
    BY <1>1, SMT
  <2> QED BY <1>4, <2>1, SMT
<1>6. p[11] = 2048 /\ p[12] = 4096 /\ p[13] = 8192 /\ p[14] = 16384 /\ p[15] = 32768
  <2>1. p[10 + 1] = 2 * p[10] /\ p[11 + 1] = 2 * p[11] /\ p[12 + 1] = 2 * p[12] /\ p[13 + 1] = 2 * p[13] /\ p[14 + 1] = 2 * p[14]
    BY <1>1, SMT
  <2> QED BY <1>5, <2>1, SMT
<1>7. p[16] = 65536 /\ p[17] = 131072 /\ p[18] = 262144 /\ p[19] = 524288 /\ p[20] = 1048576
  <2>1. p[15 + 1] = 2 * p[15] /\ p[16 + 1] = 2 * p[16] /\ p[17 + 1] = 2 * p[17] /\ p[18 + 1] = 2 * p[18] /\ p[19 + 1] = 2 * p[19]
    BY <1>1, SMT
  <2> QED BY <1>6, <2>1, SMT
<1>8. p[21] = 2097152 /\ p[22] = 4194304 /\ p[23] = 8388608 /\ p[24] = 16777216 /\ p[25] = 33554432
  <2>1. p[20 + 1] = 2 * p[20] /\ p[21 + 1] = 2 * p[21] /\ p[22 + 1] = 2 * p[22] /\ p[23 + 1] = 2 * p[23] /\ p[24 + 1] = 2 * p[24]
    BY <1>1, SMT
  <2> QED BY <1>7, <2>1, SMT
<1> QED BY <1>3, <1>5, <1>6, <1>8, SMT

\* A bit is 0 or 1, and turned twice it is what it was
LEMMA TurnedTwice ==
  ASSUME NEW a \in 0 .. 1, NEW b \in 0 .. 1
  PROVE  Turned(a, b) \in 0 .. 1 /\ Turned(Turned(a, b), b) = a
  BY SMT DEF Turned

\* A distance that is even, as its bits and what is between them
IsBit(b) == b = 0 \/ b = 1
Below(n, m) == n \in Int /\ 0 <= n /\ n < m

LEMMA DistanceInBits ==
  ASSUME NEW n, Below(n, 33554432), n % 2 = 0
  PROVE  \E s, a, b, h, l \in Int :
           /\ IsBit(s) /\ IsBit(a) /\ IsBit(b) /\ Below(h, 1024) /\ Below(l, 2048)
           /\ n = 16777216 * s + 8388608 * a + 4194304 * b + 4096 * h + 2 * l
           /\ (n \div 16777216) % 2 = s /\ (n \div 8388608) % 2 = a /\ (n \div 4194304) % 2 = b
           /\ (n \div 4096) % 1024 = h /\ (n \div 2) % 2048 = l
<1>0. n \in Int /\ 0 <= n /\ n < 33554432
  BY SMT DEF Below
<1>1. PICK s, m \in Int : n = 16777216 * s + m /\ IsBit(s) /\ Below(m, 16777216)
  <2>1. n = 16777216 * (n \div 16777216) + (n % 16777216)
    BY <1>0, SMT
  <2>2. IsBit(n \div 16777216) /\ Below(n % 16777216, 16777216)
    BY <1>0, SMT DEF IsBit, Below
  <2>3. n \div 16777216 \in Int /\ n % 16777216 \in Int
    BY <1>0, SMT
  <2> QED BY <2>1, <2>2, <2>3, SMT
<1>2. PICK a, m2 \in Int : m = 8388608 * a + m2 /\ IsBit(a) /\ Below(m2, 8388608)
  <2>0. m \in Int /\ 0 <= m /\ m < 16777216
    BY <1>1, SMT DEF Below
  <2>1. m = 8388608 * (m \div 8388608) + (m % 8388608)
    BY <2>0, SMT
  <2>2. IsBit(m \div 8388608) /\ Below(m % 8388608, 8388608)
    BY <2>0, SMT DEF IsBit, Below
  <2>3. m \div 8388608 \in Int /\ m % 8388608 \in Int
    BY <2>0, SMT
  <2> QED BY <2>1, <2>2, <2>3, SMT
<1>3. PICK b, m3 \in Int : m2 = 4194304 * b + m3 /\ IsBit(b) /\ Below(m3, 4194304)
  <2>0. m2 \in Int /\ 0 <= m2 /\ m2 < 8388608
    BY <1>2, SMT DEF Below
  <2>1. m2 = 4194304 * (m2 \div 4194304) + (m2 % 4194304)
    BY <2>0, SMT
  <2>2. IsBit(m2 \div 4194304) /\ Below(m2 % 4194304, 4194304)
    BY <2>0, SMT DEF IsBit, Below
  <2>3. m2 \div 4194304 \in Int /\ m2 % 4194304 \in Int
    BY <2>0, SMT
  <2> QED BY <2>1, <2>2, <2>3, SMT
<1>4. PICK h, m4 \in Int : m3 = 4096 * h + m4 /\ Below(h, 1024) /\ Below(m4, 4096)
  <2>0. m3 \in Int /\ 0 <= m3 /\ m3 < 4194304
    BY <1>3, SMT DEF Below
  <2>1. m3 = 4096 * (m3 \div 4096) + (m3 % 4096)
    BY <2>0, SMT
  <2>2. Below(m3 \div 4096, 1024) /\ Below(m3 % 4096, 4096)
    BY <2>0, SMT DEF Below
  <2>3. m3 \div 4096 \in Int /\ m3 % 4096 \in Int
    BY <2>0, SMT
  <2> QED BY <2>1, <2>2, <2>3, SMT
<1>5. n = 16777216 * s + 8388608 * a + 4194304 * b + 4096 * h + m4
  BY <1>1, <1>2, <1>3, <1>4, SMT
<1>6. PICK l \in Int : m4 = 2 * l /\ Below(l, 2048)
  <2>1. m4 % 2 = 0
    BY <1>0, <1>5, SMT
  <2>2. m4 = 2 * (m4 \div 2) /\ m4 \div 2 \in Int /\ Below(m4 \div 2, 2048)
    BY <1>4, <2>1, SMT DEF Below
  <2> QED BY <2>2, SMT
<1>7. n \div 16777216 = s
  BY <1>0, <1>1, SMT DEF Below
<1>8. n \div 8388608 = 2 * s + a
  BY <1>0, <1>1, <1>2, SMT DEF Below
<1>9. n \div 4194304 = 4 * s + 2 * a + b
  BY <1>0, <1>1, <1>2, <1>3, SMT DEF Below
<1>10. n \div 4096 = 1024 * (4 * s + 2 * a + b) + h
  BY <1>0, <1>1, <1>2, <1>3, <1>4, SMT DEF Below
<1>11. n \div 2 = 2048 * (4096 * s + 2048 * a + 1024 * b + h) + l
  BY <1>0, <1>5, <1>6, SMT DEF Below
<1>12. s % 2 = s /\ (2 * s + a) % 2 = a /\ (4 * s + 2 * a + b) % 2 = b
  BY <1>1, <1>2, <1>3, SMT DEF IsBit
<1>13. (1024 * (4 * s + 2 * a + b) + h) % 1024 = h
  BY <1>4, SMT DEF Below
<1>14. (2048 * (4096 * s + 2048 * a + 1024 * b + h) + l) % 2048 = l
  BY <1>6, SMT DEF Below
<1>15. n = 16777216 * s + 8388608 * a + 4194304 * b + 4096 * h + 2 * l
  BY <1>5, <1>6, SMT
<1> QED BY <1>1, <1>2, <1>3, <1>4, <1>6, <1>7, <1>8, <1>9, <1>10, <1>11, <1>12, <1>13, <1>14, <1>15, SMT

\* What is read from a call is its target
LEMMA CallReaches ==
  ASSUME NEW pc \in Int, NEW target \in Int, (target - (pc + 4)) % 2 = 0,
         target - (pc + 4) >= -16777216, target - (pc + 4) < 16777216
  PROVE  IsBl(EncodeBl(pc, target)) /\ pc + 4 + 2 * DecodeBl(EncodeBl(pc, target)) = target
<1> DEFINE d == target - (pc + 4)
           n == d % 33554432
<1>1. /\ Below(n, 33554432) /\ n % 2 = 0
      /\ n = (IF d < 0 THEN d + 33554432 ELSE d)
  <2>1. d \in Int /\ d >= -16777216 /\ d < 16777216 /\ d % 2 = 0
    BY SMT
  <2> HIDE DEF d
  <2>2. n = (IF d < 0 THEN d + 33554432 ELSE d)
    BY <2>1, SMT
  <2>3. n % 2 = 0
    BY <2>1, <2>2, SMT
  <2> QED BY <2>1, <2>2, <2>3, SMT DEF Below
<1>2. PICK s, a, b, h, l \in Int :
           /\ IsBit(s) /\ IsBit(a) /\ IsBit(b) /\ Below(h, 1024) /\ Below(l, 2048)
           /\ n = 16777216 * s + 8388608 * a + 4194304 * b + 4096 * h + 2 * l
           /\ (n \div 16777216) % 2 = s /\ (n \div 8388608) % 2 = a /\ (n \div 4194304) % 2 = b
           /\ (n \div 4096) % 1024 = h /\ (n \div 2) % 2048 = l
  <2> HIDE DEF n
  <2> QED BY <1>1, DistanceInBits, SMT
<1> DEFINE ja == Turned(a, s)
           jb == Turned(b, s)
           first == 61440 + (s * 1024) + h
           second == 53248 + (ja * 8192) + (jb * 2048) + l
<1>3. IsBit(ja) /\ IsBit(jb) /\ Turned(ja, s) = a /\ Turned(jb, s) = b
  BY <1>2, TurnedTwice, SMT DEF IsBit
<1>4. EncodeBl(pc, target) = <<first, second>>
  <2>1. n = (target - (pc + 4)) % 2^25
    BY Powers, SMT
  <2> HIDE DEF n
  <2> QED BY <1>2, <2>1, Powers, SMT DEF EncodeBl, Bit
<1> HIDE DEF n, ja, jb
<1>5. first \div 2048 = 30 /\ (first \div 1024) % 2 = s /\ first % 1024 = h
  <2>1. first \div 2048 = 30
    BY <1>2, SMT DEF IsBit, Below
  <2>2. first \div 1024 = 60 + s
    BY <1>2, SMT DEF IsBit, Below
  <2>3. first % 1024 = h
    BY <1>2, SMT DEF IsBit, Below
  <2> HIDE DEF first
  <2> QED BY <1>2, <2>1, <2>2, <2>3, SMT DEF IsBit
<1>6. /\ second \div 16384 = 3 /\ (second \div 4096) % 2 = 1 /\ (second \div 8192) % 2 = ja
      /\ (second \div 2048) % 2 = jb /\ second % 2048 = l
  <2>1. second \div 16384 = 3
    BY <1>2, <1>3, SMT DEF IsBit, Below
  <2>2. second \div 8192 = 6 + ja
    BY <1>2, <1>3, SMT DEF IsBit, Below
  <2>3. second \div 2048 = 26 + 4 * ja + jb
    BY <1>2, <1>3, SMT DEF IsBit, Below
  <2>4. second % 2048 = l
    BY <1>2, <1>3, SMT DEF IsBit, Below
  <2>5. second \div 4096 = 13 + 2 * ja
    BY <1>2, <1>3, SMT DEF IsBit, Below
  <2> HIDE DEF second
  <2>6. (6 + ja) % 2 = ja /\ (26 + 4 * ja + jb) % 2 = jb /\ (13 + 2 * ja) % 2 = 1
    BY <1>2, <1>3, SMT DEF IsBit, Below
  <2> QED BY <2>1, <2>2, <2>3, <2>4, <2>5, <2>6, SMT
<1> DEFINE code == EncodeBl(pc, target)
<1>7. code[1] = first /\ code[2] = second
  BY <1>4, SMT
<1> HIDE DEF first, second, code
<1>8. IsBl(code)
  BY <1>5, <1>6, <1>7, Powers, SMT DEF IsBl, Bit
<1>9. Distance(code) = s * 8388608 + a * 4194304 + b * 2097152 + h * 2048 + l
  BY <1>3, <1>5, <1>6, <1>7, Powers, SMT DEF Distance, Bit
<1>10. 2 * Distance(code) = n
  BY <1>2, <1>9, SMT
<1>11. DecodeBl(code) = IF Distance(code) >= 8388608 THEN Distance(code) - 16777216 ELSE Distance(code)
  BY Powers, SMT DEF DecodeBl
<1>12. Distance(code) \in Int
  BY <1>9, SMT
<1>13. 2 * DecodeBl(code) = d
  <2> DEFINE q == Distance(code)
  <2> HIDE DEF q, d
  <2>1. q \in Int /\ 2 * q = n /\ DecodeBl(code) = IF q >= 8388608 THEN q - 16777216 ELSE q
    BY <1>10, <1>11, <1>12, SMT DEF q
  <2>2. d \in Int /\ d >= -16777216 /\ d < 16777216 /\ n = IF d < 0 THEN d + 33554432 ELSE d
    BY <1>1, SMT DEF d
  <2> QED BY <2>1, <2>2, SMT
<1> QED BY <1>8, <1>13, SMT DEF code

-----------------------------------------------------------------------------
(* gen-rdb: the program and its listings.                                 *)

Callee == (1 .. Len(ModuleNames)) \X (1 .. Len(ProcNames))
ProcType == [name : Range(ProcNames), calls : Seq(Callee), inner : BOOLEAN]
ModType == [name : Range(ModuleNames), base : Int, top : Int, size : Int, procs : Seq(ProcType)]

MaxGap == CHOOSE g \in Gaps : \A h \in Gaps : h <= g
MaxSize == CHOOSE z \in DataSizes : \A d \in DataSizes : d <= z
Most == Len(ProcNames) * (8 + 4 * MaxCalls)
Reach == 2^24

\* The procedures of a module: called by those behind them, each inner one
\* in the one that follows
Lawful(ms, x) ==
  /\ Len(ms[x].procs) <= Len(ProcNames)
  /\ \A k \in 1 .. Len(ms[x].procs) :
       /\ ms[x].procs[k].name = ProcNames[k]
       /\ Len(ms[x].procs[k].calls) <= MaxCalls
       /\ ms[x].procs[k].inner /\ k > 1 => ~ms[x].procs[k - 1].inner
       /\ \A i \in 1 .. Len(ms[x].procs[k].calls) : LET c == ms[x].procs[k].calls[i] IN
            /\ c[1] \in 1 .. x
            /\ c[2] \in 1 .. Len(ms[c[1]].procs)

Complete(m) == m.procs # <<>> /\ ~m.procs[Len(m.procs)].inner

\* The codes upwards, the data downwards, one behind the other
Layout(m, x) ==
  /\ m.base >= 0 /\ m.base % 2 = 0 /\ m.base <= (x - 1) * (MaxGap + Most)
  /\ m.size >= 4 /\ m.size <= MaxSize /\ m.top >= DataTop - (x - 1) * MaxSize

Behind(m, n) == m.base + Length(m.procs) <= n.base /\ n.top <= m.top - m.size

Linked(ms) ==
  /\ ms \in Seq(ModType) /\ Len(ms) <= Len(ModuleNames)
  /\ \A x \in 1 .. Len(ms) :
       /\ ms[x].name = ModuleNames[x]
       /\ Lawful(ms, x) /\ Layout(ms[x], x)
       /\ x < Len(ms) => Complete(ms[x])
       /\ \A y \in 1 .. x - 1 : Behind(ms[y], ms[x])

Built ==
  /\ status \in {"program", "calls", "startup", "done"} /\ Linked(modules)
  /\ status # "program" => modules # <<>> /\ Complete(modules[Len(modules)])

AbsoluteListings == [x \in DOMAIN modules |-> [i \in DOMAIN Listing(x) |-> Absolute(x, Listing(x)[i])]]

RdbInv ==
  /\ Built /\ (status = "calls" => listings = AbsoluteListings)
  /\ status \in {"startup", "done"} => CallsNamed /\ GlobalsOwned
  /\ StartupRuns

-----------------------------------------------------------------------------
LEMMA Products ==
  ASSUME NEW a \in Int, NEW b \in Int
  PROVE  /\ a * b \in Int /\ (a + 1) * b = a * b + b /\ (a - 1) * b = a * b - b
         /\ \A c \in Int : a <= c /\ b >= 0 => a * b <= c * b
<1>1. a * b \in Int /\ (a + 1) * b = a * b + b /\ (a - 1) * b = a * b - b
  OBVIOUS
<1>2. ASSUME NEW c \in Int, a <= c, b >= 0 PROVE a * b <= c * b
  <2>1. (c - a) * b >= 0
    BY <1>2
  <2>2. (c - a) * b = c * b - a * b
    OBVIOUS
  <2>3. c * b \in Int
    OBVIOUS
  <2> QED BY <1>1, <2>1, <2>2, <2>3
<1> QED BY <1>1, <1>2

LEMMA Limits ==
  /\ MaxGap \in Nat /\ MaxSize \in Nat /\ MaxCalls \in Nat /\ DataTop \in Int
  /\ Len(ModuleNames) \in Nat /\ Len(ProcNames) \in Nat /\ Most \in Nat /\ Reach \in Nat
  /\ \A g \in Gaps : g \in Int /\ 0 <= g /\ g <= MaxGap /\ g % 2 = 0
  /\ \A d \in DataSizes : d \in Int /\ 4 <= d /\ d <= MaxSize
  /\ CodeLimit(MaxGap) <= Reach /\ CodeLimit(MaxGap) + Len(ModuleNames) * MaxSize < DataTop
<1>1. PICK gap \in Gaps, size \in DataSizes :
       /\ \A g \in Gaps : g \in 0 .. gap /\ g % 2 = 0
       /\ \A d \in DataSizes : d \in 4 .. size
       /\ CodeLimit(gap) <= 2^24 /\ CodeLimit(gap) + Len(ModuleNames) * size < DataTop
  BY RdbAssumption, Zenon
<1>2. MaxCalls \in Nat /\ DataTop \in Int /\ ModuleNames \in Seq(Range(ModuleNames)) /\ ProcNames \in Seq(Range(ProcNames))
  BY RdbAssumption, Zenon DEF Different
<1>3. gap \in Nat /\ \A g \in Gaps : g \in Int /\ 0 <= g /\ g <= gap
  BY <1>1, SMT
<1>4. size \in Nat /\ \A d \in DataSizes : d \in Int /\ 4 <= d /\ d <= size
  BY <1>1, SMT
<1>5. MaxGap = gap
  <2>0. \E g \in Gaps : \A h \in Gaps : h <= g
    BY <1>1, <1>3, SMT
  <2>1. MaxGap \in Gaps /\ \A h \in Gaps : h <= MaxGap
    BY <2>0, Zenon DEF MaxGap
  <2> QED BY <1>1, <1>3, <2>1, SMT
<1>6. MaxSize = size
  <2>0. \E g \in DataSizes : \A h \in DataSizes : h <= g
    BY <1>1, <1>4, SMT
  <2>1. MaxSize \in DataSizes /\ \A h \in DataSizes : h <= MaxSize
    BY <2>0, Zenon DEF MaxSize
  <2> QED BY <1>1, <1>4, <2>1, SMT
<1>7. Len(ModuleNames) \in Nat /\ Len(ProcNames) \in Nat
  BY <1>2, SMT
<1>8. Most \in Nat
  <2>1. 8 + 4 * MaxCalls \in Nat
    BY <1>2, SMT
  <2> QED BY <1>7, <2>1, SMT DEF Most
<1>9. Reach \in Nat
  BY Powers, SMT DEF Reach
<1> QED BY <1>1, <1>2, <1>3, <1>4, <1>5, <1>6, <1>7, <1>8, <1>9 DEF Reach

-----------------------------------------------------------------------------
\* The length of the code of the first procedures
Until(ps, n) == Length(SubSeq(ps, 1, n))
CallsOf(ps) == [k \in DOMAIN ps |-> ps[k].calls]

LEMMA Lengths ==
  ASSUME NEW ps \in Seq(ProcType)
  PROVE  /\ Until(ps, 0) = 0 /\ Until(ps, Len(ps)) = Length(ps)
         /\ \A n \in 0 .. Len(ps) : Until(ps, n) \in Nat /\ Until(ps, n) % 2 = 0
         /\ \A n \in 1 .. Len(ps) :
              /\ ps[n] \in ProcType /\ Len(ps[n].calls) \in Nat /\ Size(ps[n]) = 8 + 4 * Len(ps[n].calls)
              /\ Until(ps, n) = Until(ps, n - 1) + Size(ps[n])
<1> DEFINE ss == CallsOf(ps)
<1>1. /\ ss \in Seq(Seq(Callee)) /\ Len(ss) = Len(ps) /\ Len(ps) \in Nat
      /\ \A n \in 1 .. Len(ps) : ps[n] \in ProcType /\ ss[n] = ps[n].calls /\ Len(ps[n].calls) \in Nat
  <2>1. Len(ps) \in Nat /\ DOMAIN ps = 1 .. Len(ps) /\ \A n \in 1 .. Len(ps) : ps[n] \in ProcType
    OBVIOUS
  <2>2. \A p \in ProcType : p.calls \in Seq(Callee) /\ Len(p.calls) \in Nat
    BY DEF ProcType
  <2> HIDE DEF ProcType, Callee
  <2> QED BY <2>1, <2>2 DEF CallsOf
<1>2. ASSUME NEW n \in 0 .. Len(ps) PROVE Until(ps, n) = 8 * n + 4 * Len(Leading(ss, n))
  <2> DEFINE qs == SubSeq(ps, 1, n)
  <2>1. qs = [i \in 1 .. n |-> ps[i]] /\ DOMAIN qs = 1 .. n /\ Len(qs) = n
    OBVIOUS
  <2>2. SubSeq(ss, 1, n) = [i \in 1 .. n |-> ss[i]]
    <3> HIDE DEF ss
    <3> QED BY <1>1
  <2>3. \A i \in 1 .. n : ss[i] = ps[i].calls
    BY <1>1
  <2>4. [k \in DOMAIN qs |-> qs[k].calls] = SubSeq(ss, 1, n)
    <3> HIDE DEF ss
    <3> QED BY <2>1, <2>2, <2>3
  <2> HIDE DEF qs, ss
  <2>5. Length(qs) = 8 * n + 4 * Len(FlattenSeq(SubSeq(ss, 1, n)))
    BY <2>1, <2>4 DEF Length
  <2> QED BY <2>5 DEF Until, qs, Leading
<1> HIDE DEF ss
<1>3. /\ Len(Leading(ss, 0)) = 0
      /\ \A n \in 0 .. Len(ps) : Len(Leading(ss, n)) \in Nat
      /\ \A n \in 1 .. Len(ps) : Len(Leading(ss, n)) = Len(Leading(ss, n - 1)) + Len(ss[n])
  <2>1. Leading(ss, 0) = <<>> /\ Len(<<>>) = 0
    BY <1>1, FrontStep
  <2> QED BY <1>1, <2>1, FrontStep
<1>4. \A n \in 0 .. Len(ps) : Until(ps, n) \in Nat /\ Until(ps, n) % 2 = 0
  <2>1. ASSUME NEW n \in 0 .. Len(ps) PROVE Until(ps, n) \in Nat /\ Until(ps, n) % 2 = 0
    <3> DEFINE l == Len(Leading(ss, n))
    <3>1. l \in Nat /\ n \in Nat /\ Until(ps, n) = 8 * n + 4 * l
      BY <1>1, <1>2, <1>3
    <3> HIDE DEF l
    <3> QED BY <3>1
  <2> QED BY <2>1
<1>5. ASSUME NEW n \in 1 .. Len(ps)
      PROVE  /\ Size(ps[n]) = 8 + 4 * Len(ps[n].calls)
             /\ Until(ps, n) = Until(ps, n - 1) + Size(ps[n])
  <2>1. Size(ps[n]) = 8 + 4 * Len(ps[n].calls)
    BY DEF Size
  <2>2. n \in 0 .. Len(ps) /\ n - 1 \in 0 .. Len(ps) /\ n \in Nat
    BY <1>1
  <2>3. Until(ps, n) = 8 * n + 4 * Len(Leading(ss, n)) /\ Until(ps, n - 1) = 8 * (n - 1) + 4 * Len(Leading(ss, n - 1))
    BY <1>2, <2>2
  <2>4. Len(Leading(ss, n)) = Len(Leading(ss, n - 1)) + Len(ps[n].calls)
    BY <1>1, <1>3
  <2>5. Len(Leading(ss, n - 1)) \in Nat /\ Len(ps[n].calls) \in Nat
    BY <1>1, <1>3, <2>2
  <2> DEFINE u == Len(Leading(ss, n - 1))
             c == Len(ps[n].calls)
  <2>6. /\ u \in Nat /\ c \in Nat /\ n \in Nat /\ Size(ps[n]) = 8 + 4 * c
        /\ Until(ps, n) = 8 * n + 4 * (u + c) /\ Until(ps, n - 1) = 8 * (n - 1) + 4 * u
    BY <2>1, <2>2, <2>3, <2>4, <2>5
  <2> HIDE DEF u, c
  <2>7. 8 * n + 4 * (u + c) = (8 * (n - 1) + 4 * u) + (8 + 4 * c)
    BY <2>6
  <2>8. Until(ps, n) = Until(ps, n - 1) + Size(ps[n])
    BY <2>6, <2>7
  <2> QED BY <2>1, <2>8
<1>6. Until(ps, Len(ps)) = Length(ps)
  <2>1. SubSeq(ps, 1, Len(ps)) = ps
    OBVIOUS
  <2> QED BY <2>1 DEF Until
<1>7. Until(ps, 0) = 0
  BY <1>1, <1>2, <1>3
<1> QED BY <1>1, <1>4, <1>5, <1>6, <1>7

LEMMA UntilGrows ==
  ASSUME NEW ps \in Seq(ProcType), NEW i \in 0 .. Len(ps), NEW j \in 0 .. Len(ps), i <= j
  PROVE  Until(ps, i) <= Until(ps, j)
<1> DEFINE Bad == {n \in 0 .. Len(ps) : n >= i /\ Until(ps, n) < Until(ps, i)}
<1>0. Len(ps) \in Nat
  OBVIOUS
<1>1. /\ \A n \in 0 .. Len(ps) : Until(ps, n) \in Nat
      /\ \A n \in 1 .. Len(ps) : Until(ps, n) >= Until(ps, n - 1)
  <2>1. \A n \in 0 .. Len(ps) : Until(ps, n) \in Nat
    BY Lengths
  <2>2. ASSUME NEW n \in 1 .. Len(ps) PROVE Until(ps, n) >= Until(ps, n - 1)
    <3>1. /\ Until(ps, n) = Until(ps, n - 1) + Size(ps[n])
          /\ Len(ps[n].calls) \in Nat /\ Size(ps[n]) = 8 + 4 * Len(ps[n].calls)
      BY Lengths
    <3>2. n - 1 \in 0 .. Len(ps)
      OBVIOUS
    <3> QED BY <2>1, <3>1, <3>2
  <2> QED BY <2>1, <2>2
<1>2. ASSUME NEW n \in 1 .. Len(ps), n - 1 \notin Bad PROVE n \notin Bad
  <2>1. CASE n <= i
    BY <1>1, <2>1
  <2>2. CASE n > i
    <3>1. n - 1 \in 0 .. Len(ps) /\ n - 1 >= i /\ n \in 0 .. Len(ps)
      BY <2>2
    <3>2. Until(ps, n - 1) >= Until(ps, i)
      BY <1>1, <1>2, <3>1
    <3> QED BY <1>1, <3>1, <3>2
  <2> QED BY <2>1, <2>2
<1>3. 0 \notin Bad /\ Bad \in SUBSET (0 .. Len(ps))
  BY <1>1
<1>4. Bad = {}
  <2> HIDE DEF Bad
  <2> QED BY <1>0, <1>2, <1>3, NoFirstFailure
<1> QED BY <1>1, <1>4

LEMMA LengthBound ==
  ASSUME NEW ps \in Seq(ProcType), \A k \in 1 .. Len(ps) : Len(ps[k].calls) <= MaxCalls
  PROVE  Length(ps) <= Len(ps) * (8 + 4 * MaxCalls)
<1> DEFINE each == 8 + 4 * MaxCalls
           Bad == {n \in 0 .. Len(ps) : Until(ps, n) > n * each}
<1>0. Len(ps) \in Nat /\ MaxCalls \in Nat /\ each \in Nat
  BY Limits
<1>1. /\ Until(ps, 0) = 0
      /\ \A n \in 0 .. Len(ps) : Until(ps, n) \in Nat
      /\ \A n \in 1 .. Len(ps) : Until(ps, n) <= Until(ps, n - 1) + each
  <2>1. Until(ps, 0) = 0 /\ \A n \in 0 .. Len(ps) : Until(ps, n) \in Nat
    BY Lengths
  <2>2. ASSUME NEW n \in 1 .. Len(ps) PROVE Until(ps, n) <= Until(ps, n - 1) + each
    <3>1. /\ Until(ps, n) = Until(ps, n - 1) + Size(ps[n])
          /\ Len(ps[n].calls) \in Nat /\ Size(ps[n]) = 8 + 4 * Len(ps[n].calls)
      BY Lengths
    <3>2. n - 1 \in 0 .. Len(ps) /\ Len(ps[n].calls) <= MaxCalls
      OBVIOUS
    <3> QED BY <1>0, <2>1, <3>1, <3>2
  <2> QED BY <2>1, <2>2
<1> HIDE DEF each
<1>2. ASSUME NEW n \in 1 .. Len(ps), n - 1 \notin Bad PROVE n \notin Bad
  <2>1. n - 1 \in 0 .. Len(ps) /\ n \in 0 .. Len(ps) /\ n - 1 \in Int
    OBVIOUS
  <2>2. Until(ps, n - 1) <= (n - 1) * each
    <3>1. (n - 1) * each \in Int
      BY <1>0, <2>1
    <3> QED BY <1>1, <1>2, <2>1, <3>1
  <2>3. (n - 1) * each = n * each - each /\ n * each \in Int
    BY <1>0, Products
  <2> QED BY <1>0, <1>1, <2>1, <2>2, <2>3
<1>3. 0 \notin Bad /\ Bad \in SUBSET (0 .. Len(ps))
  BY <1>0, <1>1
<1>4. Bad = {}
  <2> HIDE DEF Bad
  <2> QED BY <1>0, <1>2, <1>3, NoFirstFailure
<1>5. Len(ps) \in 0 .. Len(ps) /\ Until(ps, Len(ps)) = Length(ps) /\ Len(ps) * each \in Int
  BY <1>0, Lengths
<1> QED BY <1>1, <1>4, <1>5 DEF each

\* A procedure more
LEMMA LongerCode ==
  ASSUME NEW ps \in Seq(ProcType), NEW p \in ProcType
  PROVE  /\ Append(ps, p) \in Seq(ProcType) /\ Length(Append(ps, p)) = Length(ps) + Size(p)
         /\ Length(ps) \in Nat /\ Length(ps) % 2 = 0 /\ Length(<<>>) = 0
<1> DEFINE qs == Append(ps, p)
<1>1. /\ qs \in Seq(ProcType) /\ Len(qs) = Len(ps) + 1 /\ Len(ps) \in Nat
      /\ qs[Len(ps) + 1] = p /\ SubSeq(qs, 1, Len(ps)) = ps
  OBVIOUS
<1> HIDE DEF qs
<1>2. Until(qs, Len(qs)) = Length(qs) /\ Until(qs, Len(qs)) = Until(qs, Len(qs) - 1) + Size(qs[Len(qs)])
  <2>1. Len(qs) \in 1 .. Len(qs)
    BY <1>1
  <2> QED BY <1>1, <2>1, Lengths
<1>3. Length(qs) = Length(ps) + Size(p)
  <2>1. Len(qs) - 1 = Len(ps)
    BY <1>1
  <2> QED BY <1>1, <1>2, <2>1 DEF Until
<1>4. Length(ps) \in Nat /\ Length(ps) % 2 = 0
  <2>1. Len(ps) \in 0 .. Len(ps)
    BY <1>1
  <2> QED BY <2>1, Lengths
<1>5. Length(<<>>) = 0
  <2>1. <<>> \in Seq(ProcType) /\ SubSeq(<<>>, 1, 0) = <<>>
    OBVIOUS
  <2> QED BY <2>1, Lengths DEF Until
<1> QED BY <1>1, <1>3, <1>4, <1>5 DEF qs

-----------------------------------------------------------------------------
\* Where the code of a module is, and that of its procedures
LEMMA ModuleIs ==
  ASSUME Built, NEW x \in 1 .. Len(modules)
  PROVE  /\ modules[x] \in ModType /\ modules[x].procs \in Seq(ProcType) /\ Len(modules[x].procs) \in Nat
         /\ modules[x].base \in Nat /\ modules[x].base % 2 = 0 /\ modules[x].top \in Int
         /\ modules[x].size \in Int /\ modules[x].size >= 4
         /\ Length(modules[x].procs) \in Nat /\ Length(modules[x].procs) % 2 = 0
         /\ DOMAIN modules = 1 .. Len(modules) /\ DOMAIN modules[x].procs = 1 .. Len(modules[x].procs)
         /\ Len(modules) \in Nat /\ x \in Nat
<1>1. modules \in Seq(ModType) /\ Layout(modules[x], x)
  BY DEF Built, Linked
<1>2. modules[x] \in ModType /\ Len(modules) \in Nat /\ DOMAIN modules = 1 .. Len(modules)
  BY <1>1
<1>3. modules[x].procs \in Seq(ProcType) /\ modules[x].base \in Int /\ modules[x].top \in Int /\ modules[x].size \in Int
  BY <1>2 DEF ModType
<1>4. Len(modules[x].procs) \in Nat /\ DOMAIN modules[x].procs = 1 .. Len(modules[x].procs)
  BY <1>3
<1>5. Length(modules[x].procs) \in Nat /\ Length(modules[x].procs) % 2 = 0
  <2>1. Len(modules[x].procs) \in 0 .. Len(modules[x].procs)
    BY <1>4
  <2> QED BY <1>3, <2>1, Lengths
<1>6. modules[x].base \in Nat /\ modules[x].base % 2 = 0 /\ modules[x].size >= 4
  BY <1>1, <1>3 DEF Layout
<1> QED BY <1>2, <1>3, <1>4, <1>5, <1>6

LEMMA ProcedureIs ==
  ASSUME Built, NEW x \in 1 .. Len(modules), NEW k \in 1 .. Len(modules[x].procs)
  PROVE  LET m == modules[x]
             p == modules[x].procs[k] IN
         /\ p \in ProcType /\ p.calls \in Seq(Callee) /\ Len(p.calls) \in Nat /\ Size(p) = 8 + 4 * Len(p.calls)
         /\ p.inner \in BOOLEAN /\ p.name = ProcNames[k] /\ k \in 1 .. Len(ProcNames) /\ p.name \in Range(ProcNames)
         /\ PlaceOf(m, k) \in Nat /\ PlaceOf(m, k) % 2 = 0
         /\ PlaceOf(m, k) = m.base + Until(m.procs, k - 1) /\ Until(m.procs, k - 1) \in Nat
         /\ PlaceOf(m, k) >= m.base /\ PlaceOf(m, k) + Size(p) <= m.base + Length(m.procs)
<1> DEFINE m == modules[x]
           p == m.procs[k]
<1>1. /\ m.procs \in Seq(ProcType) /\ Len(m.procs) \in Nat /\ m.base \in Nat /\ m.base % 2 = 0
      /\ Length(m.procs) \in Nat
  BY ModuleIs
<1>2. /\ p.name = ProcNames[k] /\ Len(m.procs) <= Len(ProcNames)
  BY DEF Built, Linked, Lawful
<1>3. /\ p \in ProcType /\ Len(p.calls) \in Nat /\ Size(p) = 8 + 4 * Len(p.calls)
      /\ Until(m.procs, k) = Until(m.procs, k - 1) + Size(p)
  BY <1>1, Lengths
<1>4. p.calls \in Seq(Callee) /\ p.inner \in BOOLEAN /\ p.name \in Range(ProcNames)
  BY <1>3 DEF ProcType
<1>5. /\ Until(m.procs, k - 1) \in Nat /\ Until(m.procs, k - 1) % 2 = 0
      /\ Until(m.procs, k) <= Length(m.procs) /\ Until(m.procs, k) \in Nat
  <2>1. k - 1 \in 0 .. Len(m.procs) /\ k \in 0 .. Len(m.procs) /\ Len(m.procs) \in 0 .. Len(m.procs) /\ k <= Len(m.procs)
    BY <1>1
  <2>2. Until(m.procs, k) <= Until(m.procs, Len(m.procs)) /\ Until(m.procs, Len(m.procs)) = Length(m.procs)
    BY <1>1, <2>1, UntilGrows, Lengths
  <2> QED BY <1>1, <2>1, <2>2, Lengths
<1>6. PlaceOf(m, k) = m.base + Until(m.procs, k - 1)
  BY DEF PlaceOf, Until
<1>7. k \in 1 .. Len(ProcNames)
  BY <1>1, <1>2, Limits
<1> HIDE DEF m, p
<1>8. /\ PlaceOf(m, k) \in Nat /\ PlaceOf(m, k) % 2 = 0 /\ PlaceOf(m, k) >= m.base
  BY <1>1, <1>5, <1>6
<1>9. PlaceOf(m, k) + Size(p) <= m.base + Length(m.procs)
  BY <1>1, <1>3, <1>5, <1>6
<1> QED BY <1>2, <1>3, <1>4, <1>5, <1>6, <1>7, <1>8, <1>9 DEF m, p

\* The code is within reach of a call, and below the data
LEMMA CodeFits ==
  ASSUME Built, NEW x \in 1 .. Len(modules)
  PROVE  /\ modules[x].base + Length(modules[x].procs) + 4 * (Len(modules) + 1) <= Reach
         /\ modules[x].base + Length(modules[x].procs) < modules[x].top - modules[x].size
<1> DEFINE M == Len(ModuleNames)
           m == modules[x]
           L == Len(m.procs)
           each == 8 + 4 * MaxCalls
<1>1. /\ m.procs \in Seq(ProcType) /\ L \in Nat /\ m.base \in Nat /\ m.top \in Int /\ m.size \in Int
      /\ Length(m.procs) \in Nat /\ Len(modules) \in Nat /\ x \in Nat
  BY ModuleIs
<1>2. /\ Lawful(modules, x) /\ Layout(m, x) /\ Len(modules) <= M
  BY DEF Built, Linked
<1>3. /\ MaxGap \in Nat /\ MaxSize \in Nat /\ MaxCalls \in Nat /\ DataTop \in Int /\ M \in Nat
      /\ Len(ProcNames) \in Nat /\ Most \in Nat /\ each \in Nat /\ Reach \in Nat
      /\ CodeLimit(MaxGap) <= Reach /\ CodeLimit(MaxGap) + M * MaxSize < DataTop
  BY Limits, SMT
<1>4. Length(m.procs) <= Most
  <2>1. L <= Len(ProcNames) /\ \A k \in 1 .. L : Len(m.procs[k].calls) <= MaxCalls
    BY <1>2 DEF Lawful
  <2>2. Length(m.procs) <= L * each
    BY <1>1, <2>1, LengthBound
  <2>3. L * each \in Int /\ L * each <= Len(ProcNames) * each
    <3>1. L \in Int /\ each \in Int /\ each >= 0 /\ Len(ProcNames) \in Int /\ L <= Len(ProcNames)
      BY <1>1, <1>3, <2>1
    <3> HIDE DEF L, each
    <3> QED BY <3>1, Products
  <2>4. Len(ProcNames) * each = Most
    BY DEF Most
  <2> HIDE DEF each, L, m
  <2> QED BY <1>1, <1>3, <2>2, <2>3, <2>4
<1>5. x <= M /\ x - 1 \in Int /\ M - 1 \in Int /\ x - 1 <= M - 1
  BY <1>1, <1>2, <1>3
<1>6. /\ (x - 1) * (MaxGap + Most) \in Int /\ (x - 1) * (MaxGap + Most) <= (M - 1) * (MaxGap + Most)
      /\ (x - 1) * MaxSize \in Int /\ (x - 1) * MaxSize <= (M - 1) * MaxSize /\ (M - 1) * MaxSize = M * MaxSize - MaxSize
      /\ M * MaxSize \in Int
  <2>1. MaxGap + Most \in Int /\ MaxGap + Most >= 0 /\ MaxSize \in Int /\ MaxSize >= 0 /\ M \in Int
    BY <1>3
  <2>2. (x - 1) * (MaxGap + Most) \in Int /\ (x - 1) * (MaxGap + Most) <= (M - 1) * (MaxGap + Most)
    BY <1>5, <2>1, Products
  <2>3. (x - 1) * MaxSize \in Int /\ (x - 1) * MaxSize <= (M - 1) * MaxSize
    BY <1>5, <2>1, Products
  <2>4. (M - 1) * MaxSize = M * MaxSize - MaxSize /\ M * MaxSize \in Int
    BY <2>1, Products
  <2> QED BY <2>2, <2>3, <2>4
<1>7. CodeLimit(MaxGap) = (M - 1) * (MaxGap + Most) + Most + 4 * (M + 1)
  <2>1. CodeLimit(MaxGap) = (M - 1) * MaxGap + M * Most + 4 * (M + 1)
    BY DEF CodeLimit, Most
  <2>2. (M - 1) * Most = M * Most - Most /\ M * Most \in Int
    BY <1>3, Products
  <2>3. (M - 1) * (MaxGap + Most) = (M - 1) * MaxGap + (M - 1) * Most /\ (M - 1) * MaxGap \in Int
    BY <1>3
  <2> DEFINE u == (M - 1) * MaxGap
             v == M * Most
             w == (M - 1) * Most
  <2>4. u \in Int /\ v \in Int /\ w = v - Most /\ CodeLimit(MaxGap) = u + v + 4 * (M + 1) /\ (M - 1) * (MaxGap + Most) = u + w
    BY <2>1, <2>2, <2>3
  <2> HIDE DEF u, v, w
  <2> QED BY <1>3, <2>4
<1>8. /\ m.base <= (x - 1) * (MaxGap + Most) /\ m.size <= MaxSize /\ m.top >= DataTop - (x - 1) * MaxSize
  BY <1>2 DEF Layout
<1> DEFINE c == (x - 1) * (MaxGap + Most)
           d == (M - 1) * (MaxGap + Most)
           s == (x - 1) * MaxSize
           z == M * MaxSize
<1>9. /\ c \in Int /\ c <= d /\ d \in Int /\ s \in Int /\ z \in Int /\ s <= z - MaxSize
      /\ d + Most + 4 * (M + 1) <= Reach /\ d + Most + 4 * (M + 1) + z < DataTop
      /\ m.base <= c /\ m.size <= MaxSize /\ m.top >= DataTop - s
  <2>1. d \in Int
    BY <1>3
  <2> HIDE DEF m, M
  <2> QED BY <1>3, <1>6, <1>7, <1>8, <2>1, SMT
<1> DEFINE base == m.base
           length == Length(m.procs)
           top == m.top
           sz == m.size
           n == Len(modules)
<1>10. /\ base \in Int /\ length \in Int /\ top \in Int /\ sz \in Int /\ n \in Int /\ n <= M /\ M \in Int
       /\ length <= Most /\ base <= c /\ sz <= MaxSize /\ top >= DataTop - s
       /\ Most \in Int /\ MaxSize \in Int /\ DataTop \in Int /\ Reach \in Int /\ M >= 0
  BY <1>1, <1>2, <1>3, <1>4, <1>9, SMT
<1> HIDE DEF c, d, s, z, m, M, base, length, top, sz, n
<1>11. base + length <= d + Most
  BY <1>9, <1>10, SMT
<1>12. base + length + 4 * (n + 1) <= Reach
  BY <1>9, <1>10, <1>11, SMT
<1>13. top - sz >= DataTop - z
  BY <1>9, <1>10, SMT
<1>14. base + length < top - sz
  BY <1>9, <1>10, <1>11, <1>13, SMT
<1> QED BY <1>12, <1>14, SMT DEF base, length, top, sz, n, m

\* No two procedures share a place
Inside(z, i, at) == PlaceOf(modules[z], i) <= at /\ at < PlaceOf(modules[z], i) + Size(modules[z].procs[i])

LEMMA PlacesApart ==
  ASSUME Built, NEW x \in 1 .. Len(modules), NEW k \in 1 .. Len(modules[x].procs),
         NEW y \in 1 .. Len(modules), NEW j \in 1 .. Len(modules[y].procs), NEW at \in Int,
         Inside(x, k, at), Inside(y, j, at)
  PROVE  x = y /\ k = j
<1>1. ASSUME NEW z \in 1 .. Len(modules), NEW i \in 1 .. Len(modules[z].procs), Inside(z, i, at)
      PROVE  modules[z].base <= at /\ at < modules[z].base + Length(modules[z].procs)
  <2>1. /\ PlaceOf(modules[z], i) \in Nat /\ Len(modules[z].procs[i].calls) \in Nat
        /\ Size(modules[z].procs[i]) = 8 + 4 * Len(modules[z].procs[i].calls)
        /\ PlaceOf(modules[z], i) >= modules[z].base
        /\ PlaceOf(modules[z], i) + Size(modules[z].procs[i]) <= modules[z].base + Length(modules[z].procs)
    BY ProcedureIs
  <2>2. modules[z].base \in Nat /\ Length(modules[z].procs) \in Nat
    BY ModuleIs
  <2> DEFINE p == PlaceOf(modules[z], i)
             s == Size(modules[z].procs[i])
             l == Length(modules[z].procs)
             b == modules[z].base
             c == Len(modules[z].procs[i].calls)
  <2>3. /\ p \in Int /\ c \in Int /\ s = 8 + 4 * c /\ p >= b /\ p + s <= b + l /\ b \in Int /\ l \in Int
        /\ p <= at /\ at < p + s
    BY <1>1, <2>1, <2>2 DEF Inside
  <2> HIDE DEF p, s, l, b, c
  <2>4. b <= at /\ at < b + l
    <3>1. s \in Int
      BY <2>3
    <3>2. at < p + s /\ p + s <= b + l /\ p + s \in Int /\ b + l \in Int /\ b <= p /\ p <= at
      BY <2>3, <3>1
    <3> QED BY <2>3, <3>2
  <2> QED BY <2>4 DEF b, l
<1>2. ASSUME NEW z \in 1 .. Len(modules), NEW w \in 1 .. Len(modules), z < w
      PROVE  modules[z].base + Length(modules[z].procs) <= modules[w].base
  <2>1. z \in 1 .. w - 1
    BY <1>2, ModuleIs
  <2> QED BY <2>1 DEF Built, Linked, Behind
<1>3. x = y
  <2>1. /\ modules[x].base <= at /\ at < modules[x].base + Length(modules[x].procs)
        /\ modules[y].base <= at /\ at < modules[y].base + Length(modules[y].procs)
    BY <1>1
  <2>2. /\ modules[x].base \in Nat /\ Length(modules[x].procs) \in Nat /\ modules[y].base \in Nat
        /\ Length(modules[y].procs) \in Nat /\ x \in Nat /\ y \in Nat
    BY ModuleIs
  <2> DEFINE bx == modules[x].base
             ex == modules[x].base + Length(modules[x].procs)
             by == modules[y].base
             ey == modules[y].base + Length(modules[y].procs)
  <2>3. /\ bx \in Int /\ ex \in Int /\ by \in Int /\ ey \in Int
        /\ bx <= at /\ at < ex /\ by <= at /\ at < ey
    BY <2>1, <2>2
  <2>4. (x < y => ex <= by) /\ (y < x => ey <= bx)
    BY <1>2
  <2>5. x \in Int /\ y \in Int
    BY <2>2
  <2> HIDE DEF bx, ex, by, ey
  <2>6. ~(ex <= by) /\ ~(ey <= bx)
    BY <2>3
  <2>7. ~(x < y) /\ ~(y < x)
    BY <2>4, <2>6
  <2> QED BY <2>5, <2>7
<1>4. ASSUME NEW a \in 1 .. Len(modules[x].procs), NEW b \in 1 .. Len(modules[x].procs), a < b, Inside(x, a, at), Inside(x, b, at)
      PROVE  FALSE
  <2> DEFINE ps == modules[x].procs
             base == modules[x].base
  <2>1. ps \in Seq(ProcType) /\ Len(ps) \in Nat /\ base \in Nat
    BY ModuleIs
  <2>2. /\ PlaceOf(modules[x], a) = base + Until(ps, a - 1) /\ PlaceOf(modules[x], b) = base + Until(ps, b - 1)
        /\ Until(ps, a - 1) \in Nat /\ Until(ps, b - 1) \in Nat
        /\ Len(ps[a].calls) \in Nat /\ Size(ps[a]) = 8 + 4 * Len(ps[a].calls)
    BY ProcedureIs
  <2>3. a \in 0 .. Len(ps) /\ b - 1 \in 0 .. Len(ps) /\ a <= b - 1
    BY <1>4, <2>1
  <2>4. Until(ps, a) <= Until(ps, b - 1)
    BY <2>1, <2>3, UntilGrows
  <2>5. Until(ps, a) = Until(ps, a - 1) + Size(ps[a])
    BY <2>1, Lengths
  <2>6. at < base + Until(ps, a - 1) + Size(ps[a]) /\ base + Until(ps, b - 1) <= at
    BY <1>4, <2>2 DEF Inside
  <2> DEFINE u == Until(ps, a - 1)
             v == Until(ps, b - 1)
             s == Size(ps[a])
             c == Len(ps[a].calls)
  <2>7. /\ base \in Nat /\ u \in Nat /\ v \in Nat /\ c \in Nat /\ s = 8 + 4 * c /\ u + s <= v
        /\ at < base + u + s /\ base + v <= at
    BY <2>1, <2>2, <2>4, <2>5, <2>6
  <2> HIDE DEF ps, base, u, v, s, c
  <2> QED BY <2>7
<1>5. k = j
  <2>1. k \in Int /\ j \in Int /\ j \in 1 .. Len(modules[x].procs) /\ Inside(x, k, at) /\ Inside(x, j, at)
    BY <1>3
  <2> QED BY <1>4, <2>1
<1> QED BY <1>3, <1>5

-----------------------------------------------------------------------------
\* What the tool finds in the binary
LEMMA WithinReach ==
  ASSUME NEW a \in Nat, NEW b \in Nat, a % 2 = 0, b % 2 = 0, a + 4 <= Reach, b <= Reach
  PROVE  IsBl(EncodeBl(a, b)) /\ a + 4 + 2 * DecodeBl(EncodeBl(a, b)) = b
<1>1. /\ (b - (a + 4)) % 2 = 0 /\ a \in Int /\ b \in Int
  OBVIOUS
<1>2. b - (a + 4) >= -16777216 /\ b - (a + 4) < 16777216
  BY Powers, SMT DEF Reach
<1> QED BY <1>1, <1>2, CallReaches, SMT

LEMMA CallIs ==
  ASSUME Built, NEW x \in 1 .. Len(modules), NEW k \in 1 .. Len(modules[x].procs),
         NEW i \in 1 .. Len(modules[x].procs[k].calls)
  PROVE  LET c == modules[x].procs[k].calls[i]
             at == PlaceOf(modules[x], k) + 4 * i IN
         /\ c \in Callee /\ c[1] \in 1 .. Len(modules) /\ c[2] \in 1 .. Len(modules[c[1]].procs)
         /\ CalleeAt(c) = PlaceOf(modules[c[1]], c[2])
         /\ IsBl(EncodeBl(at, CalleeAt(c))) /\ at + 4 + 2 * DecodeBl(EncodeBl(at, CalleeAt(c))) = CalleeAt(c)
         /\ at \in Nat /\ PlaceOf(modules[x], k) <= at /\ at < PlaceOf(modules[x], k) + Size(modules[x].procs[k])
<1> DEFINE p == modules[x].procs[k]
           c == p.calls[i]
           q == PlaceOf(modules[x], k)
           at == q + 4 * i
           n == Len(p.calls)
           y == c[1]
           b == PlaceOf(modules[y], c[2])
<1>1. /\ q \in Nat /\ q % 2 = 0 /\ p.calls \in Seq(Callee) /\ n \in Nat /\ Size(p) = 8 + 4 * n
      /\ q + Size(p) <= modules[x].base + Length(modules[x].procs)
  BY ProcedureIs
<1>2. c \in Callee
  BY <1>1
<1>3. y \in 1 .. x /\ c[2] \in 1 .. Len(modules[y].procs)
  BY DEF Built, Linked, Lawful
<1>4. y \in 1 .. Len(modules)
  <2>1. x \in Nat /\ Len(modules) \in Nat
    BY ModuleIs
  <2> DEFINE l == Len(modules)
  <2>2. x \in 1 .. l /\ l \in Nat /\ y \in 1 .. x /\ x \in Nat
    BY <1>3, <2>1
  <2> HIDE DEF y, l
  <2>3. y \in 1 .. l
    BY <2>2
  <2> QED BY <2>3 DEF l
<1>5. CalleeAt(c) = b
  BY DEF CalleeAt
<1>6. /\ b \in Nat /\ b % 2 = 0 /\ b + Size(modules[y].procs[c[2]]) <= modules[y].base + Length(modules[y].procs)
      /\ Size(modules[y].procs[c[2]]) = 8 + 4 * Len(modules[y].procs[c[2]].calls) /\ Len(modules[y].procs[c[2]].calls) \in Nat
  BY <1>3, <1>4, ProcedureIs
<1> DEFINE ex == modules[x].base + Length(modules[x].procs)
           ey == modules[y].base + Length(modules[y].procs)
<1>7. ex \in Nat /\ ey \in Nat /\ Len(modules) \in Nat
  <2>1. ASSUME NEW z \in 1 .. Len(modules)
        PROVE  modules[z].base + Length(modules[z].procs) \in Nat /\ Len(modules) \in Nat
    <3>1. modules[z].base \in Nat /\ Length(modules[z].procs) \in Nat /\ Len(modules) \in Nat
      BY ModuleIs
    <3> QED BY <3>1
  <2> HIDE DEF y
  <2> QED BY <1>4, <2>1
<1>8. ex + 4 * (Len(modules) + 1) <= Reach /\ ey + 4 * (Len(modules) + 1) <= Reach /\ Reach \in Nat
  BY <1>4, CodeFits, Limits
<1> DEFINE s == Size(p)
           sb == Size(modules[y].procs[c[2]])
           nb == Len(modules[y].procs[c[2]].calls)
           M == Len(modules)
<1>9. /\ q \in Nat /\ q % 2 = 0 /\ n \in Nat /\ i \in 1 .. n /\ s = 8 + 4 * n /\ q + s <= ex
      /\ b \in Nat /\ sb = 8 + 4 * nb /\ nb \in Nat /\ b + sb <= ey /\ M \in Nat /\ ex \in Nat /\ ey \in Nat
      /\ ex + 4 * (M + 1) <= Reach /\ ey + 4 * (M + 1) <= Reach /\ Reach \in Nat
  BY <1>1, <1>6, <1>7, <1>8
<1>10. /\ at \in Nat /\ at % 2 = 0 /\ at + 4 <= Reach /\ b <= Reach /\ q <= at /\ at < q + s
  <2> HIDE DEF q, n, s, b, sb, nb, M, ex, ey
  <2> QED BY <1>9
<1> HIDE DEF q, b, at
<1>11. IsBl(EncodeBl(at, b)) /\ at + 4 + 2 * DecodeBl(EncodeBl(at, b)) = b
  BY <1>6, <1>10, WithinReach
<1> QED BY <1>2, <1>3, <1>4, <1>5, <1>10, <1>11 DEF q, b, at

LEMMA CallAtIs ==
  ASSUME Built, NEW x \in 1 .. Len(modules), NEW k \in 1 .. Len(modules[x].procs),
         NEW i \in 1 .. Len(modules[x].procs[k].calls)
  PROVE  CallAt(PlaceOf(modules[x], k) + 4 * i).to = modules[x].procs[k].calls[i]
<1> DEFINE at == PlaceOf(modules[x], k) + 4 * i
           r == [at |-> at, to |-> modules[x].procs[k].calls[i]]
<1>1. ASSUME NEW y \in 1 .. Len(modules), NEW j \in 1 .. Len(modules[y].procs) PROVE
        /\ y \in DOMAIN modules /\ j \in DOMAIN modules[y].procs
        /\ DOMAIN modules[y].procs[j].calls = 1 .. Len(modules[y].procs[j].calls)
  <2>1. modules[y].procs[j].calls \in Seq(Callee)
    BY ProcedureIs
  <2>2. y \in DOMAIN modules /\ j \in DOMAIN modules[y].procs
    BY ModuleIs
  <2> QED BY <2>1, <2>2
<1>2. r \in AllCalls
  <2>1. r \in CallsIn(x, k)
    BY <1>1 DEF CallsIn
  <2> QED BY <1>1, <2>1 DEF AllCalls
<1>3. ASSUME NEW d \in AllCalls, d.at = at PROVE d = r
  <2>1. PICK y \in DOMAIN modules : \E j \in DOMAIN modules[y].procs : d \in CallsIn(y, j)
    BY DEF AllCalls
  <2>2. y \in 1 .. Len(modules) /\ DOMAIN modules[y].procs = 1 .. Len(modules[y].procs)
    <3>1. y \in 1 .. Len(modules)
      BY <2>1, ModuleIs
    <3> QED BY <3>1, ModuleIs
  <2>3. PICK j \in 1 .. Len(modules[y].procs) : d \in CallsIn(y, j)
    BY <2>1, <2>2
  <2>4. PICK l \in 1 .. Len(modules[y].procs[j].calls) :
          d = [at |-> PlaceOf(modules[y], j) + 4 * l, to |-> modules[y].procs[j].calls[l]]
    BY <1>1, <2>2, <2>3 DEF CallsIn
  <2>5. /\ at \in Nat /\ PlaceOf(modules[x], k) <= at /\ at < PlaceOf(modules[x], k) + Size(modules[x].procs[k])
    BY CallIs
  <2>6. PlaceOf(modules[y], j) + 4 * l = at
    BY <1>3, <2>4
  <2>7. PlaceOf(modules[y], j) <= at /\ at < PlaceOf(modules[y], j) + Size(modules[y].procs[j])
    BY <2>2, <2>6, CallIs
  <2> HIDE DEF at
  <2>8. x = y /\ k = j
    <3>1. at \in Int
      BY <2>5
    <3> HIDE DEF r
    <3>2. Inside(x, k, at) /\ Inside(y, j, at)
      BY <2>5, <2>7 DEF Inside
    <3> QED BY <2>2, <3>1, <3>2, PlacesApart
  <2>9. PlaceOf(modules[x], k) \in Nat
    BY ProcedureIs
  <2>10. l \in Int /\ i \in Int
    OBVIOUS
  <2>11. i = l
    BY <2>6, <2>8, <2>9, <2>10 DEF at
  <2> QED BY <2>4, <2>6, <2>8, <2>11
<1> HIDE DEF r
<1>4. CallAt(at) = r
  BY <1>2, <1>3 DEF CallAt, r
<1> QED BY <1>4 DEF r

LEMMA ProcedureAtIs ==
  ASSUME Built, NEW x \in 1 .. Len(modules), NEW k \in 1 .. Len(modules[x].procs), NEW at \in Int,
         PlaceOf(modules[x], k) <= at, at < PlaceOf(modules[x], k) + Size(modules[x].procs[k])
  PROVE  ProcedureAt(x, at) = k
<1>1. DOMAIN modules[x].procs = 1 .. Len(modules[x].procs)
  BY ModuleIs
<1>2. ASSUME NEW j \in 1 .. Len(modules[x].procs),
             PlaceOf(modules[x], j) <= at, at < PlaceOf(modules[x], j) + Size(modules[x].procs[j])
      PROVE  j = k
  <2>1. Inside(x, k, at) /\ Inside(x, j, at)
    BY <1>2 DEF Inside
  <2> QED BY <2>1, PlacesApart
<1> QED BY <1>1, <1>2, Zenon DEF ProcedureAt

\* The lowest word of the data belongs to the module called last, and to no
\* other
LEMMA OwnerIs ==
  ASSUME Built, NEW x \in 1 .. Len(modules), NEW k \in 1 .. Len(modules[x].procs)
  PROVE  \E y \in 1 .. Len(modules) :
           /\ OwnerOf(GlobalAt(x, k)) = modules[y].name
           /\ GlobalAt(x, k) = modules[y].top - modules[y].size
<1> DEFINE calls == modules[x].procs[k].calls
           g == GlobalAt(x, k)
           owners == {z \in DOMAIN modules : g \in DataOf(modules[z]) \cup CodeOf(modules[z])}
<1>1. PICK y \in 1 .. Len(modules) : g = modules[y].top - modules[y].size
  <2>1. CASE calls = <<>>
    BY <2>1 DEF GlobalAt
  <2>2. CASE calls # <<>>
    <3>1. calls \in Seq(Callee)
      BY ProcedureIs
    <3>2. Len(calls) \in 1 .. Len(calls)
      BY <2>2, <3>1
    <3>3. Last(calls) = calls[Len(calls)]
      BY DEF Last
    <3>4. calls[Len(calls)][1] \in 1 .. Len(modules)
      BY <3>2, CallIs
    <3> QED BY <2>2, <3>3, <3>4 DEF GlobalAt
  <2> QED BY <2>1, <2>2
<1> HIDE DEF g
<1>2. /\ modules[y].top \in Int /\ modules[y].size \in Int /\ modules[y].size >= 4 /\ y \in Nat
      /\ DOMAIN modules = 1 .. Len(modules)
  BY ModuleIs
<1>3. y \in owners
  BY <1>1, <1>2 DEF DataOf
<1>4. ASSUME NEW z \in owners PROVE z = y
  <2>1. z \in 1 .. Len(modules)
    BY <1>2
  <2>2. /\ modules[z].top \in Int /\ modules[z].size \in Int /\ modules[z].size >= 4
        /\ modules[z].base \in Nat /\ Length(modules[z].procs) \in Nat
        /\ modules[y].base \in Nat /\ Length(modules[y].procs) \in Nat /\ z \in Nat
    BY <2>1, ModuleIs
  <2>3. /\ modules[z].base + Length(modules[z].procs) < modules[z].top - modules[z].size
        /\ modules[y].base + Length(modules[y].procs) < modules[y].top - modules[y].size
    BY <2>1, CodeFits
  <2>4. CASE y < z
    <3>1. y \in 1 .. z - 1
      BY <1>2, <2>2, <2>4
    <3>2. Behind(modules[y], modules[z])
      BY <2>1, <3>1 DEF Built, Linked
    <3> DEFINE tz == modules[z].top
               sz == modules[z].size
               bz == modules[z].base
               lz == Length(modules[z].procs)
    <3>3. tz <= g /\ bz + lz < tz - sz /\ g \in Int /\ tz \in Int /\ sz \in Int /\ sz >= 4 /\ bz \in Int /\ lz \in Int
      <4>1. tz <= g
        BY <1>1, <3>2 DEF Behind
      <4>2. g \in Int
        BY <1>1, <1>2
      <4> QED BY <2>2, <2>3, <4>1, <4>2
    <3>4. DataOf(modules[z]) = (tz - 4 - sz + 1) .. (tz - 4) /\ CodeOf(modules[z]) = bz .. (bz + lz - 1)
      BY DEF DataOf, CodeOf
    <3> HIDE DEF tz, sz, bz, lz
    <3>5. g > tz - 4 /\ g > bz + lz - 1
      BY <3>3
    <3>6. g \notin (tz - 4 - sz + 1) .. (tz - 4) /\ g \notin bz .. (bz + lz - 1)
      BY <3>3, <3>5
    <3> QED BY <3>4, <3>6
  <2>5. CASE z < y
    <3>1. z \in 1 .. y - 1
      BY <1>2, <2>2, <2>5
    <3>2. Behind(modules[z], modules[y])
      BY <2>1, <3>1 DEF Built, Linked
    <3>3. modules[y].top <= modules[z].top - modules[z].size /\ modules[z].base + Length(modules[z].procs) <= modules[y].base
      BY <3>2 DEF Behind
    <3>4. g \notin DataOf(modules[z])
      <4> DEFINE ty == modules[y].top
                 sy == modules[y].size
                 tz == modules[z].top
                 sz == modules[z].size
      <4>1. ty \in Int /\ sy \in Int /\ sy >= 4 /\ tz \in Int /\ sz \in Int /\ ty <= tz - sz /\ g = ty - sy
        BY <1>1, <1>2, <2>2, <3>3
      <4>2. DataOf(modules[z]) = (tz - 4 - sz + 1) .. (tz - 4)
        BY DEF DataOf
      <4> HIDE DEF ty, sy, tz, sz
      <4>3. g < tz - 4 - sz + 1
        BY <4>1
      <4> QED BY <4>1, <4>2, <4>3
    <3>5. g \notin CodeOf(modules[z])
      BY <1>1, <1>2, <2>2, <2>3, <3>3 DEF CodeOf
    <3> QED BY <3>4, <3>5
  <2> QED BY <1>2, <2>2, <2>4, <2>5
<1>5. owners = {y}
  BY <1>3, <1>4
<1>6. Min({y}) = y
  BY <1>2 DEF Min
<1>7. OwnerOf(g) = modules[y].name
  <2>1. OwnerOf(g) = IF owners = {} THEN "Unknown" ELSE modules[Min(owners)].name
    BY DEF OwnerOf
  <2> HIDE DEF owners
  <2> QED BY <1>5, <1>6, <2>1
<1> QED BY <1>1, <1>7 DEF g

-----------------------------------------------------------------------------
\* The lines of a listing
Words == {EncodeBl(a, b) : a \in Int, b \in Int}
RowType == [kind : {"procedure", "other", "call", "ext call", "global"}, at : Int,
            value : Range(ProcNames) \cup {<<>>} \cup Words]

LEMMA DeclaredIs ==
  ASSUME Built, status # "program", NEW x \in 1 .. Len(modules), NEW k \in 1 .. Len(modules[x].procs)
  PROVE  LET m == modules[x]
             D == Declared(m, k) IN
         /\ D \in Seq(Range(ProcNames)) /\ Len(D) \in Nat /\ DOMAIN D = 1 .. Len(D)
         /\ Len(D) > 0 => D[Len(D)] = m.procs[k].name
         /\ Len(D) = 0 <=> k > 1 /\ m.procs[k - 1].inner
<1> DEFINE m == modules[x]
           D == Declared(m, k)
           n == Len(m.procs)
<1>1. n \in Nat /\ \A j \in 1 .. n : m.procs[j].name \in Range(ProcNames) /\ m.procs[j].inner \in BOOLEAN
  BY ModuleIs, ProcedureIs
<1>2. ~m.procs[n].inner /\ (m.procs[k].inner /\ k > 1 => ~m.procs[k - 1].inner)
  BY DEF Built, Linked, Complete, Lawful
<1>3. CASE m.procs[k].inner
  <2>1. k + 1 \in 1 .. n
    BY <1>1, <1>2, <1>3
  <2>2. D = <<m.procs[k + 1].name, m.procs[k].name>>
    BY <1>3 DEF Declared
  <2>3. D \in Seq(Range(ProcNames)) /\ Len(D) = 2 /\ D[2] = m.procs[k].name
    <3>1. m.procs[k + 1].name \in Range(ProcNames) /\ m.procs[k].name \in Range(ProcNames)
      BY <1>1, <2>1
    <3> QED BY <2>2, <3>1
  <2> HIDE DEF D
  <2> QED BY <1>2, <1>3, <2>3 DEF D
<1>4. CASE ~m.procs[k].inner /\ k > 1 /\ m.procs[k - 1].inner
  <2>1. D = <<>>
    BY <1>4 DEF Declared
  <2> HIDE DEF D
  <2>2. D \in Seq(Range(ProcNames)) /\ Len(D) = 0 /\ DOMAIN D = 1 .. 0
    BY <2>1
  <2> QED BY <1>4, <2>2 DEF D
<1>5. CASE ~m.procs[k].inner /\ ~(k > 1 /\ m.procs[k - 1].inner)
  <2>1. D = <<m.procs[k].name>>
    BY <1>5 DEF Declared
  <2>2. D \in Seq(Range(ProcNames)) /\ Len(D) = 1 /\ D[1] = m.procs[k].name
    BY <1>1, <2>1
  <2> HIDE DEF D
  <2> QED BY <1>5, <2>2 DEF D
<1> QED BY <1>3, <1>4, <1>5

LEMMA FourParts ==
  ASSUME NEW S, NEW a \in Seq(S), NEW o \in S, NEW b \in Seq(S), NEW e \in S
  PROVE  LET s == a \o <<o>> \o b \o <<e>> IN
         /\ s \in Seq(S) /\ Len(s) = Len(a) + Len(b) + 2 /\ Len(a) \in Nat /\ Len(b) \in Nat
         /\ \A i \in 1 .. Len(a) : s[i] = a[i]
         /\ s[Len(a) + 1] = o
         /\ \A i \in 1 .. Len(b) : s[Len(a) + 1 + i] = b[i]
         /\ s[Len(a) + Len(b) + 2] = e
<1>0. Len(a) \in Nat /\ Len(b) \in Nat
  OBVIOUS
<1>1. PICK q : q = a \o <<o>> \o b
  OBVIOUS
<1>2. /\ q \in Seq(S) /\ Len(q) = Len(a) + 1 + Len(b) /\ q[Len(a) + 1] = o
      /\ \A i \in 1 .. Len(a) : q[i] = a[i]
      /\ \A i \in 1 .. Len(b) : q[Len(a) + 1 + i] = b[i]
  BY <1>1, JoinedAround
<1>3. PICK s : s = q \o <<e>>
  OBVIOUS
<1>4. /\ s \in Seq(S) /\ Len(s) = Len(q) + 1 /\ Len(q) \in Nat /\ s[Len(q) + 1] = e
      /\ \A i \in 1 .. Len(q) : s[i] = q[i]
  <2>1. q \in Seq(S)
    BY <1>2
  <2> QED BY <1>3, <2>1
<1>5. /\ Len(s) = Len(a) + Len(b) + 2 /\ Len(q) + 1 = Len(a) + Len(b) + 2 /\ Len(a) + 1 \in 1 .. Len(q)
      /\ \A i \in 1 .. Len(a) : i \in 1 .. Len(q)
      /\ \A i \in 1 .. Len(b) : Len(a) + 1 + i \in 1 .. Len(q)
  <2>1. Len(q) = Len(a) + 1 + Len(b) /\ Len(s) = Len(q) + 1
    BY <1>2, <1>4
  <2> QED BY <1>0, <2>1
<1>6. /\ \A i \in 1 .. Len(a) : s[i] = a[i]
      /\ s[Len(a) + 1] = o
      /\ \A i \in 1 .. Len(b) : s[Len(a) + 1 + i] = b[i]
      /\ s[Len(a) + Len(b) + 2] = e
  BY <1>2, <1>4, <1>5
<1> QED BY <1>0, <1>1, <1>3, <1>4, <1>5, <1>6

Start(x, k) == Length(SubSeq(modules[x].procs, 1, k - 1))
Heads(x, k) == Len(Declared(modules[x], k))
CallsOfProc(x, k) == Len(modules[x].procs[k].calls)
CallRow(x, k, i) ==
  LET at == Start(x, k) + 4 * i
      c == modules[x].procs[k].calls[i] IN
    IF c[1] = x THEN Row("call", at, EncodeBl(modules[x].base + at, CalleeAt(c)))
    ELSE Row("ext call", at, <<>>)

LEMMA CompiledIs ==
  ASSUME Built, status # "program", NEW x \in 1 .. Len(modules), NEW k \in 1 .. Len(modules[x].procs)
  PROVE  LET s == Compiled(x, k)
             d == Heads(x, k)
             n == CallsOfProc(x, k) IN
         /\ s \in Seq(RowType) /\ Len(s) = d + n + 2 /\ d \in Nat /\ n \in Nat
         /\ \A i \in 1 .. d : s[i] = Row("procedure", 0, Declared(modules[x], k)[i])
         /\ s[d + 1] = Row("other", Start(x, k), <<>>)
         /\ \A i \in 1 .. n : s[d + 1 + i] = CallRow(x, k, i)
         /\ s[d + n + 2] = Row("global", Start(x, k) + 4 + 4 * n, <<>>)
<1> DEFINE D == Declared(modules[x], k)
           calls == modules[x].procs[k].calls
           a == [i \in DOMAIN D |-> Row("procedure", 0, D[i])]
           o == Row("other", Start(x, k), <<>>)
           b == [i \in DOMAIN calls |-> CallRow(x, k, i)]
           e == Row("global", Start(x, k) + 4 + 4 * Len(calls), <<>>)
<1>1. D \in Seq(Range(ProcNames)) /\ Len(D) \in Nat /\ DOMAIN D = 1 .. Len(D)
  BY DeclaredIs
<1>2. calls \in Seq(Callee) /\ Len(calls) \in Nat /\ DOMAIN calls = 1 .. Len(calls)
  <2>1. calls \in Seq(Callee) /\ Len(calls) \in Nat
    BY ProcedureIs
  <2> HIDE DEF calls
  <2> QED BY <2>1
<1>3. Start(x, k) \in Nat /\ modules[x].base \in Nat
  BY ModuleIs, ProcedureIs DEF Start, Until
<1> HIDE DEF D
<1>4. a \in Seq(RowType) /\ Len(a) = Len(D) /\ \A i \in 1 .. Len(D) : a[i] = Row("procedure", 0, D[i])
  <2>1. ASSUME NEW i \in 1 .. Len(D) PROVE Row("procedure", 0, D[i]) \in RowType
    BY <1>1 DEF RowType, Row
  <2> QED BY <1>1, <2>1
<1>5. o \in RowType
  BY <1>3 DEF RowType, Row
<1>6. b \in Seq(RowType) /\ Len(b) = Len(calls) /\ \A i \in 1 .. Len(calls) : b[i] = CallRow(x, k, i)
  <2>1. ASSUME NEW i \in 1 .. Len(calls) PROVE CallRow(x, k, i) \in RowType
    <3> DEFINE at == Start(x, k) + 4 * i
               w == EncodeBl(modules[x].base + at, CalleeAt(calls[i]))
    <3>1. CalleeAt(calls[i]) \in Int /\ at \in Int /\ modules[x].base + at \in Int
      <4>1. calls[i][1] \in 1 .. Len(modules) /\ calls[i][2] \in 1 .. Len(modules[calls[i][1]].procs)
            /\ CalleeAt(calls[i]) = PlaceOf(modules[calls[i][1]], calls[i][2])
        BY CallIs
      <4>2. PlaceOf(modules[calls[i][1]], calls[i][2]) \in Nat
        BY <4>1, ProcedureIs
      <4> QED BY <1>2, <1>3, <4>1, <4>2
    <3>2. w \in Words
      BY <3>1 DEF Words
    <3> HIDE DEF w, at
    <3>3. Row("call", at, w) \in RowType /\ Row("ext call", at, <<>>) \in RowType
      BY <3>1, <3>2 DEF RowType, Row
    <3> QED BY <3>3 DEF CallRow, w, at
  <2> HIDE DEF calls
  <2> QED BY <1>2, <2>1
<1>7. e \in RowType
  <2>1. Start(x, k) + 4 + 4 * Len(calls) \in Int
    BY <1>2, <1>3
  <2> QED BY <2>1 DEF RowType, Row
<1>8. Compiled(x, k) = a \o <<o>> \o b \o <<e>>
  BY DEF Compiled, CallRow, Start, D
<1> HIDE DEF a, o, b, e, calls
<1>10. Len(a) = Heads(x, k) /\ Len(b) = CallsOfProc(x, k)
  BY <1>4, <1>6 DEF Heads, CallsOfProc, D, calls
<1> DEFINE s == Compiled(x, k)
<1> HIDE DEF s
<1>11. /\ s \in Seq(RowType) /\ Len(s) = Len(a) + Len(b) + 2 /\ Len(a) \in Nat /\ Len(b) \in Nat
       /\ \A i \in 1 .. Len(a) : s[i] = a[i]
       /\ s[Len(a) + 1] = o
       /\ \A i \in 1 .. Len(b) : s[Len(a) + 1 + i] = b[i]
       /\ s[Len(a) + Len(b) + 2] = e
  <2> DEFINE q == a \o <<o>> \o b \o <<e>>
  <2>1. /\ q \in Seq(RowType) /\ Len(q) = Len(a) + Len(b) + 2 /\ Len(a) \in Nat /\ Len(b) \in Nat
        /\ \A i \in 1 .. Len(a) : q[i] = a[i]
        /\ q[Len(a) + 1] = o
        /\ \A i \in 1 .. Len(b) : q[Len(a) + 1 + i] = b[i]
        /\ q[Len(a) + Len(b) + 2] = e
    <3>1. a \in Seq(RowType) /\ o \in RowType /\ b \in Seq(RowType) /\ e \in RowType
      BY <1>4, <1>5, <1>6, <1>7
    <3> QED BY <3>1, FourParts
  <2>2. s = q
    BY <1>8 DEF s
  <2> HIDE DEF q
  <2> QED BY <2>1, <2>2
<1>12. Len(calls) = CallsOfProc(x, k) /\ Len(D) = Heads(x, k)
  BY DEF CallsOfProc, calls, Heads, D
<1>13. \A i \in 1 .. Heads(x, k) : s[i] = Row("procedure", 0, Declared(modules[x], k)[i])
  BY <1>4, <1>10, <1>11 DEF D
<1>14. \A i \in 1 .. CallsOfProc(x, k) : s[Heads(x, k) + 1 + i] = CallRow(x, k, i)
  BY <1>6, <1>10, <1>11, <1>12
<1>15. /\ s[Heads(x, k) + 1] = Row("other", Start(x, k), <<>>)
       /\ s[Heads(x, k) + CallsOfProc(x, k) + 2] = Row("global", Start(x, k) + 4 + 4 * CallsOfProc(x, k), <<>>)
  BY <1>10, <1>11, <1>12 DEF o, e
<1> QED BY <1>10, <1>11, <1>13, <1>14, <1>15 DEF s

-----------------------------------------------------------------------------
\* What the tool makes of the lines
LEMMA StartIs ==
  ASSUME Built, NEW x \in 1 .. Len(modules), NEW k \in 1 .. Len(modules[x].procs)
  PROVE  /\ Start(x, k) \in Nat /\ modules[x].base \in Nat
         /\ PlaceOf(modules[x], k) = modules[x].base + Start(x, k)
         /\ CallsOfProc(x, k) \in Nat /\ Size(modules[x].procs[k]) = 8 + 4 * CallsOfProc(x, k)
<1>1. Start(x, k) \in Nat /\ modules[x].base \in Nat
  BY ModuleIs, ProcedureIs DEF Start, Until
<1>2. PlaceOf(modules[x], k) = modules[x].base + Start(x, k)
  BY DEF PlaceOf, Start
<1>3. CallsOfProc(x, k) \in Nat /\ Size(modules[x].procs[k]) = 8 + 4 * CallsOfProc(x, k)
  BY ProcedureIs DEF CallsOfProc
<1> QED BY <1>1, <1>2, <1>3

LEMMA AbsoluteIs ==
  ASSUME Built, status # "program", NEW x \in 1 .. Len(modules), NEW k \in 1 .. Len(modules[x].procs)
  PROVE  LET s == Compiled(x, k)
             d == Heads(x, k)
             n == CallsOfProc(x, k)
             q == PlaceOf(modules[x], k)
             c == modules[x].procs[k].calls IN
         /\ \A i \in 1 .. d : Absolute(x, s[i]) = Row("procedure", 0, Declared(modules[x], k)[i])
         /\ Absolute(x, s[d + 1]) = Row("other", q, <<>>)
         /\ \A i \in 1 .. n : Absolute(x, s[d + 1 + i]) = Row("call", q + 4 * i, EncodeBl(q + 4 * i, CalleeAt(c[i])))
         /\ Absolute(x, s[d + n + 2]) = Row("global", q + Size(modules[x].procs[k]) - 4, OwnerOf(GlobalAt(x, k)))
<1> DEFINE s == Compiled(x, k)
           d == Heads(x, k)
           n == CallsOfProc(x, k)
           q == PlaceOf(modules[x], k)
           c == modules[x].procs[k].calls
<1>1. /\ d \in Nat /\ n \in Nat
      /\ \A i \in 1 .. d : s[i] = Row("procedure", 0, Declared(modules[x], k)[i])
      /\ s[d + 1] = Row("other", Start(x, k), <<>>)
      /\ \A i \in 1 .. n : s[d + 1 + i] = CallRow(x, k, i)
      /\ s[d + n + 2] = Row("global", Start(x, k) + 4 + 4 * n, <<>>)
  BY CompiledIs
<1>2. /\ Start(x, k) \in Nat /\ modules[x].base \in Nat /\ q = modules[x].base + Start(x, k)
      /\ Size(modules[x].procs[k]) = 8 + 4 * n
  BY StartIs
<1> HIDE DEF s, d, n, q
<1>3. ASSUME NEW i \in 1 .. d PROVE Absolute(x, s[i]) = Row("procedure", 0, Declared(modules[x], k)[i])
  <2>1. s[i] = Row("procedure", 0, Declared(modules[x], k)[i])
    BY <1>1
  <2> QED BY <2>1 DEF Absolute, Row
<1>4. Absolute(x, s[d + 1]) = Row("other", q, <<>>)
  <2>1. Start(x, k) + modules[x].base = q
    BY <1>2
  <2> QED BY <1>1, <2>1 DEF Absolute, Row
<1>5. ASSUME NEW i \in 1 .. n PROVE Absolute(x, s[d + 1 + i]) = Row("call", q + 4 * i, EncodeBl(q + 4 * i, CalleeAt(c[i])))
  <2> DEFINE at == Start(x, k) + 4 * i
  <2>1. at + modules[x].base = q + 4 * i /\ modules[x].base + at = q + 4 * i
    BY <1>1, <1>2
  <2>2. CallAt(q + 4 * i).to = c[i]
    BY CallAtIs DEF q, n, CallsOfProc
  <2>3. s[d + 1 + i] = IF c[i][1] = x THEN Row("call", at, EncodeBl(modules[x].base + at, CalleeAt(c[i])))
                       ELSE Row("ext call", at, <<>>)
    BY <1>1 DEF CallRow
  <2> HIDE DEF at, c
  <2>4. CASE c[i][1] = x
    <3>1. s[d + 1 + i] = Row("call", at, EncodeBl(q + 4 * i, CalleeAt(c[i])))
      BY <2>1, <2>3, <2>4
    <3> QED BY <2>1, <3>1 DEF Absolute, Row
  <2>5. CASE c[i][1] # x
    <3>1. s[d + 1 + i] = Row("ext call", at, <<>>)
      BY <2>3, <2>5
    <3>2. Absolute(x, Row("ext call", at, <<>>)) =
            Row("call", at + modules[x].base, EncodeBl(at + modules[x].base, CalleeAt(CallAt(at + modules[x].base).to)))
      BY DEF Absolute, Row
    <3> QED BY <2>1, <2>2, <3>1, <3>2
  <2> QED BY <2>4, <2>5
<1>6. Absolute(x, s[d + n + 2]) = Row("global", q + Size(modules[x].procs[k]) - 4, OwnerOf(GlobalAt(x, k)))
  <2> DEFINE at == Start(x, k) + 4 + 4 * n + modules[x].base
  <2>1. at = q + Size(modules[x].procs[k]) - 4 /\ at \in Int /\ q <= at /\ at < q + Size(modules[x].procs[k])
    <3> DEFINE u == Start(x, k)
               b == modules[x].base
               z == Size(modules[x].procs[k])
    <3>1. u \in Nat /\ b \in Nat /\ n \in Nat /\ q = b + u /\ z = 8 + 4 * n /\ at = u + 4 + 4 * n + b
      BY <1>1, <1>2
    <3> HIDE DEF u, b, z, at
    <3>2. at = q + z - 4 /\ at \in Int /\ q <= at /\ at < q + z
      BY <3>1
    <3> QED BY <3>2 DEF z
  <2>2. ProcedureAt(x, at) = k
    <3> HIDE DEF at
    <3> QED BY <2>1, ProcedureAtIs DEF q
  <2>3. Absolute(x, s[d + n + 2]) = Row("global", at, OwnerOf(GlobalAt(x, ProcedureAt(x, at))))
    BY <1>1 DEF Absolute, Row
  <2> HIDE DEF at
  <2> QED BY <2>1, <2>2, <2>3
<1> QED BY <1>3, <1>4, <1>5, <1>6 DEF s, d, n, q

LEMMA LineIs ==
  ASSUME Built, status # "program", NEW x \in 1 .. Len(modules)
  PROVE  /\ Len(Listing(x)) \in Nat /\ DOMAIN Listing(x) = 1 .. Len(Listing(x))
         /\ \A i \in 1 .. Len(Listing(x)) :
              \E k \in 1 .. Len(modules[x].procs) : \E r \in 1 .. Len(Compiled(x, k)) :
                /\ Listing(x)[i] = Compiled(x, k)[r]
                /\ r > 1 => i > 1 /\ Listing(x)[i - 1] = Compiled(x, k)[r - 1]
                /\ r = 1 /\ i > 1 => k > 1 /\ Listing(x)[i - 1] = Compiled(x, k - 1)[Len(Compiled(x, k - 1))]
         /\ \A k \in 1 .. Len(modules[x].procs) : \A r \in 1 .. Len(Compiled(x, k)) :
              \E i \in 1 .. Len(Listing(x)) :
                /\ Listing(x)[i] = Compiled(x, k)[r]
                /\ r > 1 => i > 1 /\ Listing(x)[i - 1] = Compiled(x, k)[r - 1]
<1> DEFINE P == Len(modules[x].procs)
           ss == [k \in DOMAIN modules[x].procs |-> Compiled(x, k)]
           L == Listing(x)
<1>1. P \in Nat /\ DOMAIN modules[x].procs = 1 .. P
  BY ModuleIs
<1>2. \A k \in 1 .. P : Compiled(x, k) \in Seq(RowType) /\ Len(Compiled(x, k)) \in Nat /\ Len(Compiled(x, k)) >= 2
  <2>1. ASSUME NEW k \in 1 .. P PROVE Compiled(x, k) \in Seq(RowType) /\ Len(Compiled(x, k)) \in Nat /\ Len(Compiled(x, k)) >= 2
    <3>1. /\ Compiled(x, k) \in Seq(RowType) /\ Heads(x, k) \in Nat /\ CallsOfProc(x, k) \in Nat
          /\ Len(Compiled(x, k)) = Heads(x, k) + CallsOfProc(x, k) + 2
      BY CompiledIs
    <3> QED BY <3>1
  <2> QED BY <2>1
<1>3. ss \in Seq(Seq(RowType)) /\ Len(ss) = P /\ \A k \in 1 .. P : ss[k] = Compiled(x, k)
  BY <1>1, <1>2
<1>4. L = FlattenSeq(ss)
  BY DEF Listing
<1> HIDE DEF P, ss, L
<1>5. L \in Seq(RowType)
  BY <1>3, <1>4, FlattenIs
<1>6. Len(L) \in Nat /\ DOMAIN L = 1 .. Len(L)
  BY <1>5
<1>7. ASSUME NEW k \in 1 .. P, NEW r \in 1 .. Len(Compiled(x, k))
      PROVE  /\ Len(Leading(ss, k - 1)) \in Nat
             /\ Len(Leading(ss, k - 1)) + r \in 1 .. Len(L)
             /\ L[Len(Leading(ss, k - 1)) + r] = Compiled(x, k)[r]
  <2>1. k \in 1 .. Len(ss) /\ r \in 1 .. Len(ss[k]) /\ ss[k] = Compiled(x, k)
    BY <1>3
  <2> QED BY <1>3, <1>4, <2>1, Placed
<1>8. ASSUME NEW k \in 1 .. P, NEW r \in 1 .. Len(Compiled(x, k)), r > 1
      PROVE  LET i == Len(Leading(ss, k - 1)) + r IN i > 1 /\ L[i - 1] = Compiled(x, k)[r - 1]
  <2>1. r - 1 \in 1 .. Len(Compiled(x, k)) /\ r \in Int
    BY <1>2, <1>8
  <2>2. Len(Leading(ss, k - 1)) \in Nat /\ L[Len(Leading(ss, k - 1)) + (r - 1)] = Compiled(x, k)[r - 1]
    BY <1>7, <2>1
  <2>3. Len(Leading(ss, k - 1)) + r > 1 /\ (Len(Leading(ss, k - 1)) + r) - 1 = Len(Leading(ss, k - 1)) + (r - 1)
    BY <1>8, <2>1, <2>2
  <2> QED BY <2>2, <2>3
<1>9. ASSUME NEW i \in 1 .. Len(L)
      PROVE  \E k \in 1 .. P : \E r \in 1 .. Len(Compiled(x, k)) :
                /\ L[i] = Compiled(x, k)[r]
                /\ r > 1 => i > 1 /\ L[i - 1] = Compiled(x, k)[r - 1]
                /\ r = 1 /\ i > 1 => k > 1 /\ L[i - 1] = Compiled(x, k - 1)[Len(Compiled(x, k - 1))]
  <2>1. PICK k \in 1 .. Len(ss) : \E r \in 1 .. Len(ss[k]) : i = Len(Leading(ss, k - 1)) + r /\ L[i] = ss[k][r]
    BY <1>3, <1>4, PlaceOfEach
  <2>2. PICK r \in 1 .. Len(ss[k]) : i = Len(Leading(ss, k - 1)) + r /\ L[i] = ss[k][r]
    BY <2>1
  <2>3. k \in 1 .. P /\ ss[k] = Compiled(x, k) /\ r \in 1 .. Len(Compiled(x, k))
    BY <1>3
  <2>4. r > 1 => i > 1 /\ L[i - 1] = Compiled(x, k)[r - 1]
    BY <1>8, <2>2, <2>3
  <2>5. ASSUME r = 1, i > 1 PROVE k > 1 /\ L[i - 1] = Compiled(x, k - 1)[Len(Compiled(x, k - 1))]
    <3>1. Len(Leading(ss, k - 1)) \in Nat /\ Len(Leading(ss, k - 1)) = i - 1
      BY <1>7, <2>2, <2>3, <2>5
    <3>2. k # 1
      <4>1. SUFFICES ASSUME k = 1 PROVE FALSE
        OBVIOUS
      <4>2. Leading(ss, 0) = <<>>
        BY <1>3, FrontStep
      <4>3. Len(Leading(ss, k - 1)) = 0
        <5>1. Len(<<>>) = 0
          OBVIOUS
        <5>2. k - 1 = 0
          BY <4>1
        <5> QED BY <4>2, <5>1, <5>2
      <4> QED BY <2>5, <3>1, <4>3
    <3>3. k - 1 \in 1 .. P /\ k > 1
      BY <1>1, <2>3, <3>2
    <3>4. Len(Compiled(x, k - 1)) \in 1 .. Len(Compiled(x, k - 1)) /\ Len(Compiled(x, k - 1)) \in Nat
      BY <1>2, <3>3
    <3>5. L[Len(Leading(ss, (k - 1) - 1)) + Len(Compiled(x, k - 1))] = Compiled(x, k - 1)[Len(Compiled(x, k - 1))]
      BY <1>7, <3>3, <3>4
    <3>6. Len(Leading(ss, k - 1)) = Len(Leading(ss, (k - 1) - 1)) + Len(ss[k - 1])
      BY <1>3, <3>3, FrontStep
    <3>7. ss[k - 1] = Compiled(x, k - 1)
      BY <1>3, <3>3
    <3> QED BY <3>1, <3>3, <3>5, <3>6, <3>7
  <2> QED BY <2>2, <2>3, <2>4, <2>5
<1>10. ASSUME NEW k \in 1 .. P, NEW r \in 1 .. Len(Compiled(x, k))
       PROVE  \E i \in 1 .. Len(L) : /\ L[i] = Compiled(x, k)[r]
                                     /\ r > 1 => i > 1 /\ L[i - 1] = Compiled(x, k)[r - 1]
  BY <1>7, <1>8
<1> QED BY <1>6, <1>9, <1>10 DEF P, L

LEMMA RowIs ==
  ASSUME Built, status # "program", NEW x \in 1 .. Len(modules), NEW k \in 1 .. Len(modules[x].procs),
         NEW r \in 1 .. Len(Compiled(x, k))
  PROVE  LET l == Absolute(x, Compiled(x, k)[r])
             d == Heads(x, k)
             n == CallsOfProc(x, k)
             q == PlaceOf(modules[x], k)
             c == modules[x].procs[k].calls IN
         \/ r <= d /\ l = Row("procedure", 0, Declared(modules[x], k)[r])
         \/ r = d + 1 /\ l = Row("other", q, <<>>)
         \/ r > d + 1 /\ \E i \in 1 .. n : l = Row("call", q + 4 * i, EncodeBl(q + 4 * i, CalleeAt(c[i])))
         \/ r > d + 1 /\ r = Len(Compiled(x, k))
            /\ l = Row("global", q + Size(modules[x].procs[k]) - 4, OwnerOf(GlobalAt(x, k)))
<1> DEFINE s == Compiled(x, k)
           d == Heads(x, k)
           n == CallsOfProc(x, k)
           q == PlaceOf(modules[x], k)
           c == modules[x].procs[k].calls
           g == Row("global", q + Size(modules[x].procs[k]) - 4, OwnerOf(GlobalAt(x, k)))
           Call(i) == Row("call", q + 4 * i, EncodeBl(q + 4 * i, CalleeAt(c[i])))
<1>1. Len(s) = d + n + 2 /\ d \in Nat /\ n \in Nat
  BY CompiledIs
<1>2. /\ \A i \in 1 .. d : Absolute(x, s[i]) = Row("procedure", 0, Declared(modules[x], k)[i])
      /\ Absolute(x, s[d + 1]) = Row("other", q, <<>>)
      /\ \A i \in 1 .. n : Absolute(x, s[d + 1 + i]) = Call(i)
      /\ Absolute(x, s[d + n + 2]) = g
  BY AbsoluteIs
<1> HIDE DEF s, d, n, q, c, g, Call
<1>3. CASE r <= d
  BY <1>1, <1>2, <1>3 DEF s, d
<1>4. CASE r = d + 1
  BY <1>2, <1>4 DEF s, d, q
<1>5. CASE r > d + 1 /\ r < d + n + 2
  <2>1. r - d - 1 \in 1 .. n /\ r = d + 1 + (r - d - 1)
    BY <1>1, <1>5
  <2>2. \E i \in 1 .. n : Absolute(x, s[r]) = Call(i)
    BY <1>2, <2>1
  <2> QED BY <1>5, <2>2 DEF s, d, n, q, c, Call
<1>6. CASE r = d + n + 2
  <2>1. r > d + 1 /\ r = Len(s) /\ Absolute(x, s[r]) = g
    BY <1>1, <1>2, <1>6
  <2> QED BY <2>1 DEF s, d, g, q
<1>7. r <= d \/ r = d + 1 \/ (r > d + 1 /\ r < d + n + 2) \/ r = d + n + 2
  BY <1>1 DEF s
<1> QED BY <1>3, <1>4, <1>5, <1>6, <1>7

\* The lines of a listing with absolute addresses
LEMMA AbsoluteLine ==
  ASSUME Built, status # "program", listings = AbsoluteListings, NEW x \in 1 .. Len(modules)
  PROVE  /\ DOMAIN listings = 1 .. Len(modules) /\ DOMAIN listings[x] = 1 .. Len(Listing(x)) /\ Len(Listing(x)) \in Nat
         /\ \A i \in 1 .. Len(Listing(x)) : listings[x][i] = Absolute(x, Listing(x)[i])
<1>1. DOMAIN modules = 1 .. Len(modules)
  BY ModuleIs
<1>2. DOMAIN Listing(x) = 1 .. Len(Listing(x)) /\ Len(Listing(x)) \in Nat
  BY LineIs
<1>3. listings[x] = [i \in 1 .. Len(Listing(x)) |-> Absolute(x, Listing(x)[i])]
  BY <1>1, <1>2 DEF AbsoluteListings
<1>4. DOMAIN listings = 1 .. Len(modules)
  BY <1>1 DEF AbsoluteListings
<1> QED BY <1>2, <1>3, <1>4

\* The procedures found: those with a name above their code
Found(y, j) == [at |-> PlaceOf(modules[y], j), module |-> modules[y].name, name |-> modules[y].procs[j].name]

LEMMA BeginsIs ==
  ASSUME Built, status # "program", listings = AbsoluteListings, NEW x \in 1 .. Len(modules),
         NEW i \in DOMAIN listings[x], Begins(listings[x], i)
  PROVE  \E k \in 1 .. Len(modules[x].procs) :
           Heads(x, k) > 0 /\ [at |-> listings[x][i].at, module |-> modules[x].name, name |-> Above(listings[x], i)] = Found(x, k)
<1> DEFINE ls == listings[x]
<1>1. DOMAIN ls = 1 .. Len(Listing(x)) /\ Len(Listing(x)) \in Nat /\ \A a \in 1 .. Len(Listing(x)) : ls[a] = Absolute(x, Listing(x)[a])
  BY AbsoluteLine
<1>2. i > 1 /\ i \in 1 .. Len(Listing(x)) /\ i \in Int /\ ls[i].kind # "procedure" /\ ls[i - 1].kind = "procedure"
  BY <1>1 DEF Begins
<1>3. PICK k \in 1 .. Len(modules[x].procs) : \E r \in 1 .. Len(Compiled(x, k)) :
                /\ Listing(x)[i] = Compiled(x, k)[r]
                /\ r > 1 => i > 1 /\ Listing(x)[i - 1] = Compiled(x, k)[r - 1]
                /\ r = 1 /\ i > 1 => k > 1 /\ Listing(x)[i - 1] = Compiled(x, k - 1)[Len(Compiled(x, k - 1))]
  BY <1>2, LineIs
<1>4. PICK r \in 1 .. Len(Compiled(x, k)) :
                /\ Listing(x)[i] = Compiled(x, k)[r]
                /\ r > 1 => i > 1 /\ Listing(x)[i - 1] = Compiled(x, k)[r - 1]
                /\ r = 1 /\ i > 1 => k > 1 /\ Listing(x)[i - 1] = Compiled(x, k - 1)[Len(Compiled(x, k - 1))]
  BY <1>3
<1> DEFINE d == Heads(x, k)
           q == PlaceOf(modules[x], k)
<1>5. i - 1 \in 1 .. Len(Listing(x)) /\ ls[i] = Absolute(x, Compiled(x, k)[r]) /\ ls[i - 1] = Absolute(x, Listing(x)[i - 1])
  <2>1. i - 1 \in 1 .. Len(Listing(x))
    BY <1>1, <1>2
  <2> QED BY <1>1, <1>2, <1>4, <2>1
<1>6. /\ d \in Nat /\ Len(Compiled(x, k)) \in Nat
  <2>1. d \in Nat /\ Compiled(x, k) \in Seq(RowType)
    BY CompiledIs
  <2> QED BY <2>1
<1>7. r # 1
  <2>1. SUFFICES ASSUME r = 1 PROVE FALSE
    OBVIOUS
  <2>2. k > 1 /\ ls[i - 1] = Absolute(x, Compiled(x, k - 1)[Len(Compiled(x, k - 1))])
    BY <1>2, <1>4, <1>5, <2>1
  <2>3. k - 1 \in 1 .. Len(modules[x].procs)
    BY <2>2, ModuleIs
  <2> DEFINE n1 == CallsOfProc(x, k - 1)
             d1 == Heads(x, k - 1)
  <2>4. Len(Compiled(x, k - 1)) = d1 + n1 + 2
    BY <2>3, CompiledIs
  <2>5. Absolute(x, Compiled(x, k - 1)[d1 + n1 + 2]) =
          Row("global", PlaceOf(modules[x], k - 1) + Size(modules[x].procs[k - 1]) - 4, OwnerOf(GlobalAt(x, k - 1)))
    BY <2>3, AbsoluteIs
  <2>6. ls[i - 1].kind = "global"
    BY <2>2, <2>4, <2>5 DEF Row
  <2> QED BY <1>2, <2>6
<1>8. r - 1 \in 1 .. Len(Compiled(x, k)) /\ r > 1 /\ ls[i - 1] = Absolute(x, Compiled(x, k)[r - 1])
  <2>1. r > 1 /\ r - 1 \in 1 .. Len(Compiled(x, k))
    BY <1>6, <1>7
  <2> QED BY <1>4, <1>5, <2>1
<1> HIDE DEF ls
<1>9. r - 1 <= d /\ ls[i - 1] = Row("procedure", 0, Declared(modules[x], k)[r - 1])
  <2>1. \/ r - 1 <= d /\ ls[i - 1] = Row("procedure", 0, Declared(modules[x], k)[r - 1])
        \/ ls[i - 1].kind \in {"other", "call", "global"}
    <3> DEFINE r1 == r - 1
               l == ls[i - 1]
               n == CallsOfProc(x, k)
               c == modules[x].procs[k].calls
    <3>1. r1 \in 1 .. Len(Compiled(x, k)) /\ l = Absolute(x, Compiled(x, k)[r1])
      BY <1>8
    <3> HIDE DEF r1, l
    <3>2. \/ r1 <= d /\ l = Row("procedure", 0, Declared(modules[x], k)[r1])
          \/ r1 = d + 1 /\ l = Row("other", q, <<>>)
          \/ r1 > d + 1 /\ \E a \in 1 .. n : l = Row("call", q + 4 * a, EncodeBl(q + 4 * a, CalleeAt(c[a])))
          \/ r1 > d + 1 /\ r1 = Len(Compiled(x, k))
             /\ l = Row("global", q + Size(modules[x].procs[k]) - 4, OwnerOf(GlobalAt(x, k)))
      BY <3>1, RowIs
    <3> HIDE DEF d, q, n, c
    <3>3. \/ r1 <= d /\ l = Row("procedure", 0, Declared(modules[x], k)[r1])
          \/ l.kind \in {"other", "call", "global"}
      BY <3>2 DEF Row
    <3> QED BY <3>3 DEF r1, l, d
  <2> QED BY <1>2, <2>1
<1>10. r = d + 1 /\ ls[i] = Row("other", q, <<>>)
  <2>1. r > d
    <3>1. r <= d => ls[i].kind = "procedure"
      <4>1. r <= d => ls[i] = Row("procedure", 0, Declared(modules[x], k)[r])
        <5>1. r <= d => r \in 1 .. d
          BY <1>6
        <5>2. \A a \in 1 .. d : Absolute(x, Compiled(x, k)[a]) = Row("procedure", 0, Declared(modules[x], k)[a])
          BY AbsoluteIs
        <5> QED BY <1>5, <5>1, <5>2
      <4> QED BY <4>1 DEF Row
    <3> QED BY <1>2, <1>6, <3>1
  <2>2. r = d + 1
    BY <1>6, <1>9, <2>1
  <2>3. Absolute(x, Compiled(x, k)[d + 1]) = Row("other", q, <<>>)
    BY AbsoluteIs
  <2> QED BY <1>5, <2>2, <2>3
<1>11. d > 0 /\ Declared(modules[x], k)[r - 1] = modules[x].procs[k].name
  <2>1. r - 1 = d /\ d > 0
    BY <1>6, <1>8, <1>10
  <2>2. Declared(modules[x], k)[d] = modules[x].procs[k].name
    BY <2>1, DeclaredIs DEF Heads
  <2> QED BY <2>1, <2>2
<1>12. Above(ls, i) = modules[x].procs[k].name
  <2> DEFINE J == {j \in 1 .. i - 1 : ls[j].kind = "procedure"}
  <2>1. i - 1 \in J /\ \A y \in J : y \in Int /\ y <= i - 1
    BY <1>2, <1>5
  <2>2. Max(J) = i - 1
    <3> HIDE DEF J
    <3>1. Max(J) \in J /\ \A y \in J : Max(J) >= y
      <4>1. \E z \in J : \A y \in J : z >= y
        BY <1>2, <2>1
      <4> QED BY <4>1, Zenon DEF Max
    <3> QED BY <1>2, <2>1, <3>1
  <2>3. Above(ls, i) = ls[Max(J)].value
    BY DEF Above
  <2> HIDE DEF J
  <2>4. Above(ls, i) = ls[i - 1].value
    BY <2>2, <2>3
  <2> QED BY <1>9, <1>11, <2>4 DEF Row
<1>13. ls[i].at = q
  BY <1>10 DEF Row
<1> QED BY <1>11, <1>12, <1>13 DEF Found, ls

LEMMA BeginsThere ==
  ASSUME Built, status # "program", listings = AbsoluteListings, NEW x \in 1 .. Len(modules),
         NEW k \in 1 .. Len(modules[x].procs), Heads(x, k) > 0
  PROVE  \E i \in DOMAIN listings[x] :
           Begins(listings[x], i) /\ listings[x][i].at = PlaceOf(modules[x], k)
<1> DEFINE ls == listings[x]
           d == Heads(x, k)
<1>1. DOMAIN ls = 1 .. Len(Listing(x)) /\ Len(Listing(x)) \in Nat /\ \A a \in 1 .. Len(Listing(x)) : ls[a] = Absolute(x, Listing(x)[a])
  BY AbsoluteLine
<1>2. /\ d \in Nat /\ d + 1 \in 1 .. Len(Compiled(x, k)) /\ d + 1 > 1 /\ d \in 1 .. d
  <2>1. d \in Nat /\ CallsOfProc(x, k) \in Nat /\ Len(Compiled(x, k)) = d + CallsOfProc(x, k) + 2
    BY CompiledIs
  <2> QED BY <2>1
<1>3. PICK i \in 1 .. Len(Listing(x)) : /\ Listing(x)[i] = Compiled(x, k)[d + 1]
                                       /\ i > 1 /\ Listing(x)[i - 1] = Compiled(x, k)[(d + 1) - 1]
  BY <1>2, LineIs
<1>4. ls[i] = Row("other", PlaceOf(modules[x], k), <<>>)
  BY <1>1, <1>3, AbsoluteIs
<1>5. ls[i - 1] = Row("procedure", 0, Declared(modules[x], k)[d])
  <2>1. i - 1 \in 1 .. Len(Listing(x)) /\ (d + 1) - 1 = d
    BY <1>1, <1>2, <1>3
  <2>2. Absolute(x, Compiled(x, k)[d]) = Row("procedure", 0, Declared(modules[x], k)[d])
    BY <1>2, AbsoluteIs
  <2> QED BY <1>1, <1>3, <2>1, <2>2
<1> HIDE DEF ls
<1>6. i \in DOMAIN ls /\ Begins(ls, i) /\ ls[i].at = PlaceOf(modules[x], k)
  BY <1>1, <1>3, <1>4, <1>5 DEF Begins, Row
<1> QED BY <1>6 DEF ls

LEMMA ProcDbIs ==
  ASSUME Built, status # "program", listings = AbsoluteListings
  PROVE  /\ \A e \in ProcDb : \E y \in 1 .. Len(modules) : \E j \in 1 .. Len(modules[y].procs) :
               Heads(y, j) > 0 /\ e = Found(y, j)
         /\ \A y \in 1 .. Len(modules) : \A j \in 1 .. Len(modules[y].procs) :
               Heads(y, j) > 0 => \E e \in ProcDb : e.at = PlaceOf(modules[y], j)
<1>1. DOMAIN modules = 1 .. Len(modules)
  BY DEF Built, Linked
<1>2. ASSUME NEW e \in ProcDb
      PROVE  \E y \in 1 .. Len(modules) : \E j \in 1 .. Len(modules[y].procs) : Heads(y, j) > 0 /\ e = Found(y, j)
  <2>1. PICK y \in 1 .. Len(modules) : \E i \in DOMAIN listings[y] :
          Begins(listings[y], i) /\ e = [at |-> listings[y][i].at, module |-> modules[y].name, name |-> Above(listings[y], i)]
    BY <1>1 DEF ProcDb
  <2> QED BY <2>1, BeginsIs
<1>3. ASSUME NEW y \in 1 .. Len(modules), NEW j \in 1 .. Len(modules[y].procs), Heads(y, j) > 0
      PROVE  \E e \in ProcDb : e.at = PlaceOf(modules[y], j)
  <2>1. PICK i \in DOMAIN listings[y] : Begins(listings[y], i) /\ listings[y][i].at = PlaceOf(modules[y], j)
    BY <1>3, BeginsThere
  <2> DEFINE e == [at |-> listings[y][i].at, module |-> modules[y].name, name |-> Above(listings[y], i)]
  <2>2. e \in ProcDb
    BY <1>1, <2>1 DEF ProcDb
  <2> QED BY <2>1, <2>2
<1> QED BY <1>2, <1>3

-----------------------------------------------------------------------------
\* The names at the calls
LEMMA ModuleNamed ==
  ASSUME Built, NEW y \in 1 .. Len(modules), NEW z \in 1 .. Len(modules), modules[y].name = modules[z].name
  PROVE  y = z
<1>1. ModuleNames \in Seq(Range(ModuleNames)) /\ IsInjective(ModuleNames)
  BY RdbAssumption, Zenon DEF Different
<1>2. DOMAIN ModuleNames = 1 .. Len(ModuleNames) /\ Len(ModuleNames) \in Nat
  BY <1>1, SMT
<1>3. Len(modules) <= Len(ModuleNames) /\ ModuleNames[y] = ModuleNames[z] /\ Len(modules) \in Nat
  BY ModuleIs, Zenon DEF Built, Linked
<1>4. y \in DOMAIN ModuleNames /\ z \in DOMAIN ModuleNames
  BY <1>2, <1>3, SMT
<1> QED BY <1>1, <1>3, <1>4, Zenon DEF IsInjective

LEMMA OneOrTwo ==
  ASSUME NEW a, NEW b
  PROVE  <<>> \o <<b>> = <<b>> /\ <<a>> \o <<b>> = <<a, b>>
<1>1. <<>> \o <<b>> = <<b>>
  OBVIOUS
<1>2. <<a>> \o <<b>> = <<a, b>>
  <2> DEFINE S == {a, b}
             c == <<a>> \o <<b>>
  <2>1. <<a>> \in Seq(S) /\ b \in S /\ Len(<<a>>) = 1 /\ <<a>>[1] = a
    OBVIOUS
  <2>2. <<a>> \o <<b>> = Append(<<a>>, b)
    BY <2>1
  <2>3. PICK s : s = Append(<<a>>, b)
    OBVIOUS
  <2>4. s \in Seq(S) /\ Len(s) = 2 /\ s[1] = a /\ s[2] = b
    BY <2>1, <2>3
  <2>5. PICK t : t = <<a, b>>
    OBVIOUS
  <2>6. t \in Seq(S) /\ Len(t) = 2 /\ t[1] = a /\ t[2] = b
    BY <2>5
  <2>7. s = [i \in 1 .. 2 |-> s[i]] /\ t = [i \in 1 .. 2 |-> t[i]]
    BY <2>4, <2>6
  <2>8. \A i \in 1 .. 2 : s[i] = t[i]
    BY <2>4, <2>6
  <2>9. s = t
    BY <2>7, <2>8
  <2> QED BY <2>2, <2>3, <2>5, <2>9
<1> QED BY <1>1, <1>2

CallOf(x, k, i) ==
  LET at == PlaceOf(modules[x], k) + 4 * i IN Row("call", at, EncodeBl(at, CalleeAt(modules[x].procs[k].calls[i])))
NameOf(x, c) == (IF c[1] = x THEN <<>> ELSE <<modules[c[1]].name>>) \o <<modules[c[1]].procs[c[2]].name>>

LEMMA CallNamed ==
  ASSUME Built, status # "program", listings = AbsoluteListings,
         NEW x \in 1 .. Len(modules), NEW k \in 1 .. Len(modules[x].procs), NEW i \in 1 .. CallsOfProc(x, k)
  PROVE  LET c == modules[x].procs[k].calls[i]
             l == CallOf(x, k, i) IN
         WithName(ProcDb, x, l) = IF Heads(c[1], c[2]) = 0 THEN l ELSE Row("named call", l.at, NameOf(x, c))
<1> DEFINE c == modules[x].procs[k].calls[i]
           l == CallOf(x, k, i)
           at == PlaceOf(modules[x], k) + 4 * i
           y == c[1]
           j == c[2]
           found == {p \in ProcDb : p.at = Goal(l)}
<1>1. /\ y \in 1 .. Len(modules) /\ j \in 1 .. Len(modules[y].procs)
      /\ CalleeAt(c) = PlaceOf(modules[y], j)
      /\ IsBl(EncodeBl(at, CalleeAt(c))) /\ at + 4 + 2 * DecodeBl(EncodeBl(at, CalleeAt(c))) = CalleeAt(c)
  <2>1. i \in 1 .. Len(modules[x].procs[k].calls)
    BY DEF CallsOfProc
  <2> QED BY <2>1, CallIs
<1>2. l.kind = "call" /\ IsBl(l.value) /\ Goal(l) = PlaceOf(modules[y], j) /\ l.at = at
  BY <1>1 DEF CallOf, Goal, Row
<1> HIDE DEF l, y, j, at
<1>3. Heads(y, j) \in Nat
  BY <1>1, CompiledIs
<1>4. ASSUME NEW p \in found PROVE Heads(y, j) > 0 /\ p = Found(y, j)
  <2>1. p \in ProcDb /\ p.at = PlaceOf(modules[y], j)
    BY <1>2
  <2>2. PICK z \in 1 .. Len(modules) : \E b \in 1 .. Len(modules[z].procs) : Heads(z, b) > 0 /\ p = Found(z, b)
    BY <2>1, ProcDbIs
  <2>3. PICK b \in 1 .. Len(modules[z].procs) : Heads(z, b) > 0 /\ p = Found(z, b)
    BY <2>2
  <2>4. PlaceOf(modules[z], b) = PlaceOf(modules[y], j)
    BY <2>1, <2>3 DEF Found
  <2> DEFINE w == PlaceOf(modules[y], j)
  <2>5. /\ w \in Nat /\ w < w + Size(modules[y].procs[j]) /\ w < w + Size(modules[z].procs[b])
    <3>1. w \in Nat /\ Size(modules[y].procs[j]) = 8 + 4 * CallsOfProc(y, j) /\ CallsOfProc(y, j) \in Nat
      BY <1>1, StartIs, ProcedureIs
    <3>2. Size(modules[z].procs[b]) = 8 + 4 * CallsOfProc(z, b) /\ CallsOfProc(z, b) \in Nat
      BY StartIs
    <3> HIDE DEF w
    <3> QED BY <3>1, <3>2
  <2>6. z = y /\ b = j
    <3>1. /\ w \in Int /\ PlaceOf(modules[z], b) = w /\ PlaceOf(modules[y], j) = w
      BY <2>4, <2>5
    <3> HIDE DEF w
    <3>2. Inside(y, j, w) /\ Inside(z, b, w)
      BY <2>5, <3>1 DEF Inside
    <3>3. z \in 1 .. Len(modules) /\ b \in 1 .. Len(modules[z].procs) /\ y \in 1 .. Len(modules) /\ j \in 1 .. Len(modules[y].procs)
      BY <1>1
    <3> QED BY <3>1, <3>2, <3>3, PlacesApart, Zenon
  <2> QED BY <2>3, <2>6
<1>5. Heads(y, j) > 0 => found # {}
  <2>1. Heads(y, j) > 0 => \E e \in ProcDb : e.at = PlaceOf(modules[y], j)
    BY <1>1, ProcDbIs
  <2> QED BY <1>2, <2>1
<1>6. CASE Heads(y, j) = 0
  <2>1. found = {}
    BY <1>4, <1>6
  <2>2. WithName(ProcDb, x, l) = l
    BY <2>1 DEF WithName
  <2> QED BY <1>6, <2>2 DEF y, j, l
<1>7. CASE Heads(y, j) # 0
  <2>1. found # {}
    BY <1>3, <1>5, <1>7
  <2> DEFINE p == CHOOSE q \in found : TRUE
  <2>2. p = Found(y, j)
    <3>1. p \in found
      BY <2>1
    <3> QED BY <1>4, <3>1
  <2>3. WithName(ProcDb, x, l) =
          Row("named call", l.at, IF p.module = modules[x].name THEN <<p.name>> ELSE <<p.module, p.name>>)
    BY <1>2, <2>1 DEF WithName
  <2> HIDE DEF p, found
  <2>4. p.module = modules[y].name /\ p.name = modules[y].procs[j].name
    BY <2>2 DEF Found
  <2>5. modules[y].name = modules[x].name <=> y = x
    BY <1>1, ModuleNamed
  <2>6. NameOf(x, c) = IF y = x THEN <<p.name>> ELSE <<p.module, p.name>>
    <3>1. NameOf(x, c) = (IF y = x THEN <<>> ELSE <<p.module>>) \o <<p.name>>
      BY <2>4 DEF NameOf, y, j
    <3>2. <<>> \o <<p.name>> = <<p.name>> /\ <<p.module>> \o <<p.name>> = <<p.module, p.name>>
      BY OneOrTwo, Zenon
    <3> QED BY <3>1, <3>2
  <2>7. WithName(ProcDb, x, l) = Row("named call", l.at, NameOf(x, c))
    BY <2>3, <2>4, <2>5, <2>6
  <2> QED BY <1>7, <2>7 DEF y, j, l
<1> QED BY <1>6, <1>7 DEF y, j, l

\* What is told of a call, and of the address of a global
CallTrue(x, l) ==
  l.kind \in {"call", "named call"} =>
    LET c == CallAt(l.at).to
        m == modules[c[1]]
        holds == c[2] > 1 /\ m.procs[c[2] - 1].inner
    IN  IF l.kind = "call" THEN holds
        ELSE l.value = (IF c[1] = x THEN <<>> ELSE <<m.name>>) \o <<m.procs[c[2]].name>>

GlobalTrue(x, k, l) ==
  l.kind = "global" /\ l.at = PlaceOf(modules[x], k) + Size(modules[x].procs[k]) - 4 =>
    \E y \in DOMAIN modules :
      /\ l.value = modules[y].name
      /\ GlobalAt(x, k) >= modules[y].top - modules[y].size /\ GlobalAt(x, k) < modules[y].top

LEMMA GlobalsAreOwned ==
  ASSUME Built, status # "program", listings = AbsoluteListings,
         NEW x \in 1 .. Len(modules), NEW k \in 1 .. Len(modules[x].procs), NEW i \in 1 .. Len(Listing(x))
  PROVE  GlobalTrue(x, k, listings[x][i])
<1> DEFINE l == listings[x][i]
           at == PlaceOf(modules[x], k) + Size(modules[x].procs[k]) - 4
<1>1. SUFFICES ASSUME l.kind = "global", l.at = at
      PROVE \E y \in DOMAIN modules :
        /\ l.value = modules[y].name
        /\ GlobalAt(x, k) >= modules[y].top - modules[y].size /\ GlobalAt(x, k) < modules[y].top
  BY DEF GlobalTrue
<1>2. l = Absolute(x, Listing(x)[i])
  BY AbsoluteLine
<1>3. PICK j \in 1 .. Len(modules[x].procs) : \E r \in 1 .. Len(Compiled(x, j)) : Listing(x)[i] = Compiled(x, j)[r]
  BY LineIs
<1>4. PICK r \in 1 .. Len(Compiled(x, j)) : l = Absolute(x, Compiled(x, j)[r])
  BY <1>2, <1>3
<1> DEFINE bt == PlaceOf(modules[x], j) + Size(modules[x].procs[j]) - 4
           d == Heads(x, j)
           n == CallsOfProc(x, j)
           q == PlaceOf(modules[x], j)
           c == modules[x].procs[j].calls
<1> HIDE DEF l
<1>5. l = Row("global", bt, OwnerOf(GlobalAt(x, j)))
  <2>1. \/ r <= d /\ l = Row("procedure", 0, Declared(modules[x], j)[r])
        \/ r = d + 1 /\ l = Row("other", q, <<>>)
        \/ r > d + 1 /\ \E a \in 1 .. n : l = Row("call", q + 4 * a, EncodeBl(q + 4 * a, CalleeAt(c[a])))
        \/ r > d + 1 /\ r = Len(Compiled(x, j))
           /\ l = Row("global", q + Size(modules[x].procs[j]) - 4, OwnerOf(GlobalAt(x, j)))
    BY <1>4, RowIs
  <2> HIDE DEF d, q, n, c
  <2>2. l = Row("global", q + Size(modules[x].procs[j]) - 4, OwnerOf(GlobalAt(x, j)))
    BY <1>1, <2>1 DEF Row
  <2> QED BY <2>2 DEF q
<1>6. bt = at
  BY <1>1, <1>5 DEF Row
<1>7. ASSUME NEW a \in 1 .. Len(modules[x].procs)
      PROVE  LET t == PlaceOf(modules[x], a) + Size(modules[x].procs[a]) - 4 IN
        t \in Int /\ PlaceOf(modules[x], a) <= t /\ t < PlaceOf(modules[x], a) + Size(modules[x].procs[a])
  <2> DEFINE u == PlaceOf(modules[x], a)
             v == Size(modules[x].procs[a])
             w == CallsOfProc(x, a)
  <2>1. u \in Nat /\ w \in Nat /\ v = 8 + 4 * w
    BY StartIs, ProcedureIs
  <2> HIDE DEF u, v, w
  <2>2. u + v - 4 \in Int /\ u <= u + v - 4 /\ u + v - 4 < u + v
    BY <2>1
  <2> QED BY <2>2 DEF u, v
<1>8. k = j
  <2>1. /\ at \in Int /\ PlaceOf(modules[x], k) <= at /\ at < PlaceOf(modules[x], k) + Size(modules[x].procs[k])
    BY <1>7
  <2>2. PlaceOf(modules[x], j) <= at /\ at < PlaceOf(modules[x], j) + Size(modules[x].procs[j])
    BY <1>6, <1>7
  <2> HIDE DEF at
  <2>3. Inside(x, k, at) /\ Inside(x, j, at)
    BY <2>1, <2>2 DEF Inside
  <2> QED BY <2>1, <2>3, PlacesApart
<1>9. PICK y \in 1 .. Len(modules) : /\ OwnerOf(GlobalAt(x, k)) = modules[y].name
                                    /\ GlobalAt(x, k) = modules[y].top - modules[y].size
  BY OwnerIs
<1>10. /\ modules[y].top \in Int /\ modules[y].size \in Int /\ modules[y].size >= 4 /\ y \in DOMAIN modules
  BY ModuleIs
<1>11. l.value = modules[y].name
  BY <1>5, <1>8, <1>9 DEF Row
<1>12. GlobalAt(x, k) >= modules[y].top - modules[y].size /\ GlobalAt(x, k) < modules[y].top
  <2> DEFINE u == modules[y].top
             v == modules[y].size
             g == GlobalAt(x, k)
  <2>1. u \in Int /\ v \in Int /\ v >= 4 /\ g = u - v
    BY <1>9, <1>10
  <2> HIDE DEF u, v, g
  <2>2. g >= u - v /\ g < u
    BY <2>1
  <2> QED BY <2>2 DEF u, v, g
<1> QED BY <1>10, <1>11, <1>12

\* The listings with the names in
LEMMA PatchedLine ==
  ASSUME Built, status # "program", listings = AbsoluteListings,
         NEW x \in 1 .. Len(modules), NEW i \in 1 .. Len(Listing(x))
  PROVE  LET w == WithName(ProcDb, x, listings[x][i]) IN
         CallTrue(x, w) /\ \A k \in 1 .. Len(modules[x].procs) : GlobalTrue(x, k, w)
<1> DEFINE l == listings[x][i]
           w == WithName(ProcDb, x, l)
<1>2. l = Absolute(x, Listing(x)[i])
  BY AbsoluteLine
<1>3. PICK j \in 1 .. Len(modules[x].procs) : \E r \in 1 .. Len(Compiled(x, j)) : Listing(x)[i] = Compiled(x, j)[r]
  BY LineIs
<1>4. PICK r \in 1 .. Len(Compiled(x, j)) : l = Absolute(x, Compiled(x, j)[r])
  BY <1>2, <1>3
<1> HIDE DEF l
<1>5. CASE l.kind # "call"
  <2>1. w = l
    BY <1>5 DEF WithName
  <2>2. l.kind \notin {"call", "named call"}
    <3> DEFINE d == Heads(x, j)
               n == CallsOfProc(x, j)
               q == PlaceOf(modules[x], j)
               c == modules[x].procs[j].calls
    <3>1. \/ r <= d /\ l = Row("procedure", 0, Declared(modules[x], j)[r])
          \/ r = d + 1 /\ l = Row("other", q, <<>>)
          \/ r > d + 1 /\ \E a \in 1 .. n : l = Row("call", q + 4 * a, EncodeBl(q + 4 * a, CalleeAt(c[a])))
          \/ r > d + 1 /\ r = Len(Compiled(x, j))
             /\ l = Row("global", q + Size(modules[x].procs[j]) - 4, OwnerOf(GlobalAt(x, j)))
      BY <1>4, RowIs
    <3> HIDE DEF d, q, n, c
    <3>2. l.kind \in {"procedure", "other", "call", "global"}
      BY <3>1 DEF Row
    <3> QED BY <1>5, <3>2
  <2> HIDE DEF w
  <2>3. CallTrue(x, w)
    BY <2>1, <2>2 DEF CallTrue
  <2>4. \A k \in 1 .. Len(modules[x].procs) : GlobalTrue(x, k, w)
    BY <2>1, GlobalsAreOwned DEF l
  <2> QED BY <2>3, <2>4 DEF w, l
<1>6. CASE l.kind = "call"
  <2>1. PICK a \in 1 .. CallsOfProc(x, j) : l = CallOf(x, j, a)
    <3> DEFINE d == Heads(x, j)
               n == CallsOfProc(x, j)
               q == PlaceOf(modules[x], j)
               c == modules[x].procs[j].calls
    <3>1. \/ r <= d /\ l = Row("procedure", 0, Declared(modules[x], j)[r])
          \/ r = d + 1 /\ l = Row("other", q, <<>>)
          \/ r > d + 1 /\ \E a \in 1 .. n : l = Row("call", q + 4 * a, EncodeBl(q + 4 * a, CalleeAt(c[a])))
          \/ r > d + 1 /\ r = Len(Compiled(x, j))
             /\ l = Row("global", q + Size(modules[x].procs[j]) - 4, OwnerOf(GlobalAt(x, j)))
      BY <1>4, RowIs
    <3> HIDE DEF d, q, n, c
    <3>2. \E a \in 1 .. n : l = Row("call", q + 4 * a, EncodeBl(q + 4 * a, CalleeAt(c[a])))
      BY <1>6, <3>1 DEF Row
    <3> QED BY <3>2 DEF n, q, c, CallOf
  <2> DEFINE c == modules[x].procs[j].calls[a]
             at == PlaceOf(modules[x], j) + 4 * a
  <2>2. w = IF Heads(c[1], c[2]) = 0 THEN l ELSE Row("named call", l.at, NameOf(x, c))
    BY <2>1, CallNamed
  <2>3. l.at = at /\ CallAt(at).to = c
    <3>1. a \in 1 .. Len(modules[x].procs[j].calls)
      BY DEF CallsOfProc
    <3>2. CallAt(at).to = c
      BY <3>1, CallAtIs
    <3>3. l.at = at
      BY <2>1 DEF CallOf, Row
    <3> QED BY <3>2, <3>3
  <2>4. /\ c[1] \in 1 .. Len(modules) /\ c[2] \in 1 .. Len(modules[c[1]].procs)
    <3>1. a \in 1 .. Len(modules[x].procs[j].calls)
      BY DEF CallsOfProc
    <3> QED BY <3>1, CallIs
  <2>5. Heads(c[1], c[2]) = 0 <=> c[2] > 1 /\ modules[c[1]].procs[c[2] - 1].inner
    BY <2>4, DeclaredIs DEF Heads
  <2> HIDE DEF w, c, at
  <2>6. CASE Heads(c[1], c[2]) = 0
    <3>1. w = l /\ w.kind = "call"
      BY <1>6, <2>2, <2>6
    <3>2. CallTrue(x, w)
      BY <2>3, <2>5, <2>6, <3>1 DEF CallTrue
    <3>3. \A k \in 1 .. Len(modules[x].procs) : GlobalTrue(x, k, w)
      BY <3>1 DEF GlobalTrue
    <3> QED BY <3>2, <3>3 DEF w, l
  <2>7. CASE Heads(c[1], c[2]) # 0
    <3>1. w.kind = "named call" /\ w.at = at /\ w.value = NameOf(x, c)
      BY <2>2, <2>3, <2>7 DEF Row
    <3>2. CallTrue(x, w)
      BY <2>3, <3>1 DEF CallTrue, NameOf
    <3>3. \A k \in 1 .. Len(modules[x].procs) : GlobalTrue(x, k, w)
      BY <3>1 DEF GlobalTrue
    <3> QED BY <3>2, <3>3 DEF w, l
  <2> QED BY <2>6, <2>7
<1> QED BY <1>5, <1>6

-----------------------------------------------------------------------------
\* A step that leaves the program leaves what is read from it
LEMMA SameProgram ==
  ASSUME modules' = modules
  PROVE  /\ AbsoluteListings' = AbsoluteListings /\ CodeEnd' = CodeEnd
         /\ \A at : CallAt(at)' = CallAt(at)
         /\ \A x, k : GlobalAt(x, k)' = GlobalAt(x, k)
         /\ \A x, l : CallTrue(x, l)' = CallTrue(x, l)
         /\ \A x, k, l : GlobalTrue(x, k, l)' = GlobalTrue(x, k, l)
<1>1. ASSUME NEW c PROVE CalleeAt(c)' = CalleeAt(c)
  BY DEF CalleeAt
<1>2. ASSUME NEW x, NEW k PROVE CallsIn(x, k)' = CallsIn(x, k)
  BY DEF CallsIn
<1>3. AllCalls' = AllCalls
  BY <1>2 DEF AllCalls
<1>4. ASSUME NEW at PROVE CallAt(at)' = CallAt(at)
  BY <1>3 DEF CallAt
<1>5. ASSUME NEW x, NEW k PROVE GlobalAt(x, k)' = GlobalAt(x, k)
  BY DEF GlobalAt
<1>6. ASSUME NEW a PROVE OwnerOf(a)' = OwnerOf(a)
  BY DEF OwnerOf
<1>7. ASSUME NEW x, NEW at PROVE ProcedureAt(x, at)' = ProcedureAt(x, at)
  BY DEF ProcedureAt
<1>8. ASSUME NEW x, NEW l PROVE Absolute(x, l)' = Absolute(x, l)
  BY <1>1, <1>4, <1>5, <1>6, <1>7 DEF Absolute
<1>9. ASSUME NEW x, NEW k PROVE Compiled(x, k)' = Compiled(x, k)
  BY <1>1 DEF Compiled
<1>10. ASSUME NEW x PROVE Listing(x)' = Listing(x)
  BY <1>9 DEF Listing
<1>11. AbsoluteListings' = AbsoluteListings
  BY <1>8, <1>10 DEF AbsoluteListings
<1>12. CodeEnd' = CodeEnd
  BY DEF CodeEnd
<1>13. ASSUME NEW x, NEW l PROVE CallTrue(x, l)' = CallTrue(x, l)
  BY <1>4 DEF CallTrue
<1>14. ASSUME NEW x, NEW k, NEW l PROVE GlobalTrue(x, k, l)' = GlobalTrue(x, k, l)
  BY <1>5 DEF GlobalTrue
<1> QED BY <1>4, <1>5, <1>11, <1>12, <1>13, <1>14

LEMMA LengthFits ==
  ASSUME Built, NEW x \in 1 .. Len(modules)
  PROVE  Length(modules[x].procs) \in Nat /\ Length(modules[x].procs) <= Most
<1> DEFINE ps == modules[x].procs
           each == 8 + 4 * MaxCalls
<1>1. ps \in Seq(ProcType) /\ Len(ps) \in Nat /\ Length(ps) \in Nat
  BY ModuleIs
<1>2. Len(ps) <= Len(ProcNames) /\ \A k \in 1 .. Len(ps) : Len(ps[k].calls) <= MaxCalls
  BY DEF Built, Linked, Lawful
<1>3. Length(ps) <= Len(ps) * each
  BY <1>1, <1>2, LengthBound
<1>4. Len(ps) * each \in Int /\ Len(ps) * each <= Len(ProcNames) * each /\ Len(ProcNames) * each \in Int
  <2>1. Len(ps) \in Int /\ each \in Int /\ each >= 0 /\ Len(ProcNames) \in Int
    BY <1>1, Limits
  <2> HIDE DEF ps, each
  <2> QED BY <1>2, <2>1, Products
<1>5. Len(ProcNames) * each = Most
  BY DEF Most
<1> HIDE DEF ps, each
<1>6. Length(ps) <= Most
  BY <1>1, <1>3, <1>4, <1>5
<1> QED BY <1>1, <1>6 DEF ps

\* Where the next module goes
Before == IF modules = <<>> THEN [base |-> 0, procs |-> <<>>, top |-> DataTop, size |-> 0] ELSE Last(modules)

LEMMA NextPlace ==
  ASSUME Built, NEW gap \in IF modules = <<>> THEN {0} ELSE Gaps
  PROVE  LET nb == Before.base + Length(Before.procs) + gap
             nt == Before.top - Before.size
             n == Len(modules) IN
         /\ n \in Nat /\ nb \in Nat /\ nb % 2 = 0 /\ nb <= n * (MaxGap + Most)
         /\ nt \in Int /\ nt >= DataTop - n * MaxSize
         /\ \A y \in 1 .. n : modules[y].base + Length(modules[y].procs) <= nb /\ nt <= modules[y].top - modules[y].size
<1> DEFINE nb == Before.base + Length(Before.procs) + gap
           nt == Before.top - Before.size
           n == Len(modules)
<1>0. modules \in Seq(ModType) /\ n \in Nat
  BY DEF Built, Linked
<1>1. CASE modules = <<>>
  <2>1. n = 0 /\ gap = 0 /\ Before = [base |-> 0, procs |-> <<>>, top |-> DataTop, size |-> 0]
    BY <1>1 DEF Before
  <2>2. Length(<<>>) = 0
    <3>1. <<>> \in Seq(ProcType) /\ SubSeq(<<>>, 1, 0) = <<>>
      OBVIOUS
    <3> QED BY <3>1, Lengths DEF Until
  <2>3. nb = 0 /\ nt = DataTop
    BY <2>1, <2>2, Limits
  <2>4. 0 * (MaxGap + Most) = 0 /\ 0 * MaxSize = 0
    BY Limits
  <2> HIDE DEF nb, nt, n
  <2> QED BY <2>1, <2>3, <2>4, Limits DEF nb, nt, n
<1>2. CASE modules # <<>>
  <2>1. n \in 1 .. n /\ Before = modules[n] /\ gap \in Gaps
    BY <1>0, <1>2 DEF Before, Last
  <2> DEFINE b == modules[n].base
             l == Length(modules[n].procs)
             t == modules[n].top
             z == modules[n].size
  <2>2. /\ b \in Nat /\ b % 2 = 0 /\ l \in Nat /\ l % 2 = 0 /\ t \in Int /\ z \in Int /\ z >= 4
    BY <2>1, ModuleIs
  <2>3. l <= Most
    BY <2>1, LengthFits
  <2>4. gap \in Int /\ 0 <= gap /\ gap <= MaxGap /\ gap % 2 = 0 /\ MaxGap \in Nat /\ Most \in Nat /\ MaxSize \in Nat /\ DataTop \in Int
    BY <2>1, Limits
  <2>5. b <= (n - 1) * (MaxGap + Most) /\ z <= MaxSize /\ t >= DataTop - (n - 1) * MaxSize
    BY <2>1 DEF Built, Linked, Layout
  <2>6. nb = b + l + gap /\ nt = t - z
    BY <2>1
  <2>7. /\ (n - 1) * (MaxGap + Most) = n * (MaxGap + Most) - (MaxGap + Most) /\ n * (MaxGap + Most) \in Int
        /\ (n - 1) * MaxSize = n * MaxSize - MaxSize /\ n * MaxSize \in Int
    <3>1. MaxGap + Most \in Int /\ n \in Int /\ MaxSize \in Int
      BY <1>0, <2>4
    <3> HIDE DEF n
    <3> QED BY <3>1, Products
  <2> HIDE DEF b, l, t, z, nb, nt
  <2>8. nb \in Nat /\ nb % 2 = 0 /\ nt \in Int
    <3>1. nb \in Nat /\ nt \in Int
      BY <2>2, <2>4, <2>6
    <3>2. (b + l + gap) % 2 = 0
      BY <2>2, <2>4
    <3> QED BY <2>6, <3>1, <3>2
  <2>9. nb <= n * (MaxGap + Most) /\ nt >= DataTop - n * MaxSize
    <3> DEFINE u == n * (MaxGap + Most)
               v == n * MaxSize
    <3>1. u \in Int /\ v \in Int /\ b <= u - (MaxGap + Most) /\ t >= DataTop - (v - MaxSize)
      BY <2>5, <2>7
    <3> HIDE DEF u, v
    <3>2. nb <= u /\ nt >= DataTop - v
      BY <2>2, <2>3, <2>4, <2>5, <2>6, <3>1
    <3> QED BY <3>2 DEF u, v
  <2>10. ASSUME NEW y \in 1 .. n
         PROVE  modules[y].base + Length(modules[y].procs) <= nb /\ nt <= modules[y].top - modules[y].size
    <3>1. CASE y = n
      <4>1. b + l <= nb /\ nt <= t - z
        BY <2>2, <2>4, <2>6
      <4> QED BY <3>1, <4>1 DEF b, l, t, z
    <3>2. CASE y # n
      <4>1. y \in 1 .. n - 1
        BY <1>0, <3>2
      <4>2. Behind(modules[y], modules[n])
        BY <2>1, <4>1 DEF Built, Linked
      <4> DEFINE ey == modules[y].base + Length(modules[y].procs)
                 dy == modules[y].top - modules[y].size
      <4>3. ey <= b /\ t <= dy /\ ey \in Nat /\ dy \in Int
        <5>1. /\ modules[y].base \in Nat /\ Length(modules[y].procs) \in Nat /\ modules[y].top \in Int /\ modules[y].size \in Int
          BY ModuleIs
        <5> QED BY <4>2, <5>1 DEF Behind, b, t
      <4> HIDE DEF ey, dy
      <4>4. ey <= nb /\ nt <= dy
        BY <2>2, <2>4, <2>6, <4>3
      <4> QED BY <4>4 DEF ey, dy
    <3> QED BY <3>1, <3>2
  <2> QED BY <1>0, <2>8, <2>9, <2>10 DEF nb, nt
<1> QED BY <1>1, <1>2

LEMMA ModuleIsAdded ==
  ASSUME Built, AddModule
  PROVE  Built'
<1> DEFINE n == Len(modules)
<1>1. /\ status = "program" /\ status' = "program" /\ n < Len(ModuleNames)
      /\ \A m \in Range(modules) : m.procs # <<>> /\ ~Last(m.procs).inner
  BY DEF AddModule
<1>2. PICK gap \in IF modules = <<>> THEN {0} ELSE Gaps, z \in DataSizes :
        modules' = Append(modules, [name |-> ModuleNames[n + 1], base |-> Before.base + Length(Before.procs) + gap,
                                    top |-> Before.top - Before.size, size |-> z, procs |-> <<>>])
  BY DEF AddModule, Before
<1> DEFINE nb == Before.base + Length(Before.procs) + gap
           nt == Before.top - Before.size
           new == [name |-> ModuleNames[n + 1], base |-> nb, top |-> nt, size |-> z, procs |-> <<>>]
<1>3. /\ n \in Nat /\ nb \in Nat /\ nb % 2 = 0 /\ nb <= n * (MaxGap + Most)
      /\ nt \in Int /\ nt >= DataTop - n * MaxSize
      /\ \A y \in 1 .. n : modules[y].base + Length(modules[y].procs) <= nb /\ nt <= modules[y].top - modules[y].size
  BY NextPlace
<1> HIDE DEF nb, nt
<1>4. z \in Int /\ 4 <= z /\ z <= MaxSize
  BY Limits
<1>5. modules \in Seq(ModType) /\ DOMAIN modules = 1 .. n
  BY DEF Built, Linked
<1>6. ModuleNames[n + 1] \in Range(ModuleNames)
  <2>1. ModuleNames \in Seq(Range(ModuleNames))
    BY RdbAssumption, Zenon DEF Different
  <2>2. n + 1 \in 1 .. Len(ModuleNames) /\ DOMAIN ModuleNames = 1 .. Len(ModuleNames)
    BY <1>1, <1>3, <2>1
  <2> HIDE DEF n
  <2> QED BY <2>2 DEF Range
<1>7. new \in ModType
  BY <1>3, <1>4, <1>6 DEF ModType
<1>8. modules' = Append(modules, new)
  BY <1>2 DEF nb, nt
<1>81. /\ new.name = ModuleNames[n + 1] /\ new.base = nb /\ new.top = nt /\ new.size = z /\ Len(new.procs) = 0
  OBVIOUS
<1> HIDE DEF new
<1> DEFINE ms == modules'
<1>9. /\ ms \in Seq(ModType) /\ Len(ms) = n + 1 /\ ms[n + 1] = new
      /\ \A y \in 1 .. n : ms[y] = modules[y]
  BY <1>5, <1>7, <1>8
<1> HIDE DEF ms
<1>10. Len(ms) <= Len(ModuleNames)
  BY <1>1, <1>3, <1>9, Limits
<1>11. ASSUME NEW x \in 1 .. n
       PROVE  /\ ms[x].name = ModuleNames[x] /\ Lawful(ms, x) /\ Layout(ms[x], x)
              /\ Complete(ms[x])
              /\ \A y \in 1 .. x - 1 : Behind(ms[y], ms[x])
  <2>1. /\ modules[x].name = ModuleNames[x] /\ Lawful(modules, x) /\ Layout(modules[x], x)
        /\ \A y \in 1 .. x - 1 : Behind(modules[y], modules[x])
    BY DEF Built, Linked
  <2>2. ms[x] = modules[x] /\ \A y \in 1 .. x : y \in 1 .. n /\ ms[y] = modules[y]
    BY <1>3, <1>9
  <2>3. Lawful(ms, x)
    BY <2>1, <2>2 DEF Lawful
  <2>4. Complete(ms[x])
    <3>1. modules[x].procs # <<>> /\ ~Last(modules[x].procs).inner
      BY <1>1, <1>5 DEF Range
    <3> QED BY <2>2, <3>1 DEF Complete, Last
  <2>5. \A y \in 1 .. x - 1 : y \in 1 .. x
    OBVIOUS
  <2> QED BY <2>1, <2>2, <2>3, <2>4, <2>5
<1>12. /\ new.name = ModuleNames[n + 1] /\ Lawful(ms, n + 1) /\ Layout(new, n + 1)
       /\ \A y \in 1 .. n : Behind(modules[y], new)
  <2>1. Lawful(ms, n + 1)
    <3>1. Len(ProcNames) \in Nat /\ Len(ms[n + 1].procs) = 0
      BY <1>9, <1>81, Limits
    <3> QED BY <3>1 DEF Lawful
  <2>2. Layout(new, n + 1)
    <3>1. (n + 1) - 1 = n
      BY <1>3
    <3> QED BY <1>3, <1>4, <1>81, <3>1 DEF Layout
  <2>3. \A y \in 1 .. n : Behind(modules[y], new)
    BY <1>3, <1>81 DEF Behind
  <2> QED BY <1>81, <2>1, <2>2, <2>3
<1>13. ASSUME NEW x \in 1 .. Len(ms)
       PROVE  /\ ms[x].name = ModuleNames[x] /\ Lawful(ms, x) /\ Layout(ms[x], x)
              /\ x < Len(ms) => Complete(ms[x])
              /\ \A y \in 1 .. x - 1 : Behind(ms[y], ms[x])
  <2>1. CASE x \in 1 .. n
    BY <1>11, <2>1
  <2>2. CASE x = n + 1
    <3>1. ~(x < Len(ms)) /\ x - 1 = n
      BY <1>3, <1>9, <2>2
    <3> QED BY <1>9, <1>12, <2>2, <3>1
  <2>3. x \in 1 .. n \/ x = n + 1
    BY <1>3, <1>9
  <2> QED BY <2>1, <2>2, <2>3
<1>14. Linked(ms)
  BY <1>9, <1>10, <1>13 DEF Linked
<1>15. Linked(modules')
  BY <1>14 DEF ms
<1> QED BY <1>1, <1>15 DEF Built

LEMMA ProcedureIsAdded ==
  ASSUME Built, AddProcedure
  PROVE  Built'
<1> DEFINE x == Len(modules)
           procs == Last(modules).procs
           k == Len(procs) + 1
<1>1. status = "program" /\ status' = "program" /\ modules # <<>> /\ k <= Len(ProcNames)
  BY DEF AddProcedure
<1>2. PICK calls \in BoundedSeq(Callees(x, k), MaxCalls), inner \in BOOLEAN :
        /\ inner => k < Len(ProcNames) /\ ~(k > 1 /\ procs[k - 1].inner)
        /\ modules' = [modules EXCEPT ![x].procs =
                         Append(@, [name |-> ProcNames[k], calls |-> calls, inner |-> inner])]
  BY DEF AddProcedure
<1> DEFINE new == [name |-> ProcNames[k], calls |-> calls, inner |-> inner]
           ms == modules'
<1>4. modules \in Seq(ModType) /\ x \in Nat /\ DOMAIN modules = 1 .. x /\ x \in 1 .. x
  BY <1>1 DEF Built, Linked
<1>5. procs = modules[x].procs /\ procs \in Seq(ProcType) /\ Len(procs) \in Nat /\ k \in 1 .. Len(ProcNames)
  <2>1. Last(modules) = modules[x]
    BY DEF Last
  <2>2. modules[x].procs \in Seq(ProcType)
    <3>1. modules[x] \in ModType
      BY <1>4
    <3> HIDE DEF x
    <3> QED BY <3>1 DEF ModType
  <2>3. procs \in Seq(ProcType) /\ Len(procs) \in Nat
    BY <2>1, <2>2
  <2>4. Len(ProcNames) \in Nat
    BY Limits
  <2> QED BY <1>1, <2>1, <2>3, <2>4
<1> HIDE DEF procs
<1>6. PICK n \in 0 .. MaxCalls : calls \in [1 .. n -> Callees(x, k)]
  BY DEF BoundedSeq, SeqOf
<1>7. /\ calls \in Seq(Callee) /\ Len(calls) <= MaxCalls
      /\ \A i \in 1 .. Len(calls) :
           /\ calls[i][1] \in 1 .. x /\ calls[i][2] \in Nat /\ calls[i][2] >= 1
           /\ IF calls[i][1] = x THEN calls[i][2] <= k ELSE calls[i][2] <= Len(modules[calls[i][1]].procs)
  <2>1. MaxCalls \in Nat /\ x <= Len(ModuleNames) /\ Len(ModuleNames) \in Nat /\ Len(ProcNames) \in Nat
    BY Limits DEF Built, Linked
  <2>2. ASSUME NEW c \in Callees(x, k)
        PROVE  /\ c \in Callee /\ c[1] \in 1 .. x /\ c[2] \in 1 .. Len(ProcNames)
               /\ IF c[1] = x THEN c[2] <= k ELSE c[2] <= Len(modules[c[1]].procs)
    <3>1. c \in (DOMAIN modules) \X (1 .. Len(ProcNames)) /\ c[2] <= IF c[1] = x THEN k ELSE Len(modules[c[1]].procs)
      BY DEF Callees
    <3>2. c[1] \in 1 .. x /\ c[2] \in 1 .. Len(ProcNames) /\ c = <<c[1], c[2]>>
      BY <1>4, <3>1
    <3>3. c \in Callee
      BY <1>4, <2>1, <3>2 DEF Callee
    <3> QED BY <3>1, <3>2, <3>3
  <2> HIDE DEF x, k
  <2>3. Len(calls) = n /\ n <= MaxCalls /\ \A i \in 1 .. n : calls[i] \in Callees(x, k)
    BY <1>6, <2>1
  <2>4. calls \in Seq(Callees(x, k))
    BY <1>6, <2>1
  <2>5. calls \in Seq(Callee)
    BY <2>2, <2>4
  <2>6. ASSUME NEW i \in 1 .. Len(calls)
        PROVE  /\ calls[i][1] \in 1 .. x /\ calls[i][2] \in Nat /\ calls[i][2] >= 1
               /\ IF calls[i][1] = x THEN calls[i][2] <= k ELSE calls[i][2] <= Len(modules[calls[i][1]].procs)
    <3>1. calls[i] \in Callees(x, k)
      BY <2>3
    <3> QED BY <2>1, <2>2, <3>1
  <2> QED BY <2>3, <2>5, <2>6
<1>8. ProcNames[k] \in Range(ProcNames)
  <2>1. ProcNames \in Seq(Range(ProcNames))
    BY RdbAssumption, Zenon DEF Different
  <2>2. DOMAIN ProcNames = 1 .. Len(ProcNames)
    BY <2>1
  <2> HIDE DEF k
  <2> QED BY <1>5, <2>2 DEF Range
<1>9. new \in ProcType /\ new.name = ProcNames[k] /\ new.calls = calls /\ new.inner = inner
  BY <1>7, <1>8 DEF ProcType
<1> HIDE DEF new
<1>10. ms = [modules EXCEPT ![x].procs = Append(@, new)]
  BY <1>2 DEF new
<1> DEFINE qs == Append(procs, new)
<1>11. /\ qs \in Seq(ProcType) /\ Len(qs) = k /\ qs[k] = new /\ \A j \in 1 .. Len(procs) : qs[j] = procs[j]
  BY <1>5, <1>9
<1>12. /\ ms \in Seq(ModType) /\ Len(ms) = x /\ ms[x].procs = qs
       /\ \A y \in 1 .. x : y # x => ms[y] = modules[y]
       /\ \A y \in 1 .. x : /\ ms[y].name = modules[y].name /\ ms[y].base = modules[y].base
                             /\ ms[y].top = modules[y].top /\ ms[y].size = modules[y].size
  <2>0. ms = [modules EXCEPT ![x] = [modules[x] EXCEPT !.procs = qs]]
    BY <1>4, <1>5, <1>10
  <2> DEFINE m == [modules[x] EXCEPT !.procs = qs]
  <2>1. m \in ModType /\ m.procs = qs /\ m.name = modules[x].name /\ m.base = modules[x].base
        /\ m.top = modules[x].top /\ m.size = modules[x].size
    <3>1. modules[x] \in ModType
      BY <1>4
    <3> HIDE DEF qs
    <3> QED BY <1>11, <3>1 DEF ModType
  <2> HIDE DEF m, ms
  <2>2. ms = [modules EXCEPT ![x] = m]
    BY <2>0 DEF m
  <2>3. /\ ms \in Seq(ModType) /\ Len(ms) = x /\ ms[x] = m /\ \A y \in 1 .. x : y # x => ms[y] = modules[y]
    <3> HIDE DEF x
    <3> QED BY <1>4, <2>1, <2>2
  <2> QED BY <2>1, <2>3
<1> HIDE DEF ms, qs
<1>13. /\ \A y \in 1 .. x : /\ modules[y].name = ModuleNames[y] /\ Lawful(modules, y) /\ Layout(modules[y], y)
                             /\ \A z \in 1 .. y - 1 : Behind(modules[z], modules[y])
       /\ \A y \in 1 .. x : y < x => Complete(modules[y])
  BY DEF Built, Linked
<1>14. \A y \in 1 .. x : Len(ms[y].procs) \in Nat /\ Len(ms[y].procs) >= Len(modules[y].procs) /\ Len(modules[y].procs) \in Nat
  <2>1. ASSUME NEW y \in 1 .. x
        PROVE  Len(ms[y].procs) \in Nat /\ Len(ms[y].procs) >= Len(modules[y].procs) /\ Len(modules[y].procs) \in Nat
    <3>1. Len(modules[y].procs) \in Nat
      BY ModuleIs
    <3>2. CASE y = x
      BY <1>5, <1>11, <1>12, <3>1, <3>2
    <3>3. CASE y # x
      BY <1>12, <3>1, <3>3
    <3> QED BY <3>2, <3>3
  <2> QED BY <2>1
<1>15. ASSUME NEW y \in 1 .. x, y # x PROVE Lawful(ms, y)
  <2>1. ms[y] = modules[y] /\ Lawful(modules, y)
    BY <1>12, <1>13, <1>15
  <2>2. \A z \in 1 .. y : z \in 1 .. x /\ ms[z] = modules[z]
    <3> HIDE DEF x
    <3>1. \A z \in 1 .. y : z \in 1 .. x /\ z # x
      BY <1>4, <1>15
    <3> QED BY <1>12, <3>1
  <2> QED BY <2>1, <2>2 DEF Lawful
<1>16. Lawful(ms, x)
  <2>0. Lawful(modules, x)
    BY <1>4, <1>13
  <2>1. ASSUME NEW j \in 1 .. Len(procs)
        PROVE  /\ qs[j].name = ProcNames[j] /\ Len(qs[j].calls) <= MaxCalls
               /\ qs[j].inner /\ j > 1 => ~qs[j - 1].inner
               /\ \A i \in 1 .. Len(qs[j].calls) :
                    qs[j].calls[i][1] \in 1 .. x /\ qs[j].calls[i][2] \in 1 .. Len(ms[qs[j].calls[i][1]].procs)
    <3>1. qs[j] = procs[j] /\ (j > 1 => qs[j - 1] = procs[j - 1])
      BY <1>5, <1>11
    <3>2. /\ procs[j].name = ProcNames[j] /\ Len(procs[j].calls) <= MaxCalls
          /\ procs[j].inner /\ j > 1 => ~procs[j - 1].inner
          /\ \A i \in 1 .. Len(procs[j].calls) :
               procs[j].calls[i][1] \in 1 .. x /\ procs[j].calls[i][2] \in 1 .. Len(modules[procs[j].calls[i][1]].procs)
      BY <1>5, <2>0 DEF Lawful
    <3>3. ASSUME NEW i \in 1 .. Len(procs[j].calls)
          PROVE  procs[j].calls[i][1] \in 1 .. x /\ procs[j].calls[i][2] \in 1 .. Len(ms[procs[j].calls[i][1]].procs)
      <4> DEFINE a == procs[j].calls[i][1]
                 b == procs[j].calls[i][2]
      <4>1. a \in 1 .. x /\ b \in 1 .. Len(modules[a].procs)
        BY <3>2
      <4> HIDE DEF a, b
      <4>2. b \in 1 .. Len(ms[a].procs)
        BY <1>14, <4>1
      <4> QED BY <4>1, <4>2 DEF a, b
    <3> QED BY <3>1, <3>2, <3>3
  <2>2. /\ qs[k].name = ProcNames[k] /\ Len(qs[k].calls) <= MaxCalls
        /\ qs[k].inner /\ k > 1 => ~qs[k - 1].inner
        /\ \A i \in 1 .. Len(qs[k].calls) :
             qs[k].calls[i][1] \in 1 .. x /\ qs[k].calls[i][2] \in 1 .. Len(ms[qs[k].calls[i][1]].procs)
    <3>1. qs[k].name = ProcNames[k] /\ qs[k].calls = calls /\ qs[k].inner = inner
      BY <1>9, <1>11
    <3>2. k > 1 => qs[k - 1] = procs[k - 1]
      <4>1. k > 1 => k - 1 \in 1 .. Len(procs)
        BY <1>5
      <4> HIDE DEF k
      <4> QED BY <1>11, <4>1
    <3>3. ASSUME NEW i \in 1 .. Len(calls)
          PROVE  calls[i][1] \in 1 .. x /\ calls[i][2] \in 1 .. Len(ms[calls[i][1]].procs)
      <4> DEFINE a == calls[i][1]
                 b == calls[i][2]
      <4>1. /\ a \in 1 .. x /\ b \in Nat /\ b >= 1
            /\ IF a = x THEN b <= k ELSE b <= Len(modules[a].procs)
        BY <1>7
      <4>2. Len(ms[x].procs) = k
        BY <1>11, <1>12
      <4> HIDE DEF a, b, k
      <4>3. b <= Len(ms[a].procs) /\ Len(ms[a].procs) \in Nat
        BY <1>14, <4>1, <4>2
      <4> QED BY <4>1, <4>3 DEF a, b
    <3> QED BY <1>2, <1>7, <3>1, <3>2, <3>3
  <2>3. \A j \in 1 .. k : j \in 1 .. Len(procs) \/ j = k
    BY <1>5
  <2>4. Len(ms[x].procs) = k /\ ms[x].procs = qs /\ k <= Len(ProcNames)
    BY <1>1, <1>11, <1>12
  <2>5. ASSUME NEW j \in 1 .. k
        PROVE  /\ qs[j].name = ProcNames[j] /\ Len(qs[j].calls) <= MaxCalls
               /\ qs[j].inner /\ j > 1 => ~qs[j - 1].inner
               /\ \A i \in 1 .. Len(qs[j].calls) :
                    qs[j].calls[i][1] \in 1 .. x /\ qs[j].calls[i][2] \in 1 .. Len(ms[qs[j].calls[i][1]].procs)
    <3>1. CASE j \in 1 .. Len(procs)
      BY <2>1, <3>1
    <3>2. CASE j = k
      BY <2>2, <3>2
    <3> QED BY <2>3, <3>1, <3>2
  <2> HIDE DEF k
  <2> QED BY <2>4, <2>5 DEF Lawful
<1>17. ASSUME NEW y \in 1 .. x
       PROVE  /\ ms[y].name = ModuleNames[y] /\ Lawful(ms, y) /\ Layout(ms[y], y)
              /\ y < x => Complete(ms[y])
              /\ \A z \in 1 .. y - 1 : Behind(ms[z], ms[y])
  <2>1. ms[y].name = ModuleNames[y] /\ Layout(ms[y], y)
    BY <1>12, <1>13 DEF Layout
  <2>2. Lawful(ms, y)
    BY <1>15, <1>16
  <2>3. y < x => Complete(ms[y])
    BY <1>12, <1>13
  <2>4. ASSUME NEW z \in 1 .. y - 1 PROVE Behind(ms[z], ms[y])
    <3>0. z \in 1 .. x /\ z # x
      <4> HIDE DEF x
      <4> QED BY <1>4
    <3>1. ms[z] = modules[z]
      BY <1>12, <3>0
    <3> QED BY <1>12, <1>13, <3>0, <3>1 DEF Behind
  <2> QED BY <2>1, <2>2, <2>3, <2>4
<1>18. Len(ms) <= Len(ModuleNames)
  BY <1>12 DEF Built, Linked
<1>19. Linked(ms)
  BY <1>12, <1>17, <1>18 DEF Linked
<1>20. Linked(modules')
  BY <1>19 DEF ms
<1> QED BY <1>1, <1>20 DEF Built

-----------------------------------------------------------------------------
LEMMA ProgramKept ==
  ASSUME Built, modules' = modules, status # "program", status' \in {"calls", "startup", "done"}
  PROVE  Built'
BY DEF Built

\* What the listings say, line by line
LEMMA TrueLines ==
  ASSUME modules' = modules
  PROVE  /\ CallsNamed' <=> (status' \in {"startup", "done"} =>
                               \A x \in DOMAIN modules : \A l \in Range(listings'[x]) : CallTrue(x, l))
         /\ GlobalsOwned' <=> (status' # "program" => \A x \in DOMAIN modules : \A k \in DOMAIN modules[x].procs :
                                 \A l \in Range(listings'[x]) : GlobalTrue(x, k, l))
         /\ CallsNamed <=> (status \in {"startup", "done"} =>
                              \A x \in DOMAIN modules : \A l \in Range(listings[x]) : CallTrue(x, l))
         /\ GlobalsOwned <=> (status # "program" => \A x \in DOMAIN modules : \A k \in DOMAIN modules[x].procs :
                                \A l \in Range(listings[x]) : GlobalTrue(x, k, l))
<1>1. CallsNamed' <=> (status' \in {"startup", "done"} =>
                        \A x \in DOMAIN modules' : \A l \in Range(listings'[x]) : CallTrue(x, l)')
  BY DEF CallsNamed, CallTrue
<1>2. GlobalsOwned' <=> (status' # "program" => \A x \in DOMAIN modules' : \A k \in DOMAIN modules'[x].procs :
                          \A l \in Range(listings'[x]) : GlobalTrue(x, k, l)')
  BY DEF GlobalsOwned, GlobalTrue
<1>3. CallsNamed <=> (status \in {"startup", "done"} =>
                       \A x \in DOMAIN modules : \A l \in Range(listings[x]) : CallTrue(x, l))
  BY DEF CallsNamed, CallTrue
<1>4. GlobalsOwned <=> (status # "program" => \A x \in DOMAIN modules : \A k \in DOMAIN modules[x].procs :
                         \A l \in Range(listings[x]) : GlobalTrue(x, k, l))
  BY DEF GlobalsOwned, GlobalTrue
<1> QED BY <1>1, <1>2, <1>3, <1>4, SameProgram

LEMMA ListingsAreMade ==
  ASSUME Built, MakeAlst
  PROVE  RdbInv'
<1>1. /\ status = "program" /\ status' = "calls" /\ modules' = modules
      /\ modules # <<>> /\ Last(modules).procs # <<>> /\ ~Last(Last(modules).procs).inner
      /\ listings' = AbsoluteListings
  BY DEF MakeAlst, AbsoluteListings
<1>2. Built'
  <2>1. Complete(modules[Len(modules)])
    BY <1>1 DEF Complete, Last
  <2> QED BY <1>1, <2>1 DEF Built
<1>3. listings' = AbsoluteListings'
  BY <1>1, SameProgram
<1>4. StartupRuns'
  BY <1>1 DEF StartupRuns
<1> QED BY <1>1, <1>2, <1>3, <1>4 DEF RdbInv

LEMMA CallsArePatched ==
  ASSUME RdbInv, PatchBlCalls
  PROVE  RdbInv'
<1>1. /\ status = "calls" /\ status' = "startup" /\ modules' = modules
      /\ listings' = [x \in DOMAIN modules |-> [i \in DOMAIN listings[x] |-> WithName(ProcDb, x, listings[x][i])]]
  BY DEF PatchBlCalls
<1>2. Built /\ listings = AbsoluteListings
  BY <1>1 DEF RdbInv
<1>3. Built'
  BY <1>1, <1>2, ProgramKept
<1>4. ASSUME NEW x \in DOMAIN modules, NEW l \in Range(listings'[x])
      PROVE  CallTrue(x, l) /\ \A k \in DOMAIN modules[x].procs : GlobalTrue(x, k, l)
  <2>1. x \in 1 .. Len(modules)
    BY <1>2 DEF Built, Linked
  <2>2. DOMAIN listings[x] = 1 .. Len(Listing(x)) /\ DOMAIN modules[x].procs = 1 .. Len(modules[x].procs)
    BY <1>1, <1>2, <2>1, AbsoluteLine, ModuleIs
  <2>3. listings'[x] = [i \in DOMAIN listings[x] |-> WithName(ProcDb, x, listings[x][i])]
    BY <1>1
  <2>4. PICK i \in 1 .. Len(Listing(x)) : l = WithName(ProcDb, x, listings[x][i])
    BY <2>2, <2>3 DEF Range
  <2> QED BY <1>1, <1>2, <2>1, <2>2, <2>4, PatchedLine
<1>5. CallsNamed' /\ GlobalsOwned'
  BY <1>1, <1>4, TrueLines
<1>6. StartupRuns'
  BY <1>1 DEF StartupRuns
<1> QED BY <1>1, <1>3, <1>5, <1>6 DEF RdbInv

LEMMA StartupIsGenerated ==
  ASSUME RdbInv, GenerateStartup
  PROVE  RdbInv'
<1> DEFINE n == Len(modules)
           Target(i) == IF i > n THEN StartAt(i) ELSE EntryOf(modules[i])
<1>1. /\ status = "startup" /\ status' = "done" /\ modules' = modules /\ listings' = listings
      /\ startup' = [i \in 1 .. n + 1 |-> Row("call", StartAt(i), EncodeBl(StartAt(i), Target(i)))]
  BY DEF GenerateStartup
<1>2. Built /\ CallsNamed /\ GlobalsOwned
  BY <1>1 DEF RdbInv
<1>3. Built'
  BY <1>1, <1>2, ProgramKept
<1>4. CallsNamed' /\ GlobalsOwned'
  BY <1>1, <1>2, TrueLines
<1>5. n \in 1 .. n /\ n \in Nat /\ Complete(modules[n])
  BY <1>1, <1>2 DEF Built, Linked
<1>6. CodeEnd \in Nat /\ CodeEnd % 2 = 0 /\ CodeEnd + 4 * (n + 1) <= Reach
  <2> DEFINE b == modules[n].base
             l == Length(modules[n].procs)
  <2>1. b \in Nat /\ l \in Nat /\ b % 2 = 0 /\ l % 2 = 0 /\ b + l + 4 * (n + 1) <= Reach
    BY <1>2, <1>5, ModuleIs, CodeFits
  <2>2. CodeEnd = b + l
    BY DEF CodeEnd, Last
  <2> HIDE DEF b, l
  <2>3. (b + l) % 2 = 0 /\ b + l \in Nat
    BY <2>1
  <2> QED BY <2>1, <2>2, <2>3
<1>7. ASSUME NEW i \in 1 .. n
      PROVE  EntryOf(modules[i]) \in Nat /\ EntryOf(modules[i]) % 2 = 0 /\ EntryOf(modules[i]) <= Reach
  <2> DEFINE m == modules[i]
             k == Len(m.procs)
  <2>1. Complete(m)
    BY <1>2, <1>5 DEF Built, Linked
  <2>2. k \in 1 .. k
    <3>1. m.procs \in Seq(ProcType) /\ m.procs # <<>>
      BY <1>2, <2>1, ModuleIs DEF Complete
    <3> QED BY <3>1
  <2>3. /\ PlaceOf(m, k) \in Nat /\ PlaceOf(m, k) % 2 = 0
        /\ PlaceOf(m, k) + Size(m.procs[k]) <= m.base + Length(m.procs)
        /\ Size(m.procs[k]) = 8 + 4 * Len(m.procs[k].calls) /\ Len(m.procs[k].calls) \in Nat
    BY <1>2, <2>2, ProcedureIs
  <2>4. m.base + Length(m.procs) + 4 * (n + 1) <= Reach /\ m.base \in Nat /\ Length(m.procs) \in Nat /\ Reach \in Nat
    BY <1>2, CodeFits, ModuleIs, Limits
  <2> DEFINE e == PlaceOf(m, k)
             f == m.base + Length(m.procs)
             c == Len(m.procs[k].calls)
             z == Size(m.procs[k])
  <2>5. e \in Nat /\ f \in Nat /\ c \in Nat /\ z = 8 + 4 * c /\ e + z <= f /\ f + 4 * (n + 1) <= Reach
    BY <2>3, <2>4
  <2> HIDE DEF e, f, c, z, n
  <2>6. e <= Reach
    BY <1>5, <2>4, <2>5
  <2> QED BY <2>3, <2>6 DEF e, EntryOf
<1>8. ASSUME NEW i \in 1 .. n + 1
      PROVE  StartAt(i) + 4 + 2 * DecodeBl(EncodeBl(StartAt(i), Target(i))) = Target(i)
  <2>1. StartAt(i) \in Nat /\ StartAt(i) % 2 = 0 /\ StartAt(i) + 4 <= Reach /\ StartAt(i) <= Reach
    <3>1. StartAt(i) = CodeEnd + 4 * (i - 1)
      BY DEF StartAt
    <3>2. i \in Nat /\ i >= 1 /\ i <= n + 1 /\ Reach \in Nat
      BY <1>5, Limits
    <3> HIDE DEF n
    <3>3. CodeEnd + 4 * (i - 1) \in Nat /\ CodeEnd + 4 * (i - 1) + 4 <= Reach /\ CodeEnd + 4 * (i - 1) <= Reach
      BY <1>5, <1>6, <3>2
    <3>4. (CodeEnd + 4 * (i - 1)) % 2 = 0
      BY <1>6, <3>2
    <3> QED BY <3>1, <3>3, <3>4
  <2>2. Target(i) \in Nat /\ Target(i) % 2 = 0 /\ Target(i) <= Reach
    <3>1. i > n \/ i \in 1 .. n
      BY <1>5
    <3> QED BY <1>7, <2>1, <3>1
  <2> HIDE DEF Target
  <2> QED BY <2>1, <2>2, WithinReach
<1> HIDE DEF Target
<1>9. StartupRuns'
  <2>1. CodeEnd' = CodeEnd
    BY <1>1, SameProgram
  <2>2. DOMAIN startup' = 1 .. n + 1
    BY <1>1
  <2>3. ASSUME NEW i \in 1 .. n + 1
        PROVE  CodeEnd + 4 * (i - 1) + 4 + 2 * DecodeBl(startup'[i].value)
                 = IF i > n THEN CodeEnd + 4 * (i - 1) ELSE EntryOf(modules[i])
    <3>1. startup'[i].value = EncodeBl(StartAt(i), Target(i))
      BY <1>1 DEF Row
    <3>2. StartAt(i) = CodeEnd + 4 * (i - 1)
      BY DEF StartAt
    <3>3. StartAt(i) + 4 + 2 * DecodeBl(startup'[i].value) = Target(i)
      BY <1>8, <3>1
    <3> QED BY <3>2, <3>3 DEF Target
  <2> QED BY <1>1, <2>1, <2>2, <2>3 DEF StartupRuns, EntryOf
<1> QED BY <1>1, <1>3, <1>4, <1>9 DEF RdbInv

LEMMA RdbStep ==
  ASSUME RdbInv, [RdbNext]_rdbVars
  PROVE  RdbInv'
<1>0. Built
  BY DEF RdbInv
<1>1. CASE AddModule
  <2>1. Built' /\ status' = "program"
    BY <1>0, <1>1, ModuleIsAdded DEF AddModule
  <2> QED BY <2>1 DEF RdbInv, StartupRuns
<1>2. CASE AddProcedure
  <2>1. Built' /\ status' = "program"
    BY <1>0, <1>2, ProcedureIsAdded DEF AddProcedure
  <2> QED BY <2>1 DEF RdbInv, StartupRuns
<1>3. CASE MakeAlst
  BY <1>0, <1>3, ListingsAreMade
<1>4. CASE PatchBlCalls
  BY <1>4, CallsArePatched
<1>5. CASE GenerateStartup
  BY <1>5, StartupIsGenerated
<1>6. CASE UNCHANGED rdbVars
  <2>1. status' = status /\ modules' = modules /\ listings' = listings /\ startup' = startup
    BY <1>6 DEF rdbVars
  <2>2. Built'
    BY <1>0, <2>1 DEF Built
  <2>3. CodeEnd' = CodeEnd /\ AbsoluteListings' = AbsoluteListings
    BY <2>1, SameProgram
  <2>4. StartupRuns'
    BY <2>1, <2>3 DEF RdbInv, StartupRuns
  <2>5. status = "calls" => listings = AbsoluteListings
    BY DEF RdbInv
  <2>6. status \in {"startup", "done"} => CallsNamed' /\ GlobalsOwned'
    BY <2>1, TrueLines DEF RdbInv
  <2> QED BY <2>1, <2>2, <2>3, <2>4, <2>5, <2>6 DEF RdbInv
<1> QED BY <1>1, <1>2, <1>3, <1>4, <1>5, <1>6 DEF RdbNext

LEMMA RdbBegins == RdbInit => RdbInv
<1> SUFFICES ASSUME RdbInit PROVE RdbInv
  OBVIOUS
<1>1. status = "program" /\ modules = <<>>
  BY DEF RdbInit
<1>2. Linked(<<>>)
  <2>1. <<>> \in Seq(ModType) /\ Len(<<>>) = 0 /\ Len(ModuleNames) \in Nat
    BY Limits
  <2> QED BY <2>1 DEF Linked
<1>3. Built
  BY <1>1, <1>2 DEF Built
<1> QED BY <1>1, <1>3 DEF RdbInv, StartupRuns

LEMMA WhatHolds == RdbInv => ListingsTrue
<1> SUFFICES ASSUME RdbInv PROVE ListingsTrue
  OBVIOUS
<1>0. Built /\ StartupRuns
  BY DEF RdbInv
<1>1. CASE status = "program"
  BY <1>0, <1>1 DEF ListingsTrue, CallsNamed, GlobalsOwned
<1>2. CASE status = "calls"
  <2>1. listings = AbsoluteListings
    BY <1>2 DEF RdbInv
  <2>2. ASSUME NEW x \in DOMAIN modules, NEW k \in DOMAIN modules[x].procs, NEW l \in Range(listings[x])
        PROVE  GlobalTrue(x, k, l)
    <3>1. x \in 1 .. Len(modules)
      BY <1>0 DEF Built, Linked
    <3>2. DOMAIN listings[x] = 1 .. Len(Listing(x)) /\ DOMAIN modules[x].procs = 1 .. Len(modules[x].procs)
      BY <1>0, <1>2, <2>1, <3>1, AbsoluteLine, ModuleIs
    <3>3. PICK i \in 1 .. Len(Listing(x)) : l = listings[x][i]
      BY <3>2 DEF Range
    <3> QED BY <1>0, <1>2, <2>1, <3>1, <3>2, <3>3, GlobalsAreOwned
  <2>3. GlobalsOwned
    BY <2>2 DEF GlobalsOwned, GlobalTrue
  <2> QED BY <1>0, <1>2, <2>3 DEF ListingsTrue, CallsNamed
<1>3. CASE status \in {"startup", "done"}
  BY <1>0, <1>3 DEF RdbInv, ListingsTrue
<1> QED BY <1>0, <1>1, <1>2, <1>3 DEF Built

THEOREM ListingsAreTrue == RdbSpec => []ListingsTrue
<1>1. RdbInit => RdbInv
  BY RdbBegins
<1>2. RdbInv /\ [RdbNext]_rdbVars => RdbInv'
  BY RdbStep
<1>3. RdbInv => ListingsTrue
  BY WhatHolds
<1> QED BY <1>1, <1>2, <1>3, PTL DEF RdbSpec
=============================================================================
