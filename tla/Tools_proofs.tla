----------------------------- MODULE Tools_proofs -----------------------------
(***************************************************************************)
(* Proofs about the test engines and the file they load: the structural    *)
(* test of ElfTest, for every program, server and number of comparators,   *)
(* and all limits; the run of GdbTest, for every plan and whatever the     *)
(* target does; and what ElfFile makes of every command line whose files   *)
(* fit together.                                                           *)
(***************************************************************************)
EXTENDS GdbTest, ElfTest, ElfFile, QueueLemmas

Untested == Testable \ tested

PassTypes ==
  /\ server \in {"JLink", "OpenOCD"}
  /\ stage \in {"start", "jlink", "pass", "inner", "passed", "done"}
  /\ active \subseteq Procs /\ tested \subseteq Procs /\ listed \subseteq Procs
  /\ candidates \in Seq(Testable)
  /\ hitCount \in 0 .. HitLimit /\ passes \in 0 .. PassLimit /\ emptyPasses \in 0 .. EmptyLimit
  /\ before \in Nat /\ skipped \in 0 .. Cardinality(Procs)
  /\ checks \in [tested -> SUBSET (UNION {p.vars : p \in Procs})]

\* Each server has its loop; OpenOCD's has breakpoints and a queue for
\* procedures to test, and those in a pass are the ones not yet tested
Loops ==
  /\ server = "JLink" => stage \in {"start", "jlink", "done"} /\ passes = 0
  /\ server = "OpenOCD" => stage # "jlink" /\ active \subseteq Testable
  /\ stage = "start" => active = {}
  /\ stage = "inner" => /\ IsInjective(candidates)
                        /\ active \cap Range(candidates) = {}
                        /\ Untested = active \cup Range(candidates)

\* Nothing is skipped before the end
Skips ==
  /\ stage # "done" => skipped = 0
  /\ stage = "done" /\ Testable # {} => skipped = Cardinality(Untested)

\* The passes are paid for by procedures that have been reached, but for the
\* empty ones since the last of them
Paid ==
  /\ stage \in {"start", "pass"} =>
       emptyPasses < EmptyLimit /\ passes <= (EmptyLimit * Cardinality(tested)) + emptyPasses
  /\ stage \in {"inner", "passed"} =>
       /\ emptyPasses < EmptyLimit /\ before <= Cardinality(tested)
       /\ passes <= (EmptyLimit * before) + emptyPasses + 1

PassInv == PassTypes /\ Loops /\ Skips /\ Paid /\ WithinComparators /\ FewPasses

-----------------------------------------------------------------------------
(* Sets and sequences of procedures.                                       *)

LEMMA ProcSets ==
  ASSUME NEW S, S \subseteq Procs
  PROVE  /\ IsFiniteSet(S) /\ Cardinality(S) \in Nat
         /\ Cardinality(S) \in 0 .. Cardinality(Procs)
         /\ \A p \in Procs : /\ Cardinality(S \cup {p}) \in Nat
                             /\ Cardinality(S \cup {p}) >= Cardinality(S)
                             /\ p \in S => Cardinality(S \ {p}) = Cardinality(S) - 1
                             /\ Cardinality(S \ {p}) <= Cardinality(S)
<1>1. IsFiniteSet(Procs) /\ Cardinality(Procs) \in Nat
  BY ElfTestAssumption, FS_CardinalityType
<1>2. IsFiniteSet(S) /\ Cardinality(S) <= Cardinality(Procs)
  BY <1>1, FS_Subset
<1>3. Cardinality(S) \in Nat
  BY <1>2, FS_CardinalityType
<1>4. ASSUME NEW p \in Procs
      PROVE  /\ Cardinality(S \cup {p}) \in Nat /\ Cardinality(S \cup {p}) >= Cardinality(S)
             /\ p \in S => Cardinality(S \ {p}) = Cardinality(S) - 1
             /\ Cardinality(S \ {p}) <= Cardinality(S)
  <2>1. Cardinality(S \cup {p}) = IF p \in S THEN Cardinality(S) ELSE Cardinality(S) + 1
    BY <1>2, FS_AddElement
  <2>2. Cardinality(S \ {p}) = IF p \in S THEN Cardinality(S) - 1 ELSE Cardinality(S)
    BY <1>2, FS_RemoveElement
  <2> QED BY <1>3, <2>1, <2>2
<1> QED BY <1>1, <1>2, <1>3, <1>4

LEMMA TestableProcs == Testable \subseteq Procs /\ Untested \subseteq Testable
BY DEF Testable, Untested

(* A sequence of a set, in any order, has each element once.               *)
LEMMA AnyOrder ==
  ASSUME NEW S, S \subseteq Testable, NEW q \in SetToSeqs(S)
  PROVE  q \in Seq(Testable) /\ IsInjective(q) /\ Range(q) = S
<1> DEFINE D == 1..Cardinality(S)
<1>1. IsFiniteSet(S) /\ Cardinality(S) \in Nat
  BY ProcSets, TestableProcs
<1>2. q \in [D -> S] /\ \A i, j \in D : i # j => q[i] # q[j]
  BY DEF SetToSeqs
<1>3. q \in Seq(Testable) /\ DOMAIN q = D
  BY <1>1, <1>2
<1>4. IsInjective(q)
  BY <1>2, <1>3 DEF IsInjective
<1>5. IsFiniteSet(D) /\ Cardinality(D) = Cardinality(S)
  BY <1>1, FS_Interval
<1>6. q \in Injection(D, S)
  BY <1>2 DEF Injection, IsInjective
<1>7. q \in Surjection(D, S)
  BY <1>1, <1>5, <1>6, FS_Injection
<1>8. Range(q) = S
  BY <1>2, <1>7 DEF Surjection, Range
<1> QED BY <1>3, <1>4, <1>8

LEMMA MinOfTwo ==
  ASSUME NEW a \in Int, NEW b \in Int
  PROVE  Min({a, b}) \in {a, b} /\ Min({a, b}) <= a /\ Min({a, b}) <= b
<1>1. \E x \in {a, b} : \A y \in {a, b} : x <= y
  <2>1. CASE a <= b
    BY <2>1
  <2>2. CASE b <= a
    BY <2>2
  <2> QED BY <2>1, <2>2
<1>2. PICK x : x = Min({a, b})
  OBVIOUS
<1>3. x \in {a, b} /\ \A y \in {a, b} : x <= y
  BY <1>1, <1>2 DEF Min
<1> QED BY <1>2, <1>3

(* The breakpoints are never more than there are comparators, and who gets *)
(* none stays in the queue.                                                *)
LEMMA FillsUp ==
  ASSUME NEW S, S \subseteq Testable, Cardinality(S) <= Comparators,
         NEW q \in Seq(Testable), IsInjective(q), S \cap Range(q) = {}, Fill(S, q)
  PROVE  /\ active' \subseteq Testable /\ Cardinality(active') <= Comparators
         /\ candidates' \in Seq(Testable) /\ IsInjective(candidates')
         /\ active' \cap Range(candidates') = {}
         /\ active' \cup Range(candidates') = S \cup Range(q)
<1>1. Comparators \in Nat /\ Cardinality(S) \in Nat /\ IsFiniteSet(S) /\ Len(q) \in Nat
  BY ElfTestAssumption, ProcSets, TestableProcs
<1>2. PICK n : n = Min({Comparators - Cardinality(S), Len(q)})
  OBVIOUS
<1>3. n \in Nat /\ n <= Len(q) /\ n <= Comparators - Cardinality(S)
  <2>1. PICK d : d = Comparators - Cardinality(S)
    OBVIOUS
  <2>2. d \in Nat
    BY <1>1, <2>1
  <2>3. n \in {d, Len(q)} /\ n <= d /\ n <= Len(q)
    <3>1. n = Min({d, Len(q)}) /\ d \in Int /\ Len(q) \in Int
      BY <1>1, <1>2, <2>1, <2>2
    <3> HIDE <1>2, <2>1
    <3>2. Min({d, Len(q)}) \in {d, Len(q)} /\ Min({d, Len(q)}) <= d /\ Min({d, Len(q)}) <= Len(q)
      BY <3>1, MinOfTwo
    <3> QED BY ONLY <3>1, <3>2, Zenon
  <2> QED BY <1>1, <2>1, <2>2, <2>3
<1>4. PICK a : a = SubSeq(q, 1, n)
  OBVIOUS
<1>5. PICK b : b = SubSeq(q, n + 1, Len(q))
  OBVIOUS
<1>6. active' = S \cup Range(a) /\ candidates' = b
  BY <1>2, <1>4, <1>5 DEF Fill
<1>7. /\ a \in Seq(Testable) /\ Len(a) = n /\ \A i \in 1..n : a[i] = q[i]
      /\ b \in Seq(Testable) /\ Len(b) = Len(q) - n
      /\ \A i \in 1..(Len(q) - n) : b[i] = q[n + i]
  <2>1. n + 1 \in 1..(Len(q) + 1) /\ n + 1 - 1 = n /\ Len(q) - (n + 1) + 1 = Len(q) - n
    BY <1>1, <1>3
  <2>2. /\ a \in Seq(Testable) /\ Len(a) = n /\ \A i \in 1..n : a[i] = q[i]
    BY <1>1, <1>3, <1>4
  <2>3. /\ b \in Seq(Testable) /\ Len(b) = Len(q) - n
        /\ \A i \in 1..(Len(q) - n) : b[i] = q[n + i]
    BY <1>1, <1>3, <1>5
  <2> QED BY <2>2, <2>3
<1>8. DOMAIN q = 1..Len(q) /\ DOMAIN a = 1..n /\ DOMAIN b = 1..(Len(q) - n)
  BY <1>7
<1>9. Range(a) \cup Range(b) = Range(q)
  <2>1. Range(a) \subseteq Range(q)
    BY <1>1, <1>3, <1>7, <1>8 DEF Range
  <2>2. Range(b) \subseteq Range(q)
    <3>1. \A i \in 1..(Len(q) - n) : n + i \in 1..Len(q)
      BY <1>1, <1>3
    <3> QED BY <1>7, <1>8, <3>1 DEF Range
  <2>3. ASSUME NEW i \in 1..Len(q) PROVE q[i] \in Range(a) \cup Range(b)
    <3>1. CASE i <= n
      BY <1>3, <1>7, <1>8, <3>1, SMTT(30) DEF Range
    <3>2. CASE ~(i <= n)
      <4>1. i - n \in 1..(Len(q) - n) /\ n + (i - n) = i
        BY <1>1, <1>3, <3>2
      <4>2. b[i - n] = q[i]
        BY <1>7, <4>1
      <4> QED BY <1>8, <4>1, <4>2 DEF Range
    <3> QED BY <3>1, <3>2
  <2> QED BY <1>8, <2>1, <2>2, <2>3 DEF Range
<1>10. Range(a) \cap Range(b) = {} /\ IsInjective(b)
  <2>1. \A i \in 1..n, j \in 1..(Len(q) - n) : i \in 1..Len(q) /\ n + j \in 1..Len(q) /\ i # n + j
    BY <1>1, <1>3
  <2>2. \A i \in 1..n, j \in 1..(Len(q) - n) : a[i] # b[j]
    BY <1>7, <1>8, <2>1 DEF IsInjective
  <2>3. \A i, j \in 1..(Len(q) - n) :
          n + i \in 1..Len(q) /\ n + j \in 1..Len(q) /\ (n + i = n + j => i = j)
    BY <1>1, <1>3
  <2>4. IsInjective(b)
    BY <1>7, <1>8, <2>3 DEF IsInjective
  <2> QED BY <1>8, <2>2, <2>4 DEF Range
<1>11. Cardinality(active') <= Comparators
  <2>1. a \in Surjection(1..n, Range(a))
    BY <1>7, <1>8 DEF Surjection, Range
  <2>2. IsFiniteSet(1..n) /\ Cardinality(1..n) = n
    BY <1>3, FS_Interval
  <2>3. IsFiniteSet(Range(a)) /\ Cardinality(Range(a)) <= n
    BY <2>1, <2>2, FS_Surjection
  <2>4. Cardinality(S \cup Range(a)) = Cardinality(S) + Cardinality(Range(a)) - Cardinality(S \cap Range(a))
    BY <1>1, <2>3, FS_Union
  <2>5. Cardinality(S \cap Range(a)) \in Nat /\ Cardinality(Range(a)) \in Nat
    BY <1>1, <2>3, FS_Intersection, FS_CardinalityType
  <2> QED BY <1>1, <1>3, <1>6, <2>3, <2>4, <2>5
<1>12. Range(a) \subseteq Testable
  BY <1>7, <1>8 DEF Range
<1> QED BY <1>6, <1>7, <1>9, <1>10, <1>11, <1>12

-----------------------------------------------------------------------------
(* The steps of the test.                                                  *)

\* A product grows with its factor
LEMMA MoreProcs ==
  ASSUME NEW i \in Nat, NEW j \in Nat, i <= j
  PROVE  /\ EmptyLimit * i \in Nat /\ EmptyLimit * i <= EmptyLimit * j
         /\ i < j => (EmptyLimit * i) + EmptyLimit <= EmptyLimit * j
<1>1. EmptyLimit \in Nat \ {0}
  BY ElfTestAssumption
<1>2. PICK d \in Nat : j = i + d
  <2>1. j - i \in Nat /\ j = i + (j - i)
    OBVIOUS
  <2> QED BY <2>1
<1>3. EmptyLimit * j = (EmptyLimit * i) + (EmptyLimit * d)
  BY <1>1, <1>2
<1>4. EmptyLimit * i \in Nat /\ EmptyLimit * d \in Nat
  BY <1>1
<1>5. d >= 1 => EmptyLimit * d >= EmptyLimit
  BY <1>1
<1> QED BY <1>1, <1>2, <1>3, <1>4, <1>5

LEMMA PassInitially == ElfInit => PassInv
<1> SUFFICES ASSUME ElfInit PROVE PassInv
  OBVIOUS
<1> USE ElfTestAssumption DEF ElfInit
<1>1. Cardinality({}) = 0 /\ Cardinality(Procs) \in Nat
  BY FS_EmptySet, FS_CardinalityType
<1>2. checks \in [tested -> SUBSET (UNION {p.vars : p \in Procs})]
  <2>1. tested = 1..0
    OBVIOUS
  <2>2. <<>> \in [1..0 -> SUBSET (UNION {p.vars : p \in Procs})]
    OBVIOUS
  <2> QED BY <2>1, <2>2
<1>3. PassTypes
  BY <1>1, <1>2 DEF PassTypes
<1>4. Loops /\ Skips
  BY DEF Loops, Skips
<1>5. EmptyLimit * 0 = 0 /\ EmptyLimit * (0 + 1) = EmptyLimit
  OBVIOUS
<1>6. Paid
  BY <1>1, <1>5 DEF Paid
<1>7. WithinComparators /\ FewPasses
  BY <1>1, <1>5 DEF WithinComparators, FewPasses
<1> QED BY <1>3, <1>4, <1>6, <1>7 DEF PassInv

(* A procedure that is reached is recorded, and counts.                    *)
LEMMA Recorded ==
  ASSUME PassTypes, NEW p \in Procs, NEW bad \in SUBSET p.vars, Record(p, bad)
  PROVE  /\ tested' = tested \cup {p} /\ tested' \subseteq Procs /\ listed' \subseteq Procs
         /\ checks' \in [tested' -> SUBSET (UNION {q.vars : q \in Procs})]
         /\ Cardinality(tested') \in Nat /\ Cardinality(tested) <= Cardinality(tested')
<1>1. tested' = tested \cup {p} /\ tested' \subseteq Procs /\ listed' \subseteq Procs
  BY DEF PassTypes, Record
<1>2. checks' \in [tested' -> SUBSET (UNION {q.vars : q \in Procs})]
  <2>1. bad \in SUBSET (UNION {q.vars : q \in Procs})
    OBVIOUS
  <2>2. \A q \in tested : checks[q] \in SUBSET (UNION {r.vars : r \in Procs})
    BY DEF PassTypes
  <2>3. checks' = [q \in tested \cup {p} |-> IF q = p THEN bad ELSE checks[q]]
    BY DEF Record
  <2> QED BY <1>1, <2>1, <2>2, <2>3
<1>3. Cardinality(tested) \in Nat /\ Cardinality(tested') \in Nat /\ Cardinality(tested) <= Cardinality(tested')
  BY <1>1, ProcSets DEF PassTypes
<1> QED BY <1>1, <1>2, <1>3

(* The bound on the passes still holds when more has been reached.         *)
LEMMA StaysFew ==
  ASSUME FewPasses, UNCHANGED passes, passes \in Nat, tested \subseteq Procs, tested' \subseteq Procs,
         Cardinality(tested) <= Cardinality(tested')
  PROVE  FewPasses'
<1>1. Cardinality(tested) \in Nat /\ Cardinality(tested') \in Nat
  BY ProcSets
<1>2. EmptyLimit * (Cardinality(tested) + 1) <= EmptyLimit * (Cardinality(tested') + 1)
  BY <1>1, MoreProcs
<1>3. EmptyLimit * (Cardinality(tested) + 1) \in Nat /\ EmptyLimit * (Cardinality(tested') + 1) \in Nat
  BY <1>1, MoreProcs
<1> QED BY <1>2, <1>3 DEF FewPasses

(* The end of a test.                                                      *)
LEMMA TheEnd ==
  ASSUME PassInv, SkipRest, stage # "done", emptyPasses' \in 0 .. EmptyLimit,
         UNCHANGED <<server, candidates, tested, before, hitCount, passes, checks>>
  PROVE  PassInv'
<1> USE DEF PassInv
<1>1. Untested' = Untested /\ Untested \subseteq Procs
  BY DEF Untested, Testable
<1>2. /\ Cardinality(Untested) \in 0 .. Cardinality(Procs) /\ Cardinality(Untested) \in Nat
      /\ Cardinality({}) = 0 /\ Comparators \in Nat
  BY <1>1, ProcSets, ElfTestAssumption, FS_EmptySet
<1>3. stage' = "done" /\ skipped' = Cardinality(Untested)
  BY <1>2 DEF SkipRest, Skips, Untested
<1>4. active' \subseteq active /\ listed' \subseteq Procs /\ (server = "OpenOCD" => active' = {})
  BY DEF SkipRest, PassTypes, Testable
<1>5. PassTypes'
  BY <1>2, <1>3, <1>4 DEF PassTypes
<1>6. Loops' /\ Skips' /\ Paid'
  BY <1>1, <1>3, <1>4 DEF Loops, Skips, Paid
<1>7. WithinComparators' /\ FewPasses'
  BY <1>2, <1>4 DEF WithinComparators, FewPasses
<1> QED BY <1>5, <1>6, <1>7

(* J-Link: all breakpoints at once.                                        *)
LEMMA JLinkSteps ==
  ASSUME PassInv,
         StartJLink \/ (\E p \in Procs : JLinkHit(p)) \/ JLinkEnds \/ PcLost \/ ElfDone
  PROVE  PassInv'
<1> USE DEF PassInv
<1>1. CASE StartJLink
  <2>1. /\ server = "JLink" /\ stage' = "jlink" /\ active' = Procs
        /\ UNCHANGED <<server, candidates, tested, before, hitCount, passes, emptyPasses, checks,
                       skipped, listed>>
        /\ stage # "done"
    BY <1>1 DEF StartJLink
  <2>2. PassTypes'
    BY <2>1 DEF PassTypes
  <2>3. Loops' /\ Skips' /\ Paid'
    BY <2>1 DEF Loops, Skips, Paid
  <2>4. WithinComparators' /\ FewPasses'
    BY <2>1 DEF WithinComparators, FewPasses
  <2> QED BY <2>2, <2>3, <2>4
<1>2. ASSUME NEW p \in Procs, JLinkHit(p) PROVE PassInv'
  <2>1. /\ stage = "jlink" /\ hitCount < HitLimit /\ hitCount' = hitCount + 1 /\ active' = active \ {p}
        /\ UNCHANGED <<server, stage, candidates, before, passes, emptyPasses, skipped>>
    BY <1>2 DEF JLinkHit, JLinkGoesOn
  <2>2. server = "JLink"
    BY <2>1 DEF Loops, PassTypes
  <2>3. hitCount' \in 0 .. HitLimit
    BY <2>1, ElfTestAssumption DEF PassTypes
  <2>4. /\ tested' \subseteq Procs /\ listed' \subseteq Procs
        /\ checks' \in [tested' -> SUBSET (UNION {q.vars : q \in Procs})]
        /\ Cardinality(tested) <= Cardinality(tested')
    <3>1. CASE UNCHANGED <<tested, checks, listed>>
      <4>1. Cardinality(tested) \in Nat
        BY ProcSets DEF PassTypes
      <4> QED BY <3>1, <4>1 DEF PassTypes
    <3>2. CASE \E bad \in SUBSET p.vars : Record(p, bad)
      BY <3>2, Recorded
    <3> QED BY <1>2, <3>1, <3>2 DEF JLinkHit
  <2>5. PassTypes'
    BY <2>1, <2>3, <2>4 DEF PassTypes
  <2>6. Loops' /\ Skips' /\ Paid' /\ WithinComparators'
    BY <2>1, <2>2 DEF Loops, Skips, Paid, WithinComparators
  <2>7. FewPasses'
    BY <2>1, <2>4, StaysFew DEF PassTypes
  <2> QED BY <2>5, <2>6, <2>7
<1>3. CASE JLinkEnds
  BY <1>3, TheEnd DEF JLinkEnds, PassTypes
<1>4. CASE PcLost \/ ElfDone
  <2>1. UNCHANGED <<server, stage, active, candidates, tested, before, hitCount, passes, emptyPasses,
                    checks, skipped, listed>>
    BY <1>4 DEF PcLost, ElfDone, elfVars
  <2>2. PassTypes' /\ Loops' /\ Skips'
    BY <2>1 DEF PassTypes, Loops, Skips, Untested
  <2>3. Paid' /\ WithinComparators' /\ FewPasses'
    BY <2>1 DEF Paid, WithinComparators, FewPasses
  <2> QED BY <2>2, <2>3
<1> QED BY <1>1, <1>2, <1>3, <1>4

(* OpenOCD: a pass begins, with breakpoints for the first of the queue.    *)
LEMMA PassBegins ==
  ASSUME PassInv, StartOpenOCD \/ StartPass PROVE PassInv'
<1> USE DEF PassInv
<1>1. CASE StartOpenOCD
  <2>1. /\ stage = "start" /\ server = "OpenOCD"
        /\ stage' \in {"done", "pass"} /\ (stage' = "done" => Testable = {})
        /\ UNCHANGED <<server, active, candidates, tested, before, hitCount, passes, emptyPasses,
                       checks, skipped, listed>>
    BY <1>1 DEF StartOpenOCD
  <2>2. PassTypes'
    BY <2>1 DEF PassTypes
  <2>3. Loops' /\ Skips' /\ Paid'
    BY <2>1 DEF Loops, Skips, Paid
  <2>4. WithinComparators' /\ FewPasses'
    BY <2>1 DEF WithinComparators, FewPasses
  <2> QED BY <2>2, <2>3, <2>4
<1>2. CASE StartPass
  <2>1. /\ stage = "pass" /\ passes < PassLimit /\ stage' = "inner"
        /\ passes' = passes + 1 /\ before' = Cardinality(tested)
        /\ UNCHANGED <<server, tested, hitCount, emptyPasses, checks, skipped, listed>>
    BY <1>2 DEF StartPass
  <2>2. server = "OpenOCD"
    BY <2>1 DEF Loops, PassTypes
  <2>3. PICK queue \in SetToSeqs(Untested) : Fill({}, queue)
    BY <1>2 DEF StartPass, Untested
  <2>4. queue \in Seq(Testable) /\ IsInjective(queue) /\ Range(queue) = Untested
    BY AnyOrder, TestableProcs
  <2>5. /\ {} \subseteq Testable /\ Cardinality({}) <= Comparators /\ {} \cap Range(queue) = {}
        /\ Comparators \in Nat /\ PassLimit \in Nat
    BY ElfTestAssumption, FS_EmptySet
  <2>6. /\ active' \subseteq Testable /\ Cardinality(active') <= Comparators
        /\ candidates' \in Seq(Testable) /\ IsInjective(candidates')
        /\ active' \cap Range(candidates') = {}
        /\ active' \cup Range(candidates') = {} \cup Range(queue)
    BY <2>3, <2>4, <2>5, FillsUp
  <2>7. Cardinality(tested) \in Nat /\ tested \subseteq Procs /\ Untested' = Untested
    BY <2>1, ProcSets DEF PassTypes, Untested
  <2>8. passes \in Nat /\ passes' \in 0 .. PassLimit /\ emptyPasses \in Nat
    BY <2>1, <2>5 DEF PassTypes
  <2>9. PassTypes'
    <3>1. active' \subseteq Procs
      BY <2>6, TestableProcs
    <3> QED BY <2>1, <2>6, <2>7, <2>8, <3>1 DEF PassTypes
  <2>10. Loops' /\ Skips' /\ WithinComparators'
    BY <2>1, <2>2, <2>4, <2>6, <2>7 DEF Loops, Skips, WithinComparators
  <2>11. Paid' /\ FewPasses'
    <3>1. PICK t \in Nat : t = Cardinality(tested)
      BY <2>7
    <3>2. passes <= (EmptyLimit * t) + emptyPasses /\ emptyPasses < EmptyLimit
      BY <2>1, <3>1 DEF Paid
    <3>3. EmptyLimit * t \in Nat /\ EmptyLimit * (t + 1) \in Nat
          /\ (EmptyLimit * t) + EmptyLimit <= EmptyLimit * (t + 1) /\ EmptyLimit \in Nat
      BY MoreProcs, ElfTestAssumption
    <3>4. passes + 1 <= (EmptyLimit * t) + emptyPasses + 1
      BY <2>8, <3>2, <3>3
    <3>5. passes + 1 <= EmptyLimit * (t + 1)
      BY <2>8, <3>2, <3>3
    <3>6. Paid'
      BY <2>1, <3>1, <3>2, <3>4 DEF Paid
    <3>7. FewPasses'
      BY <2>1, <3>1, <3>5 DEF FewPasses
    <3> QED BY <3>6, <3>7
  <2> QED BY <2>9, <2>10, <2>11
<1> QED BY <1>1, <1>2

(* A breakpoint that was hit moves to the next of the queue.               *)
LEMMA BreakpointMoves ==
  ASSUME PassInv, NEW p \in Procs, HwHit(p) PROVE PassInv'
<1> USE DEF PassInv
<1>1. /\ stage = "inner" /\ hitCount < HitLimit /\ p \in active /\ hitCount' = hitCount + 1
      /\ Fill(active \ {p}, candidates)
      /\ UNCHANGED <<server, stage, before, passes, emptyPasses, skipped>>
  BY DEF HwHit
<1>2. PICK bad \in SUBSET p.vars : Record(p, bad)
  BY DEF HwHit
<1>3. server = "OpenOCD" /\ active \subseteq Testable
  BY <1>1 DEF Loops, PassTypes
<1>4. /\ tested' = tested \cup {p} /\ tested' \subseteq Procs /\ listed' \subseteq Procs
      /\ checks' \in [tested' -> SUBSET (UNION {q.vars : q \in Procs})]
      /\ Cardinality(tested') \in Nat /\ Cardinality(tested) <= Cardinality(tested')
  BY <1>2, Recorded
<1>5. /\ IsInjective(candidates) /\ active \cap Range(candidates) = {}
      /\ Untested = active \cup Range(candidates) /\ candidates \in Seq(Testable)
  BY <1>1 DEF Loops, PassTypes
<1>6. Cardinality(active \ {p}) <= Comparators
  <2>1. active \subseteq Procs
    BY DEF PassTypes
  <2>2. /\ Cardinality(active) \in Nat /\ Cardinality(active \ {p}) \in Nat
        /\ Cardinality(active \ {p}) <= Cardinality(active)
    <3>1. active \ {p} \subseteq Procs
      BY <2>1
    <3> QED BY <2>1, <3>1, ProcSets
  <2>3. Cardinality(active) <= Comparators /\ Comparators \in Nat
    BY <1>3, ElfTestAssumption DEF WithinComparators
  <2> QED BY <2>2, <2>3
<1>7. /\ active' \subseteq Testable /\ Cardinality(active') <= Comparators
      /\ candidates' \in Seq(Testable) /\ IsInjective(candidates')
      /\ active' \cap Range(candidates') = {}
      /\ active' \cup Range(candidates') = (active \ {p}) \cup Range(candidates)
  <2>1. active \ {p} \subseteq Testable /\ (active \ {p}) \cap Range(candidates) = {}
    BY <1>3, <1>5
  <2> QED BY <1>1, <1>5, <1>6, <2>1, FillsUp
<1>8. Untested' = active' \cup Range(candidates')
  <2>1. Untested' = Untested \ {p}
    BY <1>4 DEF Untested
  <2>2. p \notin Range(candidates)
    BY <1>1, <1>5
  <2> QED BY <1>5, <1>7, <2>1, <2>2
<1>9. PassTypes'
  <2>1. active' \subseteq Procs
    BY <1>7, TestableProcs
  <2>2. hitCount' \in 0 .. HitLimit
    BY <1>1, ElfTestAssumption DEF PassTypes
  <2> QED BY <1>1, <1>4, <1>7, <2>1, <2>2 DEF PassTypes
<1>10. Loops' /\ Skips' /\ WithinComparators'
  BY <1>1, <1>3, <1>7, <1>8 DEF Loops, Skips, WithinComparators
<1>11. Paid'
  <2>1. Cardinality(tested) \in Nat /\ before \in Nat
    BY ProcSets DEF PassTypes
  <2>2. before <= Cardinality(tested')
    BY <1>1, <1>4, <2>1 DEF Paid
  <2> QED BY <1>1, <2>2 DEF Paid
<1>12. FewPasses'
  BY <1>1, <1>4, StaysFew DEF PassTypes
<1> QED BY <1>9, <1>10, <1>11, <1>12

(* A pass ends, and the test with it or not.                               *)
LEMMA PassIsOver ==
  ASSUME PassInv, PassEnds \/ CountPass \/ LastPass PROVE PassInv'
<1> USE DEF PassInv
<1>1. CASE PassEnds
  <2>1. /\ stage = "inner" /\ stage' = "passed"
        /\ UNCHANGED <<server, active, candidates, tested, before, hitCount, passes, emptyPasses,
                       checks, skipped, listed>>
    BY <1>1 DEF PassEnds
  <2>2. PassTypes'
    BY <2>1 DEF PassTypes
  <2>3. Loops' /\ Skips' /\ Paid'
    BY <2>1 DEF Loops, Skips, Paid
  <2>4. WithinComparators' /\ FewPasses'
    BY <2>1 DEF WithinComparators, FewPasses
  <2> QED BY <2>2, <2>3, <2>4
<1>2. CASE LastPass
  BY <1>2, TheEnd DEF LastPass, PassTypes
<1>3. CASE CountPass
  <2>1. /\ stage = "passed"
        /\ UNCHANGED <<server, candidates, tested, before, hitCount, passes, checks>>
        /\ emptyPasses' = IF Cardinality(tested) = before THEN emptyPasses + 1 ELSE 0
    BY <1>3 DEF CountPass
  <2>2. /\ emptyPasses < EmptyLimit /\ before <= Cardinality(tested)
        /\ passes <= (EmptyLimit * before) + emptyPasses + 1
    BY <2>1 DEF Paid
  <2>3. /\ before \in Nat /\ Cardinality(tested) \in Nat /\ emptyPasses \in Nat /\ passes \in Nat
        /\ EmptyLimit \in Nat \ {0}
    BY ProcSets, ElfTestAssumption DEF PassTypes
  <2>4. emptyPasses' \in 0 .. EmptyLimit
    BY <2>1, <2>2, <2>3
  <2>5. CASE emptyPasses' >= EmptyLimit
    <3>1. SkipRest
      BY <1>3, <2>5 DEF CountPass
    <3> QED BY <2>1, <2>4, <3>1, TheEnd
  <2>6. CASE ~(emptyPasses' >= EmptyLimit)
    <3>1. stage' = "pass" /\ UNCHANGED <<active, skipped, listed>>
      BY <1>3, <2>6 DEF CountPass
    <3>2. PassTypes'
      BY <2>1, <2>4, <3>1 DEF PassTypes
    <3>3. Loops' /\ Skips' /\ WithinComparators' /\ FewPasses'
      BY <2>1, <3>1 DEF Loops, Skips, WithinComparators, FewPasses, PassTypes
    <3>4. passes <= (EmptyLimit * Cardinality(tested)) + emptyPasses'
      <4>1. PICK t \in Nat : t = Cardinality(tested)
        BY <2>3
      <4>2. EmptyLimit * before \in Nat /\ EmptyLimit * t \in Nat
            /\ (before < t => (EmptyLimit * before) + EmptyLimit <= EmptyLimit * t)
        BY <2>2, <2>3, <4>1, MoreProcs
      <4>3. CASE t = before
        <5>1. emptyPasses' = emptyPasses + 1
          BY <2>1, <4>1, <4>3
        <5> QED BY <2>2, <2>3, <4>1, <4>2, <4>3, <5>1
      <4>4. CASE t # before
        <5>1. emptyPasses' = 0 /\ before < t
          BY <2>1, <2>2, <2>3, <4>1, <4>4
        <5>2. passes <= (EmptyLimit * before) + EmptyLimit
          BY <2>2, <2>3, <4>2
        <5> QED BY <2>3, <4>1, <4>2, <5>1, <5>2
      <4> QED BY <4>3, <4>4
    <3>5. emptyPasses' < EmptyLimit
      BY <2>3, <2>4, <2>6
    <3>6. Paid'
      BY <2>1, <3>1, <3>4, <3>5 DEF Paid
    <3> QED BY <3>2, <3>3, <3>6
  <2> QED BY <2>5, <2>6
<1> QED BY <1>1, <1>2, <1>3

LEMMA PassStep == PassInv /\ [ElfNext]_elfVars => PassInv'
<1> SUFFICES ASSUME PassInv, [ElfNext]_elfVars PROVE PassInv'
  OBVIOUS
<1>1. CASE UNCHANGED elfVars
  <2> USE <1>1 DEF elfVars, PassInv
  <2>1. PassTypes' /\ Loops' /\ Skips'
    BY DEF PassTypes, Loops, Skips, Untested
  <2>2. Paid' /\ WithinComparators' /\ FewPasses'
    BY DEF Paid, WithinComparators, FewPasses
  <2> QED BY <2>1, <2>2
<1>2. CASE StartOpenOCD \/ StartPass \/ PassEnds \/ CountPass \/ LastPass
  BY <1>2, PassBegins, PassIsOver
<1>3. CASE StartJLink \/ JLinkEnds \/ PcLost \/ ElfDone
  BY <1>3, JLinkSteps
<1>4. ASSUME NEW p \in Procs, JLinkHit(p) \/ HwHit(p) PROVE PassInv'
  BY <1>4, JLinkSteps, BreakpointMoves
<1> QED BY <1>1, <1>2, <1>3, <1>4 DEF ElfNext

(* The passes lose no procedure, use no more breakpoints than there are,   *)
(* are few, and at the end what was not reached has been counted.          *)
THEOREM PassesAreSound == ElfSpec => []PassesSound
<1>1. PassInv => PassesSound
  <2> SUFFICES ASSUME PassInv PROVE PassesSound
    OBVIOUS
  <2>1. Range(candidates) \subseteq Testable
    BY DEF PassInv, PassTypes, Range
  <2>2. ElfTypeOK
    BY <2>1 DEF PassInv, PassTypes, ElfTypeOK
  <2>3. NoneForgotten
    BY DEF PassInv, PassTypes, Loops, NoneForgotten, Untested
  <2>4. Accounted
    BY DEF PassInv, Skips, Accounted, Untested
  <2> QED BY <2>2, <2>3, <2>4 DEF PassInv, PassesSound
<1> QED BY <1>1, PassInitially, PassStep, PTL DEF ElfSpec

-----------------------------------------------------------------------------
(* The run of the gdb test engine.                                         *)

Statuses == {"ERROR", "TRACE", "PASS", "FAIL"}

\* An outcome is that of an action of the plan in the frame it has
Entry ==
  {r \in [hit : Nat, bp : Nat, action : Nat, status : Statuses, frame : Frames] :
     /\ r.bp \in DOMAIN plan.bps /\ r.action \in DOMAIN plan.bps[r.bp].actions
     /\ ~Raises(ActionAt(r).target)
     /\ r.status = Outcome(r.frame, ActionAt(r), plan.bps[r.bp].proc, Table)}

HaltsAt(r) == Halts(ActionAt(r), r.status)

\* Outcomes being collected: one that halts is the last
Good(e) ==
  /\ e \in [list : Seq(Entry), end : {"", "halt", "exception"}]
  /\ \A i \in DOMAIN e.list : HaltsAt(e.list[i]) => i = Len(e.list) /\ e.end = "halt"

\* Where the engine is: it has looked at the limit before it goes on
Going ==
  /\ phase # "done" => reason = "max_hits"
  /\ phase \in {"running", "stopped", "handle"} => hits + 1 <= plan.max
  /\ \A d \in DOMAIN plan.dirs : counts[d] <= hits

\* Timers are cancelled before the next continue
TimersInTime ==
  /\ phase \in {"connect", "loop", "handle", "done"} => timers = {}
  /\ phase \in {"running", "stopped"} => timers \subseteq {hits + 1}

\* The window has been opened by a start directive
Window ==
  /\ open /\ HasStart =>
       \E d \in DirsOf("start") : plan.dirs[d].cond.kind = "hits" => counts[d] >= plan.dirs[d].cond.n
  /\ results # <<>> => open

\* What is recorded
Outcomes ==
  /\ results \in Seq(Entry)
  /\ \A i \in DOMAIN results :
       HaltsAt(results[i]) => i = Len(results) /\ phase = "done" /\ reason = "halt"
  /\ AllChecksSeen

RunInv == TypeOK /\ Going /\ TimersInTime /\ Window /\ Outcomes

LEMMA PlanIs ==
  ASSUME TypeOK
  PROVE /\ plan.max \in Nat
        /\ Len(plan.bps) \in Nat /\ DOMAIN plan.bps = 1 .. Len(plan.bps)
        /\ \A b \in DOMAIN plan.bps : /\ Len(plan.bps[b].actions) \in Nat
                                      /\ DOMAIN plan.bps[b].actions = 1 .. Len(plan.bps[b].actions)
        /\ Len(plan.dirs) \in Nat /\ DOMAIN plan.dirs = 1 .. Len(plan.dirs)
        /\ \A d \in DOMAIN plan.dirs :
             /\ plan.dirs[d].kind = "hits" => plan.dirs[d].n \in Int
             /\ plan.dirs[d].kind \in {"start", "stop"} /\ plan.dirs[d].cond.kind = "hits" =>
                  plan.dirs[d].cond.n \in Int
        /\ Unreadable \notin AllAddrs /\ Elsewhere \notin AllAddrs
<1>1. plan \in Plans
  BY DEF TypeOK
<1>2. \A s : IsList(s) => Len(s) \in Nat /\ DOMAIN s = 1 .. Len(s)
  BY DEF IsList
<1>3. \A a \in AllAddrs : a \in Nat \ {Elsewhere}
  BY <1>1, GdbTestAssumption DEF AllAddrs, DirsOf
<1> QED BY <1>1, <1>2, <1>3, GdbTestAssumption DEF Unreadable, Elsewhere

LEMMA LastIsOne ==
  ASSUME TypeOK, NEW ds \in SUBSET DOMAIN plan.dirs, ds # {}
  PROVE  Max(ds) \in ds
<1> DEFINE above == {k \in Nat : \A e \in ds : e <= k}
<1>1. ds \subseteq Nat /\ Len(plan.dirs) \in above
  BY PlanIs
<1>2. PICK k \in above : \A y \in above : k <= y
  BY <1>1, LeastNumber
<1>3. k \in ds
  <2>1. SUFFICES ASSUME k \notin ds PROVE FALSE
    OBVIOUS
  <2>2. PICK e \in ds : TRUE
    OBVIOUS
  <2>3. k - 1 \in above
    BY <1>1, <1>2, <2>1, <2>2
  <2> QED BY <1>2, <2>3
<1>4. \E x \in ds : \A y \in ds : x >= y
  BY <1>1, <1>2, <1>3
<1> QED BY <1>4 DEF Max

\* A start or stop sentinel is a directive of its kind
LEMMA SentinelIs ==
  ASSUME TypeOK, NEW kind, NEW a, NEW d \in SentinelAt(kind, a)
  PROVE  d \in DirsOf(kind)
<1> DEFINE ds == {e \in DirsOf(kind) : plan.dirs[e].addr = <<a>>}
<1>1. ds # {} /\ d = Max(ds) /\ ds \in SUBSET DOMAIN plan.dirs
  BY DEF SentinelAt, DirsOf
<1>2. Max(ds) \in ds
  BY <1>1, LastIsOne
<1> QED BY <1>1, <1>2

LEMMA OutcomeIs ==
  ASSUME NEW s, NEW a, NEW proc
  PROVE Outcome(s, a, proc, Table) \in Statuses
BY DEF Outcome, Verdict, Statuses

\* One more outcome
LEMMA OutcomeIsAdded ==
  ASSUME TypeOK, NEW done, Good(done),
         NEW b \in DOMAIN plan.bps, NEW i \in DOMAIN plan.bps[b].actions
  PROVE  Good(AddOutcome(done, b, i))
<1> DEFINE a == plan.bps[b].actions[i]
           status == Outcome(frame, a, plan.bps[b].proc, Table)
           r == [hit |-> hits + 1, bp |-> b, action |-> i, status |-> status, frame |-> frame]
           end == IF Halts(a, status) THEN "halt" ELSE ""
           raises == RaisesAt(frame, a, plan.bps[b].proc, Table)
<1>1. CASE done.end # ""
  BY <1>1 DEF AddOutcome
<1>2. CASE done.end = "" /\ raises
  <2>1. AddOutcome(done, b, i) = [list |-> done.list, end |-> "exception"]
    BY <1>2 DEF AddOutcome
  <2>2. done.list \in Seq(Entry) /\ \A j \in DOMAIN done.list : ~HaltsAt(done.list[j])
    BY <1>2 DEF Good
  <2> DEFINE e == [list |-> done.list, end |-> "exception"]
  <2>3. e.list = done.list /\ e \in [list : Seq(Entry), end : {"", "halt", "exception"}]
    BY <2>2
  <2> HIDE DEF e
  <2>4. Good(e)
    BY <2>2, <2>3 DEF Good
  <2> QED BY <2>1, <2>4 DEF e
<1>3. CASE done.end = "" /\ ~raises
  <2>0. ~Raises(a.target)
    BY <1>3 DEF RaisesAt
  <2>1. status \in Statuses
    BY OutcomeIs DEF Statuses
  <2>2. b \in Nat /\ i \in Nat /\ hits + 1 \in Nat /\ frame \in Frames
    <3>1. plan.max \in Nat /\ DOMAIN plan.bps = 1 .. Len(plan.bps) /\ Len(plan.bps) \in Nat
          /\ DOMAIN plan.bps[b].actions = 1 .. Len(plan.bps[b].actions) /\ Len(plan.bps[b].actions) \in Nat
      BY PlanIs
    <3>2. hits \in 0 .. plan.max /\ frame \in Frames
      BY DEF TypeOK
    <3> QED BY <3>1, <3>2
  <2> HIDE DEF status
  <2>3. r \in Entry
    <3>1. ActionAt(r) = a
      BY DEF ActionAt
    <3>2. r.status = Outcome(r.frame, ActionAt(r), plan.bps[r.bp].proc, Table)
      BY <3>1 DEF status
    <3> QED BY <2>0, <2>1, <2>2, <3>1, <3>2 DEF Entry
  <2>4. HaltsAt(r) <=> Halts(a, status)
    BY DEF HaltsAt, ActionAt
  <2>6. end \in {"", "halt", "exception"} /\ (Halts(a, status) => end = "halt")
    OBVIOUS
  <2>7. AddOutcome(done, b, i) = [list |-> Append(done.list, r), end |-> end]
    BY <1>3 DEF AddOutcome, status
  <2> HIDE DEF r, end
  <2>8. done.list \in Seq(Entry) /\ \A j \in DOMAIN done.list : ~HaltsAt(done.list[j])
    BY <1>3 DEF Good
  <2>9. Append(done.list, r) \in Seq(Entry) /\ Len(Append(done.list, r)) = Len(done.list) + 1
        /\ \A j \in DOMAIN Append(done.list, r) :
             Append(done.list, r)[j] = IF j = Len(done.list) + 1 THEN r ELSE done.list[j]
    BY <2>3, <2>8
  <2>10. \A j \in DOMAIN Append(done.list, r) :
           HaltsAt(Append(done.list, r)[j]) => j = Len(done.list) + 1 /\ end = "halt"
    <3> SUFFICES ASSUME NEW j \in DOMAIN Append(done.list, r), HaltsAt(Append(done.list, r)[j])
                 PROVE  j = Len(done.list) + 1 /\ end = "halt"
      OBVIOUS
    <3>1. CASE j = Len(done.list) + 1
      <4>1. Append(done.list, r)[j] = r
        BY <2>9, <3>1
      <4>2. HaltsAt(r)
        BY <4>1
      <4> QED BY <2>4, <2>6, <3>1, <4>2
    <3>2. CASE j # Len(done.list) + 1
      <4>1. Append(done.list, r)[j] = done.list[j]
        BY <2>9, <3>2
      <4>2. HaltsAt(done.list[j])
        BY <4>1
      <4>3. j \in DOMAIN done.list
        BY <2>8, <2>9, <3>2
      <4> QED BY <2>8, <4>2, <4>3
    <3> QED BY <3>1, <3>2
  <2> DEFINE e == [list |-> Append(done.list, r), end |-> end]
  <2>11. e.list = Append(done.list, r) /\ e.end = end /\ e \in [list : Seq(Entry), end : {"", "halt", "exception"}]
    BY <2>6, <2>9
  <2> HIDE DEF e
  <2>12. Good(e)
    BY <2>9, <2>10, <2>11 DEF Good
  <2> QED BY <2>7, <2>12 DEF e
<1> QED BY <1>1, <1>2, <1>3

-----------------------------------------------------------------------------
(* The two loops over actions and breakpoints: what they compute is a      *)
(* function, and each step keeps the list good.                            *)

\* The outcomes of the first actions of b
After(done, b) ==
  LET after[i \in 0 .. Len(plan.bps[b].actions)] ==
        IF i = 0 THEN done ELSE AddOutcome(after[i - 1], b, i)
  IN  after

LEMMA ActionsInTurn ==
  ASSUME NEW done, NEW b, Len(plan.bps[b].actions) \in Nat
  PROVE  After(done, b) = [i \in 0 .. Len(plan.bps[b].actions) |->
                             IF i = 0 THEN done ELSE AddOutcome(After(done, b)[i - 1], b, i)]
<1> DEFINE G(x, i) == AddOutcome(x, b, i)
           N == Len(plan.bps[b].actions)
           Is(f, m) == f = [i \in 0 .. m |-> IF i = 0 THEN done ELSE G(f[i - 1], i)]
           Ok(m) == \E f : Is(f, m)
           Bad == {m \in Nat : ~Ok(m)}
<1>1. \A m \in Nat : Ok(m)
  <2>1. SUFFICES ASSUME Bad # {} PROVE FALSE
    OBVIOUS
  <2>2. PICK m \in Bad : \A y \in Bad : m <= y
    <3> HIDE DEF Ok
    <3> QED BY <2>1, LeastNumber
  <2>3. m # 0
    <3> HIDE DEF G
    <3>1. Is([n \in 0 .. 0 |-> done], 0)
      OBVIOUS
    <3> QED BY <3>1
  <2>4. Ok(m - 1)
    <3> HIDE DEF Ok
    <3> QED BY <2>2, <2>3
  <2>5. PICK g : Is(g, m - 1)
    BY <2>4
  <2>6. Ok(m)
    <3> HIDE DEF G
    <3> DEFINE h == [n \in 0 .. m |-> IF n < m THEN g[n] ELSE G(g[m - 1], m)]
    <3>1. ASSUME NEW n \in 0 .. m PROVE h[n] = IF n = 0 THEN done ELSE G(h[n - 1], n)
      <4>1. CASE n = m
        BY <4>1, <2>3
      <4>2. CASE n < m
        BY <4>2, <2>3, <2>5
      <4> QED BY <4>1, <4>2
    <3> HIDE DEF h
    <3>2. h = [n \in 0 .. m |-> h[n]]
      BY DEF h
    <3>3. Is(h, m)
      BY <3>1, <3>2
    <3> QED BY <3>3
  <2> QED BY <2>6
<1>2. PICK f : Is(f, N)
  BY <1>1
<1>3. After(done, b) = CHOOSE f1 : Is(f1, N)
  BY DEF After
<1> HIDE DEF Is
<1>4. Is(After(done, b), N)
  BY <1>2, <1>3
<1> QED BY <1>4 DEF Is

LEMMA ActionsAreGood ==
  ASSUME TypeOK, NEW done, Good(done), NEW b \in DOMAIN plan.bps
  PROVE  Good(OutcomesOf(done, b))
<1> DEFINE N == Len(plan.bps[b].actions)
           f == After(done, b)
           Bad == {i \in 0 .. N : ~Good(f[i])}
<1>1. N \in Nat /\ DOMAIN plan.bps[b].actions = 1 .. N
  BY PlanIs
<1>2. f = [i \in 0 .. N |-> IF i = 0 THEN done ELSE AddOutcome(f[i - 1], b, i)]
  BY <1>1, ActionsInTurn
<1> HIDE DEF f
<1>3. Bad = {}
  <2>1. SUFFICES ASSUME Bad # {} PROVE FALSE
    OBVIOUS
  <2>2. PICK i \in Bad : \A y \in Bad : i <= y
    <3>1. Bad \in SUBSET Nat
      BY <1>1
    <3> HIDE DEF Bad
    <3> QED BY <2>1, <3>1, LeastNumber
  <2>3. i # 0
    BY <1>1, <1>2
  <2>4. i - 1 \in 0 .. N /\ Good(f[i - 1]) /\ i \in 1 .. N
    BY <1>1, <2>2, <2>3
  <2>5. f[i] = AddOutcome(f[i - 1], b, i)
    BY <1>2, <2>3
  <2>6. Good(f[i])
    BY <1>1, <2>4, <2>5, OutcomeIsAdded
  <2> QED BY <2>6
<1>4. OutcomesOf(done, b) = f[N]
  BY DEF OutcomesOf, After, f
<1> QED BY <1>1, <1>3, <1>4

\* The outcomes of the first breakpoints
UpTo ==
  LET after[b \in 0 .. Len(plan.bps)] ==
        IF b = 0 THEN [list |-> results, end |-> ""]
        ELSE IF b \in BpsAt(pc) THEN OutcomesOf(after[b - 1], b) ELSE after[b - 1]
  IN  after

LEMMA BreakpointsInTurn ==
  ASSUME Len(plan.bps) \in Nat
  PROVE  UpTo = [b \in 0 .. Len(plan.bps) |->
                   IF b = 0 THEN [list |-> results, end |-> ""]
                   ELSE IF b \in BpsAt(pc) THEN OutcomesOf(UpTo[b - 1], b) ELSE UpTo[b - 1]]
<1> DEFINE base == [list |-> results, end |-> ""]
           G(x, b) == IF b \in BpsAt(pc) THEN OutcomesOf(x, b) ELSE x
           N == Len(plan.bps)
           Is(f, m) == f = [b \in 0 .. m |-> IF b = 0 THEN base ELSE G(f[b - 1], b)]
           Ok(m) == \E f : Is(f, m)
           Bad == {m \in Nat : ~Ok(m)}
<1>1. \A m \in Nat : Ok(m)
  <2>1. SUFFICES ASSUME Bad # {} PROVE FALSE
    OBVIOUS
  <2>2. PICK m \in Bad : \A y \in Bad : m <= y
    <3> HIDE DEF Ok
    <3> QED BY <2>1, LeastNumber
  <2>3. m # 0
    <3> HIDE DEF G, base
    <3>1. Is([b \in 0 .. 0 |-> base], 0)
      OBVIOUS
    <3> QED BY <3>1
  <2>4. Ok(m - 1)
    <3> HIDE DEF Ok
    <3> QED BY <2>2, <2>3
  <2>5. PICK g : Is(g, m - 1)
    BY <2>4
  <2>6. Ok(m)
    <3> HIDE DEF G, base
    <3> DEFINE h == [n \in 0 .. m |-> IF n < m THEN g[n] ELSE G(g[m - 1], m)]
    <3>1. ASSUME NEW n \in 0 .. m PROVE h[n] = IF n = 0 THEN base ELSE G(h[n - 1], n)
      <4>1. CASE n = m
        BY <4>1, <2>3
      <4>2. CASE n < m
        BY <4>2, <2>3, <2>5
      <4> QED BY <4>1, <4>2
    <3> HIDE DEF h
    <3>2. h = [n \in 0 .. m |-> h[n]]
      BY DEF h
    <3>3. Is(h, m)
      BY <3>1, <3>2
    <3> QED BY <3>3
  <2> QED BY <2>6
<1>2. PICK f : Is(f, N)
  BY <1>1
<1>3. UpTo = CHOOSE f1 : Is(f1, N)
  BY DEF UpTo
<1> HIDE DEF Is
<1>4. Is(UpTo, N)
  BY <1>2, <1>3
<1> QED BY <1>4 DEF Is

\* What a stop records, and how it ends
LEMMA EvaluationIsGood ==
  ASSUME TypeOK, Outcomes, phase # "done"
  PROVE  Good(Evaluate) /\ (~Opens => Evaluate.list = results)
<1> DEFINE N == Len(plan.bps)
           e == [list |-> results, end |-> ""]
           f == UpTo
           Bad == {b \in 0 .. N : ~Good(f[b])}
<1>1. N \in Nat /\ DOMAIN plan.bps = 1 .. N
  BY PlanIs
<1>2. f = [b \in 0 .. N |->
             IF b = 0 THEN e ELSE IF b \in BpsAt(pc) THEN OutcomesOf(f[b - 1], b) ELSE f[b - 1]]
  BY <1>1, BreakpointsInTurn
<1> HIDE DEF f
<1>3. Good(f[0]) /\ f[0].list = results
  <2>1. e.list = results /\ e.end = "" /\ e \in [list : Seq(Entry), end : {"", "halt", "exception"}]
    BY DEF Outcomes
  <2>2. \A i \in DOMAIN results : ~HaltsAt(results[i])
    BY DEF Outcomes
  <2> HIDE DEF e
  <2>3. f[0] = e
    BY <1>1, <1>2
  <2> QED BY <2>1, <2>2, <2>3 DEF Good
<1>4. Bad = {}
  <2>1. SUFFICES ASSUME Bad # {} PROVE FALSE
    OBVIOUS
  <2>2. PICK b \in Bad : \A y \in Bad : b <= y
    <3>1. Bad \in SUBSET Nat
      BY <1>1
    <3> HIDE DEF Bad
    <3> QED BY <2>1, <3>1, LeastNumber
  <2>3. b # 0
    BY <1>3
  <2>4. b - 1 \in 0 .. N /\ Good(f[b - 1]) /\ b \in DOMAIN plan.bps
    BY <1>1, <2>2, <2>3
  <2>5. f[b] = IF b \in BpsAt(pc) THEN OutcomesOf(f[b - 1], b) ELSE f[b - 1]
    BY <1>2, <2>3
  <2>6. Good(OutcomesOf(f[b - 1], b))
    BY <2>4, ActionsAreGood
  <2>7. Good(f[b])
    BY <2>4, <2>5, <2>6
  <2> QED BY <2>7
<1>5. Evaluate = f[IF Opens THEN N ELSE 0]
  BY DEF Evaluate, UpTo, f
<1>6. Good(f[N])
  BY <1>1, <1>4
<1> HIDE DEF Bad
<1>7. CASE Opens
  <2>1. Evaluate = f[N]
    BY <1>5, <1>7
  <2> QED BY <1>6, <1>7, <2>1
<1>8. CASE ~Opens
  <2>1. Evaluate = f[0]
    BY <1>5, <1>8
  <2> QED BY <1>3, <1>8, <2>1
<1> QED BY <1>7, <1>8

-----------------------------------------------------------------------------
(* The steps of the run.                                                   *)

LEMMA RunBegins == Init => RunInv
<1> SUFFICES ASSUME Init PROVE RunInv
  OBVIOUS
<1>1. plan.max \in Nat
  BY GdbTestAssumption DEF Init
<1>2. TypeOK
  BY <1>1 DEF Init, TypeOK
<1>3. Going /\ TimersInTime
  BY <1>1 DEF Init, Going, TimersInTime
<1>4. Window
  BY DEF Init, Window
<1>5. Outcomes
  <2>1. results \in Seq(Entry) /\ DOMAIN results = {} /\ reason # "all_checks"
    BY DEF Init
  <2> QED BY <2>1 DEF Outcomes, AllChecksSeen
<1> QED BY <1>2, <1>3, <1>4, <1>5 DEF RunInv

\* What goes on with plan and results as they are, before the end
LEMMA NothingRecorded ==
  ASSUME RunInv, UNCHANGED <<plan, results, open, counts>>, phase # "done",
         reason' # "all_checks"
  PROVE  Window' /\ Outcomes'
<1>1. Window'
  BY DEF RunInv, Window, HasStart, DirsOf
<1>2. Entry' = Entry
  BY DEF Entry, ActionAt
<1>3. \A r : HaltsAt(r)' <=> HaltsAt(r)
  BY DEF HaltsAt, Halts, ActionAt
<1>4. \A i \in DOMAIN results : ~HaltsAt(results[i])
  BY DEF RunInv, Outcomes
<1>5. AllChecksSeen'
  BY DEF AllChecksSeen
<1> QED BY <1>1, <1>2, <1>3, <1>4, <1>5 DEF RunInv, Outcomes

LEMMA RunStarts ==
  ASSUME RunInv, ConnectFails \/ Connect \/ Continue \/ Exhausted
  PROVE  RunInv'
<1>1. plan.max \in Nat
  BY PlanIs DEF RunInv
<1>2. AllAddrs' = AllAddrs
  BY DEF ConnectFails, Connect, Continue, Exhausted, AllAddrs, DirsOf
<1>3. hits < MaxHits => hits + 1 \in 1 .. plan.max
  <2> DEFINE d == Max(DirsOf("hits"))
  <2>1. hits \in Nat
    BY <1>1 DEF RunInv, TypeOK
  <2>2. CASE DirsOf("hits") # {} /\ plan.dirs[d].n < plan.max
    <3>1. d \in DirsOf("hits")
      BY <2>2, LastIsOne DEF DirsOf, RunInv
    <3>2. plan.dirs[d].n \in Int
      BY <3>1, PlanIs DEF DirsOf, RunInv
    <3>3. MaxHits = plan.dirs[d].n
      BY <2>2 DEF MaxHits
    <3> QED BY <1>1, <2>1, <2>2, <3>2, <3>3
  <2>3. CASE ~(DirsOf("hits") # {} /\ plan.dirs[d].n < plan.max)
    <3>1. MaxHits = plan.max
      BY <2>3 DEF MaxHits
    <3> QED BY <1>1, <2>1, <3>1
  <2> QED BY <2>2, <2>3
<1>4. TypeOK'
  BY <1>1, <1>2, <1>3 DEF RunInv, TypeOK, ConnectFails, Connect, Continue, Exhausted, Stop
<1>5. Going'
  BY <1>1, <1>3 DEF RunInv, TypeOK, Going, ConnectFails, Connect, Continue, Exhausted, Stop
<1>6. TimersInTime'
  BY <1>2 DEF RunInv, TimersInTime, ConnectFails, Connect, Continue, Exhausted, Stop
<1>7. Window' /\ Outcomes'
  BY NothingRecorded DEF ConnectFails, Connect, Continue, Exhausted, Stop, RunInv, Going
<1> QED BY <1>4, <1>5, <1>6, <1>7 DEF RunInv

LEMMA TargetStops ==
  ASSUME RunInv, Break \/ Interrupt \/ Lost \/ Cancel \/ NoBreakpoint \/ LeaveHere \/ Timer
  PROVE  RunInv'
<1>1. plan.max \in Nat /\ Unreadable \notin AllAddrs /\ Elsewhere \notin AllAddrs
  BY PlanIs DEF RunInv
<1>2. AllAddrs' = AllAddrs
  BY DEF Break, Interrupt, Lost, Cancel, NoBreakpoint, LeaveHere, Timer, Fire, AllAddrs, DirsOf
<1>3. TypeOK'
  <2>1. CASE Break \/ Interrupt \/ Lost
    BY <1>2, <2>1 DEF RunInv, TypeOK, Break, Interrupt, Lost
  <2>2. CASE Cancel \/ NoBreakpoint \/ LeaveHere
    BY <1>2, <2>2 DEF RunInv, TypeOK, Cancel, NoBreakpoint, LeaveHere, Stop
  <2>3. CASE Timer
    BY <1>2, <2>3 DEF RunInv, TypeOK, Timer, Fire
  <2> QED BY <2>1, <2>2, <2>3
<1>4. Going'
  BY <1>1 DEF RunInv, TypeOK, Going, Break, Interrupt, Lost, Cancel, NoBreakpoint, LeaveHere, Timer, Fire, Stop
<1>5. TimersInTime'
  BY <1>1, <1>2 DEF RunInv, TypeOK, TimersInTime, Break, Interrupt, Lost, Cancel, NoBreakpoint, LeaveHere, Timer, Fire, Stop
<1>6. phase # "done" /\ reason = "max_hits"
  BY DEF Break, Interrupt, Lost, Cancel, NoBreakpoint, LeaveHere, Timer, RunInv, TimersInTime, Going
<1>7. UNCHANGED <<plan, results, open, counts>> /\ reason' # "all_checks"
  BY <1>6 DEF Break, Interrupt, Lost, Cancel, NoBreakpoint, LeaveHere, Timer, Fire, Stop
<1>8. Window' /\ Outcomes'
  BY <1>6, <1>7, NothingRecorded
<1> QED BY <1>3, <1>4, <1>5, <1>8 DEF RunInv

\* A stop at a breakpoint counts, and may open the window
LEMMA StopCounts ==
  ASSUME RunInv, phase = "handle", pc \in AllAddrs,
         hits' = hits + 1, open' = Opens, counts' = NewCounts, phase' \in {"loop", "done"},
         phase' # "done" => reason' = reason,
         UNCHANGED <<plan, set, pc, frame, timers, pending>>
  PROVE  TypeOK' /\ Going' /\ TimersInTime'
         /\ (HasStart /\ open' => \E d \in DirsOf("start") :
               plan.dirs[d].cond.kind = "hits" => counts'[d] >= plan.dirs[d].cond.n)
<1>1. plan.max \in Nat /\ hits \in 0 .. plan.max /\ hits + 1 <= plan.max
  BY PlanIs DEF RunInv, TypeOK, Going
<1>2. AllAddrs' = AllAddrs
  BY DEF AllAddrs, DirsOf
<1>3. counts \in [DOMAIN plan.dirs -> 0 .. plan.max] /\ \A d \in DOMAIN plan.dirs : counts[d] <= hits
  BY DEF RunInv, TypeOK, Going
<1>4. /\ counts' \in [DOMAIN plan.dirs -> 0 .. plan.max]
      /\ \A d \in DOMAIN plan.dirs :
           counts[d] <= counts'[d] /\ counts'[d] <= hits + 1 /\ counts'[d] = NewCounts[d]
  <2>1. \A d \in DOMAIN plan.dirs : NewCounts[d] \in {counts[d], counts[d] + 1}
    BY DEF NewCounts
  <2>2. counts' = [d \in DOMAIN plan.dirs |-> NewCounts[d]]
    BY DEF NewCounts
  <2>3. ASSUME NEW d \in DOMAIN plan.dirs
        PROVE  /\ counts'[d] = NewCounts[d] /\ counts[d] <= counts'[d] /\ counts'[d] <= hits + 1
               /\ counts'[d] \in 0 .. plan.max
    <3>1. counts[d] \in 0 .. plan.max /\ counts[d] <= hits
      BY <1>3
    <3>2. counts'[d] = NewCounts[d] /\ counts'[d] \in {counts[d], counts[d] + 1}
      BY <2>1, <2>2
    <3> QED BY <1>1, <3>1, <3>2
  <2> HIDE DEF NewCounts
  <2> QED BY <2>2, <2>3
<1>5. Opens \in BOOLEAN
  BY DEF Opens, RunInv, TypeOK
<1>6. TypeOK'
  BY <1>1, <1>2, <1>4, <1>5 DEF RunInv, TypeOK
<1>7. Going'
  BY <1>1, <1>4 DEF RunInv, Going
<1>8. TimersInTime'
  BY <1>1, <1>2 DEF RunInv, TimersInTime
<1>9. ASSUME HasStart, open'
      PROVE  \E d \in DirsOf("start") :
               plan.dirs[d].cond.kind = "hits" => counts'[d] >= plan.dirs[d].cond.n
  <2>1. CASE open
    <3>1. PICK d \in DirsOf("start") : plan.dirs[d].cond.kind = "hits" => counts[d] >= plan.dirs[d].cond.n
      BY <1>9, <2>1 DEF RunInv, Window
    <3>2. d \in DOMAIN plan.dirs /\ (plan.dirs[d].cond.kind = "hits" => plan.dirs[d].cond.n \in Int)
      BY <3>1, PlanIs DEF DirsOf, RunInv
    <3>3. counts[d] \in Int /\ counts'[d] \in Int /\ counts[d] <= counts'[d]
      BY <1>3, <1>4, <3>2
    <3> QED BY <3>1, <3>2, <3>3
  <2>2. CASE ~open
    <3>1. PICK d \in SentinelAt("start", pc) : Applies(d)
      BY <1>9, <2>2 DEF Opens
    <3>2. d \in DirsOf("start") /\ d \in DOMAIN plan.dirs
      BY SentinelIs DEF RunInv, DirsOf
    <3>3. plan.dirs[d].cond.kind = "hits" => NewCounts[d] >= plan.dirs[d].cond.n
      BY <3>1 DEF Applies, ConditionHolds
    <3> QED BY <1>4, <3>2, <3>3
  <2> QED BY <2>1, <2>2
<1> QED BY <1>6, <1>7, <1>8, <1>9

LEMMA ValuesAreFinite ==
  ASSUME NEW D, IsFiniteSet(D), NEW f, f = [x \in D |-> f[x]]
  PROVE  IsFiniteSet({f[x] : x \in D})
<1>1. f \in Surjection(D, {f[x] : x \in D})
  BY DEF Surjection
<1> QED BY <1>1, FS_Surjection

\* A plan with n checks is through when n of them have an outcome
LEMMA AllAreSeen ==
  ASSUME TypeOK, NEW list \in Seq(Entry), AllChecks(list)
  PROVE  \A b \in DOMAIN plan.bps : \A i \in DOMAIN plan.bps[b].actions :
           plan.bps[b].actions[i].kind = "check" => \E r \in Range(list) : r.bp = b /\ r.action = i
<1>1. IsFiniteSet(Checks)
  <2> DEFINE Of(b) == {<<b, i>> : i \in {j \in DOMAIN plan.bps[b].actions : plan.bps[b].actions[j].kind = "check"}}
             N == Len(plan.bps)
  <2>1. N \in Nat /\ DOMAIN plan.bps = 1 .. N
    BY PlanIs
  <2>2. ASSUME NEW b \in DOMAIN plan.bps PROVE IsFiniteSet(Of(b))
    <3>1. IsFiniteSet(DOMAIN plan.bps[b].actions)
      <4>1. Len(plan.bps[b].actions) \in Int /\ DOMAIN plan.bps[b].actions = 1 .. Len(plan.bps[b].actions)
        BY PlanIs
      <4> QED BY <4>1, FS_Interval
    <3>2. IsFiniteSet({j \in DOMAIN plan.bps[b].actions : plan.bps[b].actions[j].kind = "check"})
      BY <3>1, FS_Subset
    <3> DEFINE J == {j \in DOMAIN plan.bps[b].actions : plan.bps[b].actions[j].kind = "check"}
               f == [j \in J |-> <<b, j>>]
    <3>3. IsFiniteSet({f[j] : j \in J})
      <4>1. f = [j \in J |-> f[j]] /\ IsFiniteSet(J)
        BY <3>2
      <4> HIDE DEF f, J
      <4> QED BY <4>1, ValuesAreFinite
    <3>4. {f[j] : j \in J} = Of(b)
      OBVIOUS
    <3> QED BY <3>3, <3>4
  <2>3. IsFiniteSet(DOMAIN plan.bps)
    <3>1. Len(plan.bps) \in Int /\ DOMAIN plan.bps = 1 .. Len(plan.bps)
      BY <2>1
    <3> QED BY <3>1, FS_Interval, SMTT(30)
  <2>4. IsFiniteSet({Of(b) : b \in DOMAIN plan.bps})
    <3> DEFINE f == [b \in DOMAIN plan.bps |-> Of(b)]
    <3>1. f = [b \in DOMAIN plan.bps |-> f[b]]
      OBVIOUS
    <3>2. {f[b] : b \in DOMAIN plan.bps} = {Of(b) : b \in DOMAIN plan.bps}
      OBVIOUS
    <3> HIDE DEF f
    <3>3. IsFiniteSet({f[b] : b \in DOMAIN plan.bps})
      BY <2>3, <3>1, ValuesAreFinite
    <3> QED BY <3>2, <3>3
  <2>5. \A S \in {Of(b) : b \in DOMAIN plan.bps} : IsFiniteSet(S)
    BY <2>2
  <2>6. IsFiniteSet(UNION {Of(b) : b \in DOMAIN plan.bps})
    BY <2>4, <2>5, FS_UNION
  <2> QED BY <2>6 DEF Checks
<1>2. Evaluated(list) \subseteq Checks
  <2>1. SUFFICES ASSUME NEW j \in DOMAIN list, ActionAt(list[j]).kind = "check"
                 PROVE  <<list[j].bp, list[j].action>> \in Checks
    BY DEF Evaluated
  <2>2. list[j].bp \in DOMAIN plan.bps /\ list[j].action \in DOMAIN plan.bps[list[j].bp].actions
    BY DEF Entry
  <2> QED BY <2>1, <2>2 DEF ActionAt, Checks
<1>3. Evaluated(list) = Checks
  <2>1. IsFiniteSet(Evaluated(list)) /\ Cardinality(Evaluated(list)) <= Cardinality(Checks)
        /\ (Cardinality(Evaluated(list)) = Cardinality(Checks) => Evaluated(list) = Checks)
    BY <1>1, <1>2, FS_Subset
  <2>2. Cardinality(Evaluated(list)) \in Nat /\ Cardinality(Checks) \in Nat
    BY <1>1, <2>1, FS_CardinalityType
  <2>3. Cardinality(Evaluated(list)) >= Cardinality(Checks)
    BY DEF AllChecks, TotalChecks
  <2> QED BY <2>1, <2>2, <2>3
<1>4. ASSUME NEW b \in DOMAIN plan.bps, NEW i \in DOMAIN plan.bps[b].actions,
             plan.bps[b].actions[i].kind = "check"
      PROVE  \E r \in Range(list) : r.bp = b /\ r.action = i
  <2>1. <<b, i>> \in Evaluated(list)
    BY <1>3, <1>4 DEF Checks
  <2>2. PICK j \in DOMAIN list : <<b, i>> = <<list[j].bp, list[j].action>>
    BY <2>1 DEF Evaluated
  <2> QED BY <2>2 DEF Range
<1> QED BY <1>4

LEMMA RunStops ==
  ASSUME RunInv, StopHere
  PROVE  RunInv'
<1>1. TypeOK' /\ Going' /\ TimersInTime'
      /\ (HasStart /\ open' => \E d \in DirsOf("start") :
            plan.dirs[d].cond.kind = "hits" => counts'[d] >= plan.dirs[d].cond.n)
  BY StopCounts DEF StopHere, Stop
<1>2. plan' = plan /\ results' = results /\ phase = "handle" /\ reason' = "stop"
  BY DEF StopHere, Stop
<1>3. Window'
  <2>1. open => open'
    BY DEF StopHere, Opens
  <2> QED BY <1>1, <1>2, <2>1 DEF RunInv, Window, HasStart, DirsOf
<1>4. Outcomes'
  <2>1. Entry' = Entry
    BY <1>2 DEF Entry, ActionAt
  <2>2. \A r : HaltsAt(r)' <=> HaltsAt(r)
    BY <1>2 DEF HaltsAt, Halts, ActionAt
  <2>3. \A i \in DOMAIN results : ~HaltsAt(results[i])
    BY <1>2 DEF RunInv, Outcomes
  <2>4. AllChecksSeen'
    BY <1>2 DEF AllChecksSeen
  <2> QED BY <1>2, <2>1, <2>2, <2>3, <2>4 DEF RunInv, Outcomes
<1> QED BY <1>1, <1>3, <1>4 DEF RunInv

LEMMA RunEvaluates ==
  ASSUME RunInv, EvaluateHere
  PROVE  RunInv'
<1> DEFINE e == Evaluate
<1>1. /\ plan' = plan /\ phase = "handle" /\ results' = e.list /\ open' = Opens
      /\ \/ e.end # "" /\ phase' = "done" /\ reason' = e.end
         \/ e.end = "" /\ AllChecks(e.list) /\ phase' = "done" /\ reason' = "all_checks"
         \/ e.end = "" /\ phase' = "loop" /\ reason' = reason
  BY DEF EvaluateHere, Stop
<1>2. TypeOK' /\ Going' /\ TimersInTime'
      /\ (HasStart /\ open' => \E d \in DirsOf("start") :
            plan.dirs[d].cond.kind = "hits" => counts'[d] >= plan.dirs[d].cond.n)
  BY <1>1, StopCounts DEF EvaluateHere
<1>3. Good(e) /\ (~Opens => e.list = results)
  BY <1>1, EvaluationIsGood DEF RunInv
<1> HIDE DEF e
<1>4. Window'
  <2>1. open => open'
    BY <1>1 DEF Opens
  <2>2. results' # <<>> => open'
    BY <1>1, <1>3, <2>1 DEF RunInv, Window
  <2> QED BY <1>1, <1>2, <2>2 DEF Window, HasStart, DirsOf
<1>5. Outcomes'
  <2>1. Entry' = Entry
    BY <1>1 DEF Entry, ActionAt
  <2>2. \A r : HaltsAt(r)' <=> HaltsAt(r)
    BY <1>1 DEF HaltsAt, Halts, ActionAt
  <2>3. e.list \in Seq(Entry) /\ e.end \in {"", "halt", "exception"}
        /\ \A i \in DOMAIN e.list : HaltsAt(e.list[i]) => i = Len(e.list) /\ e.end = "halt"
    BY <1>3 DEF Good
  <2>4. (\A i \in DOMAIN results :
           HaltsAt(results[i]) => i = Len(results) /\ phase = "done" /\ reason = "halt")'
    <3>1. \A i : HaltsAt(results[i])' <=> HaltsAt(e.list[i])
      BY <1>1 DEF HaltsAt, Halts, ActionAt
    <3> QED BY <1>1, <2>3, <3>1
  <2>5. AllChecksSeen'
    <3>1. SUFFICES ASSUME reason' = "all_checks" PROVE AllChecksSeen'
      BY DEF AllChecksSeen
    <3>2. reason # "all_checks"
      BY <1>1 DEF RunInv, Going
    <3>3. AllChecks(e.list)
      BY <1>1, <2>3, <3>1, <3>2
    <3>4. \A b \in DOMAIN plan.bps : \A i \in DOMAIN plan.bps[b].actions :
            plan.bps[b].actions[i].kind = "check" => \E r \in Range(e.list) : r.bp = b /\ r.action = i
      <4>1. TypeOK
        BY DEF RunInv
      <4> QED BY ONLY <2>3, <3>3, <4>1, AllAreSeen
    <3>5. results' = e.list /\ plan' = plan
      BY <1>1
    <3> QED BY ONLY <3>4, <3>5 DEF AllChecksSeen
  <2> QED BY <1>1, <2>1, <2>3, <2>4, <2>5 DEF Outcomes
<1> QED BY <1>2, <1>4, <1>5 DEF RunInv

LEMMA RunStep == RunInv /\ [Next]_vars => RunInv'
<1> SUFFICES ASSUME RunInv, [Next]_vars PROVE RunInv'
  OBVIOUS
<1>1. CASE UNCHANGED vars
  <2>1. TypeOK' /\ Going' /\ TimersInTime'
    BY <1>1 DEF vars, RunInv, TypeOK, Going, TimersInTime, AllAddrs, DirsOf
  <2>2. Window'
    BY <1>1 DEF vars, RunInv, Window, HasStart, DirsOf
  <2>3. Outcomes'
    <3>1. Entry' = Entry
      BY <1>1 DEF vars, Entry, ActionAt
    <3>2. \A r : HaltsAt(r)' <=> HaltsAt(r)
      BY <1>1 DEF vars, HaltsAt, Halts, ActionAt
    <3> QED BY <1>1, <3>1, <3>2 DEF vars, RunInv, Outcomes, AllChecksSeen
  <2> QED BY <2>1, <2>2, <2>3 DEF RunInv
<1>2. CASE ConnectFails \/ Connect \/ Continue \/ Exhausted
  BY <1>2, RunStarts
<1>3. CASE Break \/ Interrupt \/ Lost \/ Cancel \/ NoBreakpoint \/ LeaveHere \/ Timer
  BY <1>3, TargetStops
<1>4. CASE StopHere \/ EvaluateHere
  BY <1>4, RunStops, RunEvaluates
<1> QED BY <1>1, <1>2, <1>3, <1>4 DEF Next, Engine, Stops, RunEnded

(* What a run of the gdb test engine records and when it ends: a halt is   *)
(* the last outcome, the run ends for all checks only when all have an     *)
(* outcome, nothing is recorded before the window opens, and no timer of   *)
(* an earlier continue is running.                                         *)
THEOREM RunIsSound == Spec => []RunSound
<1>1. RunInv => RunSound
  <2> SUFFICES ASSUME RunInv PROVE RunSound
    OBVIOUS
  <2>1. HaltIsLast
    BY DEF RunInv, Outcomes, HaltsAt, HaltIsLast
  <2>2. InWindow
    BY DEF RunInv, Window, InWindow
  <2>3. NoOldTimer
    <3>1. phase \in {"connect", "loop", "running", "stopped", "handle", "done"}
      BY DEF RunInv, TypeOK
    <3> QED BY <3>1 DEF RunInv, TimersInTime, NoOldTimer
  <2> QED BY <2>1, <2>2, <2>3 DEF RunInv, Outcomes, RunSound
<1> QED BY <1>1, RunBegins, RunStep, PTL DEF Spec

-----------------------------------------------------------------------------
(* What the engine says of a word, in whatever form GDB prints it.         *)

InWord(bits) == bits[1] \in 0 .. WordBits - 1 /\ bits[2] \in 0 .. bits[1]

Numbers == {"hex", "dec"}

\* Two prints that make no difference to a check
Alike(p, q) ==
  \/ p = q
  \/ /\ p.k \in Numbers /\ q.k \in Numbers
     /\ AsSigned(p.v) = AsSigned(q.v) /\ AsUnsigned(p.v) = AsUnsigned(q.v)
     /\ \A bits : InWord(bits) => BitField(p.v, bits) = BitField(q.v, bits)

LEMMA WordIs ==
  2^WordBits \in Nat \ {0} /\ 2^(WordBits - 1) \in Nat \ {0}
BY WordBitsAssumption, TwoToThe

\* A bit range of a negative number is that of the word
LEMMA BitsOfSigned ==
  ASSUME NEW w \in 0 .. 2^WordBits - 1, NEW bits, InWord(bits)
  PROVE  BitField(w - 2^WordBits, bits) = BitField(w, bits)
<1> DEFINE lo == bits[2]
           m == bits[1] - bits[2] + 1
           c == WordBits - lo - m
           A == 2^lo
           M == 2^m
           C == 2^c
           T == 2^WordBits
           x == w \div A
<1>1. lo \in Nat /\ m \in Nat /\ c \in Nat /\ m + c \in Nat /\ lo + (m + c) = WordBits
  BY WordBitsAssumption DEF InWord
<1>2. A \in Nat \ {0} /\ M \in Nat \ {0} /\ C \in Nat \ {0} /\ T \in Nat \ {0}
  BY <1>1, WordIs, TwoToThe
<1>3. T = A * (M * C)
  BY <1>1, PowersAdd
<1>4. w \in Int
  BY <1>2
<1>5. BitField(w - T, bits) = ((w - T) \div A) % M /\ BitField(w, bits) = (w \div A) % M
  BY DEF BitField
<1> HIDE DEF A, M, C, T, lo, m, c
<1>6. w - T = (-(M * C)) * A + w /\ -(M * C) \in Int
  BY <1>2, <1>3, <1>4, SMT
<1>7. (w - T) \div A = -(M * C) + x
  BY <1>2, <1>4, <1>6, DividedBy
<1>8. x \in Int
  BY <1>2, <1>4, SMT
<1> HIDE DEF x
<1>9. -(M * C) + x = (-C) * M + x /\ -C \in Int
  BY <1>2, <1>8, SMT
<1>10. (-(M * C) + x) % M = x % M
  BY <1>2, <1>8, <1>9, DividedBy
<1> QED BY <1>5, <1>7, <1>10 DEF x, T

LEMMA SamePrintIsAlike ==
  ASSUME NEW p, NEW q, SamePrint(p, q)
  PROVE  Alike(p, q)
<1>1. SUFFICES ASSUME NEW w \in 0 .. 2^WordBits - 1, {p, q} \subseteq PrintsOf(w)
               PROVE  Alike(p, q)
  BY DEF SamePrint, Alike
<1> DEFINE n == AsSigned(w)
           T == 2^WordBits
           H == 2^(WordBits - 1)
<1>2. T \in Nat \ {0} /\ H \in Nat \ {0} /\ w \in 0 .. T - 1
  BY WordIs
<1>3. n = (IF w < H THEN w ELSE w - T) /\ AsSigned(n) = IF n < H THEN n ELSE n - T
  BY DEF AsSigned
<1>4. AsUnsigned(n) = n % T /\ AsUnsigned(w) = w % T
  BY DEF AsUnsigned
<1>5. n \in {w, w - T} /\ AsSigned(n) = n
  <2> HIDE DEF T, H, n
  <2> QED BY <1>2, <1>3
<1>6. AsUnsigned(n) = AsUnsigned(w)
  <2> HIDE DEF T, H, n
  <2>1. w - T = (-1) * T + w /\ w \in Int
    BY <1>2
  <2>2. (w - T) % T = w % T
    BY <1>2, <2>1, DividedBy
  <2> QED BY <1>4, <1>5, <2>2
<1>7. ASSUME NEW bits, InWord(bits) PROVE BitField(n, bits) = BitField(w, bits)
  <2> HIDE DEF n
  <2> QED BY <1>5, <1>7, BitsOfSigned
<1> HIDE DEF n, T, H
<1>8. \A r \in {p, q} : r.k \in Numbers /\ r.v \in {w, n}
  BY <1>1 DEF PrintsOf, Printed, Numbers, n
<1>9. AsSigned(w) = n
  BY DEF n
<1> QED BY <1>5, <1>6, <1>7, <1>8, <1>9 DEF Alike

-----------------------------------------------------------------------------
LEMMA AlikeFound ==
  ASSUME NEW f, NEW g, SamePrints(f, g), NEW key
  PROVE  Alike(Find(f, key), Find(g, key))
<1>1. CASE key \in DOMAIN f
  BY <1>1, SamePrintIsAlike DEF Find, SamePrints
<1>2. CASE key \notin DOMAIN f
  BY <1>2 DEF Find, SamePrints, Alike
<1> QED BY <1>1, <1>2

SameFrame(s, t) ==
  /\ SamePrints(s.args, t.args) /\ SamePrints(s.locals, t.locals)
  /\ SamePrints(s.exprs, t.exprs) /\ SamePrints(s.globals, t.globals)
  /\ s.r0 = t.r0 /\ s.mem = t.mem

LEMMA AlikeGlobal ==
  ASSUME NEW s, NEW t, SameFrame(s, t), NEW ref, NEW proc
  PROVE  Alike(ReadGlobal(s, ref, proc), ReadGlobal(t, ref, proc))
<1> DEFINE dot == SelectInSeq(ref, LAMBDA x : x.k = "DOT")
           key == IF dot = 0 THEN <<proc[1]>> \o ref
                  ELSE SubSeq(ref, 1, dot - 1) \o SubSeq(ref, dot + 1, Len(ref))
           suffix == dot # 0 /\ Len(ref) > dot + 1
           Known(p) == CASE p.k \in {"hex", "dec"} -> p
                         [] p.k = "struct" /\ ~suffix -> Printed("hex", p.v)
                         [] OTHER -> Failure
<1>1. \A f : ReadGlobal(f, ref, proc) = Known(Find(f.globals, key))
  BY DEF ReadGlobal
<1>2. Alike(Find(s.globals, key), Find(t.globals, key))
  BY AlikeFound DEF SameFrame
<1> HIDE DEF dot, key, suffix
<1>3. \A p, q : Alike(p, q) => Alike(Known(p), Known(q))
  <2> SUFFICES ASSUME NEW p, NEW q, Alike(p, q) PROVE Alike(Known(p), Known(q))
    OBVIOUS
  <2>1. CASE p = q
    BY <2>1 DEF Alike
  <2>2. CASE p # q
    <3>1. p.k \in {"hex", "dec"} /\ q.k \in {"hex", "dec"}
      BY <2>2 DEF Alike, Numbers
    <3>2. Known(p) = p /\ Known(q) = q
      BY <3>1
    <3> QED BY <3>2
  <2> QED BY <2>1, <2>2
<1> QED BY <1>1, <1>2, <1>3

\* A variable is found in the same scope
LEMMA SameScope ==
  ASSUME NEW s, NEW t, SameFrame(s, t), NEW name, NEW type
  PROVE  LET f == ScopeOf(s, name, type)
             g == ScopeOf(t, name, type)
         IN  \/ f = <<>> /\ g = <<>>
             \/ f # <<>> /\ g # <<>> /\ SamePrints(f, g) /\ name \in DOMAIN f
<1>0. DOMAIN s.args = DOMAIN t.args /\ DOMAIN s.locals = DOMAIN t.locals
  BY DEF SameFrame, SamePrints
<1>e. \A f : name \in DOMAIN f => f # <<>>
  OBVIOUS
<1>1. CASE type # "local" /\ name \in DOMAIN s.args
  <2>1. ScopeOf(s, name, type) = s.args /\ ScopeOf(t, name, type) = t.args
    BY <1>0, <1>1 DEF ScopeOf
  <2> QED BY <1>0, <1>e, <1>1, <2>1 DEF SameFrame
<1>2. CASE ~(type # "local" /\ name \in DOMAIN s.args) /\ type # "arg" /\ name \in DOMAIN s.locals
  <2>1. ScopeOf(s, name, type) = s.locals /\ ScopeOf(t, name, type) = t.locals
    BY <1>0, <1>2 DEF ScopeOf
  <2> QED BY <1>0, <1>e, <1>2, <2>1 DEF SameFrame
<1>3. CASE ~(type # "local" /\ name \in DOMAIN s.args) /\ ~(type # "arg" /\ name \in DOMAIN s.locals)
  BY <1>0, <1>3 DEF ScopeOf
<1> QED BY <1>1, <1>2, <1>3

LEMMA AlikeVar ==
  ASSUME NEW s, NEW t, SameFrame(s, t), NEW ref, NEW proc, NEW type
  PROVE  Alike(ReadVar(s, type, ref, proc), ReadVar(t, type, ref, proc))
<1> DEFINE name == ref[1].v
           f == ScopeOf(s, name, type)
           g == ScopeOf(t, name, type)
           Field(p, whole) == IF p.k = "error" \/ whole.k \notin {"hex", "dec"} THEN Failure ELSE whole
<1>1. CASE f = <<>> /\ g = <<>>
  <2>1. CASE type = "var"
    <3>1. /\ ReadVar(s, type, ref, proc) = ReadGlobal(s, ref, proc)
          /\ ReadVar(t, type, ref, proc) = ReadGlobal(t, ref, proc)
      BY <1>1, <2>1 DEF ReadVar
    <3> QED BY <3>1, AlikeGlobal
  <2>2. CASE type # "var"
    BY <1>1, <2>2 DEF ReadVar, Alike
  <2> QED BY <2>1, <2>2
<1>2. CASE f # <<>> /\ g # <<>> /\ SamePrints(f, g) /\ name \in DOMAIN f
  <2>1. Alike(f[name], g[name])
    BY <1>2, SamePrintIsAlike DEF SamePrints
  <2>2. CASE Len(ref) = 1
    <3>1. ReadVar(s, type, ref, proc) = f[name] /\ ReadVar(t, type, ref, proc) = g[name]
      BY <1>2, <2>2 DEF ReadVar
    <3> QED BY <2>1, <3>1
  <2>3. CASE Len(ref) # 1
    <3> DEFINE p == f[name]
               q == g[name]
               x == Find(s.exprs, ref)
               y == Find(t.exprs, ref)
    <3>1. ReadVar(s, type, ref, proc) = Field(p, x) /\ ReadVar(t, type, ref, proc) = Field(q, y)
      BY <1>2, <2>3 DEF ReadVar
    <3>2. Alike(x, y)
      BY AlikeFound DEF SameFrame
    <3> HIDE DEF f, g, x, y
    <3>3. (p.k = "error" <=> q.k = "error") /\ (x.k \in {"hex", "dec"} <=> y.k \in {"hex", "dec"})
      BY <2>1, <3>2 DEF Alike, Numbers
    <3>4. Alike(Field(p, x), Field(q, y))
      <4>1. CASE p.k = "error" \/ x.k \notin {"hex", "dec"}
        <5>1. Field(p, x) = Failure /\ Field(q, y) = Failure
          BY <3>3, <4>1
        <5> QED BY <5>1 DEF Alike
      <4>2. CASE ~(p.k = "error" \/ x.k \notin {"hex", "dec"})
        <5>1. Field(p, x) = x /\ Field(q, y) = y
          BY <3>3, <4>2
        <5> QED BY <3>2, <5>1
      <4> QED BY <4>1, <4>2
    <3> QED BY <3>1, <3>4
  <2> QED BY <2>2, <2>3
<1>3. (f = <<>> /\ g = <<>>) \/ (f # <<>> /\ g # <<>> /\ SamePrints(f, g) /\ name \in DOMAIN f)
  BY SameScope
<1> QED BY <1>1, <1>2, <1>3

LEMMA AlikeRead ==
  ASSUME NEW s, NEW t, SameFrame(s, t), NEW target, NEW proc,
         target.type \in {"arg", "local", "var", "return", "mem", "indirect"},
         target.type = "indirect" => IndirectBase(s, target.ref) = IndirectBase(t, target.ref)
  PROVE  Alike(Read(s, target, proc, Table), Read(t, target, proc, Table))
<1>1. CASE target.type = "return"
  BY <1>1 DEF Read, SameFrame, Alike
<1>2. CASE target.type \in {"arg", "local", "var"}
  <2>1. \A f : Read(f, target, proc, Table) = ReadVar(f, target.type, target.ref, proc)
    BY <1>2 DEF Read
  <2> QED BY <2>1, AlikeVar
<1>3. CASE target.type \in {"mem", "indirect"}
  <2>1. AddressOf(s, target, Table) = AddressOf(t, target, Table)
    BY <1>3 DEF AddressOf
  <2>2. \A f : Read(f, target, proc, Table) = ReadMem(f, AddressOf(f, target, Table))
    BY <1>3 DEF Read
  <2>3. \A addr : ReadMem(s, addr) = ReadMem(t, addr)
    BY DEF ReadMem, SameFrame
  <2> QED BY <2>1, <2>2, <2>3 DEF Alike
<1> QED BY <1>1, <1>2, <1>3

LEMMA SameOutcome ==
  ASSUME NEW p, NEW q, Alike(p, q), NEW a, NEW expected, NEW bits, bits # None => InWord(bits)
  PROVE  Verdict(BitsOf(p, bits), a, expected) = Verdict(BitsOf(q, bits), a, expected)
<1>1. CASE p = q
  BY <1>1
<1>2. CASE p # q
  <2>1. /\ p.k \in Numbers /\ q.k \in Numbers
        /\ AsSigned(p.v) = AsSigned(q.v) /\ AsUnsigned(p.v) = AsUnsigned(q.v)
        /\ \A b : InWord(b) => BitField(p.v, b) = BitField(q.v, b)
    BY <1>2 DEF Alike
  <2>2. NumberIn(p) # None /\ NumberIn(q) # None /\ p.k # "error" /\ q.k # "error"
    BY <2>1 DEF NumberIn, Numbers, None
  <2>3. CASE bits = None
    <3>1. \A e, op, u : Compare(p.v, e, op, u) = Compare(q.v, e, op, u)
      BY <2>1 DEF Compare
    <3>2. BitsOf(p, bits) = p /\ BitsOf(q, bits) = q
      BY <2>3 DEF BitsOf
    <3> QED BY <2>2, <3>1, <3>2 DEF Verdict
  <2>4. CASE bits # None
    <3>1. BitsOf(p, bits) = BitsOf(q, bits)
      BY <2>1, <2>2, <2>4 DEF BitsOf
    <3> QED BY <3>1
  <2> QED BY <2>3, <2>4
<1> QED BY <1>1, <1>2

\* Frames with the same words give an action the same outcome
LEMMA WordsDecide ==
  ASSUME NEW s \in Frames, NEW t \in Frames, s.words = t.words,
         NEW p \in Plans, NEW b \in DOMAIN p.bps, NEW i \in DOMAIN p.bps[b].actions, NEW proc,
         ~Raises(p.bps[b].actions[i].target)
  PROVE  Outcome(s, p.bps[b].actions[i], proc, Table) = Outcome(t, p.bps[b].actions[i], proc, Table)
<1> DEFINE a == p.bps[b].actions[i]
           x == Read(s, a.target, proc, Table)
           y == Read(t, a.target, proc, Table)
           bits == a.target.bits
<1>1. SameFrame(s, t) /\ (a.target.type = "indirect" => IndirectBase(s, a.target.ref) = IndirectBase(t, a.target.ref))
  BY FramesAssumption DEF SameFrame
<1>2. (bits # None => InWord(bits)) /\ a.target.type \in {"arg", "local", "var", "return", "mem", "indirect"}
  BY TargetsAssumption DEF InWord
<1> HIDE DEF a
<1>3. Alike(x, y)
  BY <1>1, <1>2, AlikeRead
<1> HIDE DEF x, y, bits
<1>4. \A e : Verdict(BitsOf(x, bits), a, e) = Verdict(BitsOf(y, bits), a, e)
  BY <1>2, <1>3, SameOutcome
<1>5. Outcome(s, a, proc, Table) = Outcome(t, a, proc, Table)
  BY <1>4 DEF Outcome, x, y, bits
<1> QED BY <1>5 DEF a

(* Whenever an action is evaluated, at one stop or another, the same words *)
(* of the target have the same outcome: the sign, the form and the bits in *)
(* which GDB prints a word do not matter.                                  *)
THEOREM VerdictsAreSame == Spec => []SameVerdict
<1>1. RunInv => SameVerdict
  <2> SUFFICES ASSUME RunInv, NEW x \in Range(results), NEW y \in Range(results),
                      x.bp = y.bp, x.action = y.action, x.frame.words = y.frame.words
               PROVE  x.status = y.status
    BY DEF SameVerdict
  <2> DEFINE a == plan.bps[x.bp].actions[x.action]
  <2>1. x \in Entry /\ y \in Entry
    BY DEF RunInv, Outcomes, Range
  <2>2. /\ x.frame \in Frames /\ y.frame \in Frames
        /\ x.bp \in DOMAIN plan.bps /\ x.action \in DOMAIN plan.bps[x.bp].actions
    BY <2>1 DEF Entry
  <2>3. /\ x.status = Outcome(x.frame, a, plan.bps[x.bp].proc, Table)
        /\ y.status = Outcome(y.frame, a, plan.bps[x.bp].proc, Table)
        /\ ~Raises(a.target)
    BY <2>1 DEF Entry, ActionAt
  <2>4. plan \in Plans
    BY DEF RunInv, TypeOK
  <2>5. Outcome(x.frame, a, plan.bps[x.bp].proc, Table) = Outcome(y.frame, a, plan.bps[x.bp].proc, Table)
    <3>1. \A s, t \in Frames : \A b \in DOMAIN plan.bps : \A i \in DOMAIN plan.bps[b].actions : \A proc :
            s.words = t.words /\ ~Raises(plan.bps[b].actions[i].target) =>
              Outcome(s, plan.bps[b].actions[i], proc, Table) = Outcome(t, plan.bps[b].actions[i], proc, Table)
      BY ONLY <2>4, WordsDecide
    <3>2. x.frame.words = y.frame.words
      OBVIOUS
    <3> QED BY ONLY <2>2, <2>3, <3>1, <3>2, Zenon
  <2> HIDE DEF a
  <2> QED BY <2>3, <2>5
<1> QED BY <1>1, RunBegins, RunStep, PTL DEF Spec
-----------------------------------------------------------------------------
(* Sequences, whatever they are made of.                                   *)

\* A sequence, of whatever it is made of
Sequence(q) == q \in Seq(Range(q))

LEMMA AnySequence ==
  ASSUME NEW f, NEW n \in Nat, DOMAIN f = 1 .. n, f = [i \in DOMAIN f |-> f[i]]
  PROVE  Sequence(f) /\ Len(f) = n
<1>1. f \in [1 .. n -> Range(f)]
  BY DEF Range
<1>2. f \in Seq(Range(f))
  BY <1>1
<1>3. Len(f) = n
  BY <1>2
<1> QED BY <1>2, <1>3 DEF Sequence

LEMMA OfSequence ==
  ASSUME NEW f, Sequence(f)
  PROVE  Len(f) \in Nat /\ DOMAIN f = 1 .. Len(f) /\ \A x \in Range(f) : \E i \in 1 .. Len(f) : f[i] = x
<1>1. Len(f) \in Nat /\ DOMAIN f = 1 .. Len(f)
  BY DEF Sequence
<1> QED BY <1>1 DEF Range

LEMMA SequenceOf ==
  ASSUME NEW S, NEW f \in Seq(S)
  PROVE  Sequence(f) /\ Range(f) \subseteq S
<1>1. Len(f) \in Nat /\ DOMAIN f = 1 .. Len(f) /\ f = [i \in DOMAIN f |-> f[i]]
  OBVIOUS
<1>2. Sequence(f)
  BY <1>1, AnySequence
<1> QED BY <1>1, <1>2 DEF Range

LEMMA JoinedAny ==
  ASSUME NEW a, NEW b, Sequence(a), Sequence(b)
  PROVE  /\ Sequence(a \o b) /\ Len(a \o b) = Len(a) + Len(b)
         /\ \A i \in 1 .. Len(a) : (a \o b)[i] = a[i]
         /\ \A i \in 1 .. Len(b) : (a \o b)[Len(a) + i] = b[i]
         /\ Range(a \o b) = Range(a) \cup Range(b)
<1> DEFINE S == Range(a) \cup Range(b)
<1>1. a \in Seq(S) /\ b \in Seq(S) /\ Len(a) \in Nat /\ Len(b) \in Nat
  <2>1. a \in Seq(Range(a)) /\ b \in Seq(Range(b))
    BY DEF Sequence
  <2> QED BY <2>1
<1> HIDE DEF S
<1> DEFINE c == a \o b
<1>2. /\ c \in Seq(S) /\ Len(c) = Len(a) + Len(b)
      /\ \A i \in 1 .. Len(a) : c[i] = a[i]
      /\ \A i \in 1 .. Len(b) : c[Len(a) + i] = b[i]
  BY <1>1, Joined
<1>3. DOMAIN c = 1 .. Len(a) + Len(b) /\ DOMAIN a = 1 .. Len(a) /\ DOMAIN b = 1 .. Len(b)
  BY <1>1, <1>2
<1> HIDE DEF c
<1>4. Sequence(c)
  BY <1>2, SequenceOf
<1>5. ASSUME NEW i \in DOMAIN c PROVE c[i] \in Range(a) \cup Range(b)
  <2>1. CASE i <= Len(a)
    BY <1>1, <1>2, <1>3, <2>1 DEF Range
  <2>2. CASE i > Len(a)
    <3>1. i - Len(a) \in 1 .. Len(b) /\ Len(a) + (i - Len(a)) = i
      BY <1>1, <1>3, <2>2
    <3>2. c[i] = b[i - Len(a)]
      BY <1>2, <3>1
    <3> QED BY <1>3, <3>1, <3>2 DEF Range
  <2> QED BY <1>1, <1>3, <2>1, <2>2
<1>6. \A i \in DOMAIN a : i \in DOMAIN c /\ c[i] = a[i]
  BY <1>1, <1>2, <1>3
<1>7. \A i \in DOMAIN b : Len(a) + i \in DOMAIN c /\ c[Len(a) + i] = b[i]
  BY <1>1, <1>2, <1>3
<1>8. Range(c) = Range(a) \cup Range(b)
  BY <1>5, <1>6, <1>7 DEF Range
<1> QED BY <1>2, <1>4, <1>8 DEF c

-----------------------------------------------------------------------------
LEMMA EndsStep ==
  ASSUME NEW sizes \in Seq(Nat)
  PROVE  /\ Ends(sizes)[0] = 0
         /\ \A k \in 1 .. Len(sizes) : Ends(sizes)[k] = Ends(sizes)[k - 1] + sizes[k]
         /\ \A k \in 0 .. Len(sizes) : Ends(sizes)[k] \in Nat
<1> DEFINE N == Len(sizes)
           G(x, k) == x + sizes[k]
           Is(f, m) == f = [k \in 0 .. m |-> IF k = 0 THEN 0 ELSE G(f[k - 1], k)]
           Ok(m) == \E f : Is(f, m)
           Bad == {m \in 0 .. N : ~Ok(m)}
<1>0. N \in Nat /\ \A k \in 1 .. N : sizes[k] \in Nat
  OBVIOUS
<1>1. Ok(0)
  <2> HIDE DEF G
  <2>1. Is([k \in 0 .. 0 |-> 0], 0)
    OBVIOUS
  <2> QED BY <2>1
<1>2. ASSUME NEW m \in 1 .. N, Ok(m - 1) PROVE Ok(m)
  <2> HIDE DEF G
  <2>1. PICK g : Is(g, m - 1)
    BY <1>2
  <2> DEFINE h == [k \in 0 .. m |-> IF k < m THEN g[k] ELSE G(g[m - 1], m)]
  <2>2. ASSUME NEW k \in 0 .. m PROVE h[k] = IF k = 0 THEN 0 ELSE G(h[k - 1], k)
    <3>1. CASE k = m
      BY <3>1
    <3>2. CASE k < m
      BY <3>2, <2>1
    <3> QED BY <3>1, <3>2
  <2>3. h = [k \in 0 .. m |-> h[k]]
    OBVIOUS
  <2> HIDE DEF h
  <2>4. Is(h, m)
    BY <2>2, <2>3
  <2> QED BY <2>4
<1> HIDE DEF Ok
<1>3. Bad = {}
  <2>1. Bad \in SUBSET (0 .. N) /\ 0 \notin Bad /\ \A m \in 1 .. N : m - 1 \notin Bad => m \notin Bad
    BY <1>0, <1>1, <1>2
  <2> HIDE DEF Bad
  <2> QED BY <1>0, <2>1, NoFirstFailure
<1>4. PICK f : Is(f, N)
  <2>1. Ok(N)
    BY <1>0, <1>3
  <2> QED BY <2>1 DEF Ok
<1> DEFINE F == Ends(sizes)
<1>5. F = CHOOSE f1 : Is(f1, N)
  BY DEF Ends
<1> HIDE DEF Is, F
<1>6. Is(F, N)
  BY <1>4, <1>5
<1>7. \A k \in 0 .. N : F[k] = IF k = 0 THEN 0 ELSE F[k - 1] + sizes[k]
  BY <1>6 DEF Is
<1> DEFINE Odd == {k \in 0 .. N : F[k] \notin Nat}
<1>8. Odd = {}
  <2>1. ASSUME NEW k \in 1 .. N, k - 1 \notin Odd PROVE k \notin Odd
    <3>1. k - 1 \in 0 .. N /\ k \in 0 .. N /\ k # 0
      BY <1>0
    <3>2. F[k - 1] \in Nat /\ sizes[k] \in Nat /\ F[k] = F[k - 1] + sizes[k]
      BY <1>0, <1>7, <2>1, <3>1
    <3> QED BY <3>2
  <2>2. Odd \in SUBSET (0 .. N) /\ 0 \notin Odd
    BY <1>0, <1>7
  <2> HIDE DEF Odd
  <2> QED BY <1>0, <2>1, <2>2, NoFirstFailure
<1> QED BY <1>0, <1>7, <1>8 DEF F

\* The ends come in order
LEMMA EndsGrow ==
  ASSUME NEW sizes \in Seq(Nat), NEW i \in 1 .. Len(sizes), NEW k \in 1 .. Len(sizes), i < k
  PROVE  Ends(sizes)[i - 1] + sizes[i] <= Ends(sizes)[k - 1]
<1> DEFINE F == Ends(sizes)
           Bad == {m \in 0 .. Len(sizes) : m >= i /\ ~(F[i] <= F[m])}
<1>1. \A m \in 1 .. Len(sizes) : F[m] = F[m - 1] + sizes[m]
  BY EndsStep
<1>2. /\ \A m \in 0 .. Len(sizes) : F[m] \in Nat
      /\ Len(sizes) \in Nat /\ \A m \in 1 .. Len(sizes) : sizes[m] \in Nat
  BY EndsStep
<1> HIDE DEF F
<1>3. Bad = {}
  <2>1. ASSUME NEW m \in 1 .. Len(sizes), m - 1 \notin Bad PROVE m \notin Bad
    <3>1. CASE m > i
      <4>1. F[i] <= F[m - 1] /\ F[m - 1] \in Nat /\ F[i] \in Nat
        BY <1>2, <2>1, <3>1
      <4>2. F[m] = F[m - 1] + sizes[m] /\ sizes[m] \in Nat
        BY <1>1, <1>2
      <4>3. F[i] <= F[m]
        BY <4>1, <4>2
      <4> QED BY <4>3
    <3>2. CASE m = i
      BY <1>2, <3>2
    <3>3. CASE m < i
      BY <3>3
    <3> QED BY <3>1, <3>2, <3>3
  <2>2. Bad \in SUBSET (0 .. Len(sizes)) /\ 0 \notin Bad
    OBVIOUS
  <2> HIDE DEF Bad
  <2> QED BY <1>2, <2>1, <2>2, NoFirstFailure
<1>4. F[i] <= F[k - 1]
  BY <1>3
<1> QED BY <1>1, <1>4 DEF F

\* One more thing leaves the ends of the others
LEMMA EndsAppend ==
  ASSUME NEW sizes \in Seq(Nat), NEW x \in Nat
  PROVE  /\ \A k \in 0 .. Len(sizes) : Ends(Append(sizes, x))[k] = Ends(sizes)[k]
         /\ Ends(Append(sizes, x))[Len(sizes) + 1] = Ends(sizes)[Len(sizes)] + x
<1> DEFINE more == Append(sizes, x)
           F == Ends(sizes)
           H == Ends(more)
           N == Len(sizes)
           Bad == {k \in 0 .. N : H[k] # F[k]}
<1>1. more \in Seq(Nat) /\ Len(more) = N + 1 /\ N \in Nat /\ more[N + 1] = x /\ \A k \in 1 .. N : more[k] = sizes[k]
  OBVIOUS
<1>2. F[0] = 0 /\ \A k \in 1 .. N : F[k] = F[k - 1] + sizes[k]
  BY EndsStep
<1>3. H[0] = 0 /\ \A k \in 1 .. N + 1 : H[k] = H[k - 1] + more[k]
  <2> HIDE DEF more
  <2> QED BY <1>1, EndsStep
<1> HIDE DEF F, H, more, N
<1>4. Bad = {}
  <2>1. ASSUME NEW k \in 1 .. N, k - 1 \notin Bad PROVE k \notin Bad
    <3>1. k - 1 \in 0 .. N /\ k \in 1 .. N + 1
      BY <1>1
    <3> QED BY <1>1, <1>2, <1>3, <2>1, <3>1
  <2>2. Bad \in SUBSET (0 .. N) /\ 0 \notin Bad
    BY <1>2, <1>3
  <2> HIDE DEF Bad
  <2> QED BY <1>1, <2>1, <2>2, NoFirstFailure
<1>5. \A k \in 0 .. N : H[k] = F[k]
  BY <1>4
<1>6. H[N + 1] = F[N] + x
  <2>1. N + 1 \in 1 .. N + 1 /\ (N + 1) - 1 = N /\ N \in 0 .. N
    BY <1>1
  <2> QED BY <1>1, <1>3, <1>5, <2>1
<1> QED BY <1>5, <1>6 DEF F, H, more, N
-----------------------------------------------------------------------------
\* A table of strings that are all in S: each begins where the others end
TableOk(t, S) ==
  /\ t.order \in Seq(S)
  /\ \A k \in 1 .. Len(t.order) : t.order[k] \in DOMAIN t.at /\ t.at[t.order[k]] = Ends(StringSizes(t))[k - 1]
  /\ \A s \in DOMAIN t.at : \E k \in 1 .. Len(t.order) : t.order[k] = s
  /\ t.size = Ends(StringSizes(t))[Len(t.order)]

Counted(S) == \A s \in S : Len(s) \in Nat

LEMMA SizesAre ==
  ASSUME NEW S, Counted(S), NEW t, t.order \in Seq(S)
  PROVE  /\ StringSizes(t) \in Seq(Nat) /\ Len(StringSizes(t)) = Len(t.order) /\ Len(t.order) \in Nat
         /\ \A k \in 1 .. Len(t.order) : StringSizes(t)[k] = Len(t.order[k]) + 1 /\ StringSizes(t)[k] > 0
<1> DEFINE z == StringSizes(t)
<1>1. Len(t.order) \in Nat /\ DOMAIN t.order = 1 .. Len(t.order) /\ \A k \in 1 .. Len(t.order) : t.order[k] \in S
  OBVIOUS
<1>2. z = [k \in 1 .. Len(t.order) |-> Len(t.order[k]) + 1]
  BY <1>1 DEF StringSizes
<1>3. \A k \in 1 .. Len(t.order) : Len(t.order[k]) \in Nat
  BY <1>1 DEF Counted
<1> HIDE DEF z
<1>4. z \in [1 .. Len(t.order) -> Nat]
  BY <1>2, <1>3
<1>5. z \in Seq(Nat) /\ Len(z) = Len(t.order)
  BY <1>1, <1>4
<1>6. \A k \in 1 .. Len(t.order) : z[k] = Len(t.order[k]) + 1 /\ z[k] > 0
  BY <1>2, <1>3
<1> QED BY <1>1, <1>5, <1>6 DEF z

\* Each string of a table is found where the table says
LEMMA StringFound ==
  ASSUME NEW S, Counted(S), NEW t, TableOk(t, S), NEW s \in DOMAIN t.at
  PROVE  {t.order[k] : k \in {j \in DOMAIN t.order : Ends(StringSizes(t))[j - 1] = t.at[s]}} = {s}
<1> DEFINE z == StringSizes(t)
           N == Len(t.order)
<1>1. t.order \in Seq(S) /\ N \in Nat /\ DOMAIN t.order = 1 .. N
  BY DEF TableOk
<1>2. z \in Seq(Nat) /\ Len(z) = N /\ \A k \in 1 .. N : z[k] > 0 /\ z[k] \in Nat
  <2>1. z \in Seq(Nat) /\ Len(z) = N /\ \A k \in 1 .. N : z[k] > 0
    BY <1>1, SizesAre
  <2> HIDE DEF z
  <2> QED BY <2>1
<1>3. PICK k \in 1 .. N : t.order[k] = s
  BY DEF TableOk
<1>4. t.at[s] = Ends(z)[k - 1]
  BY <1>3 DEF TableOk
<1> HIDE DEF z, N
<1>5. ASSUME NEW j \in 1 .. N, NEW l \in 1 .. N, j < l PROVE Ends(z)[j - 1] # Ends(z)[l - 1]
  <2>1. j \in 1 .. Len(z) /\ l \in 1 .. Len(z) /\ j - 1 \in 0 .. Len(z) /\ l - 1 \in 0 .. Len(z)
    BY <1>1, <1>2
  <2>2. Ends(z)[j - 1] + z[j] <= Ends(z)[l - 1]
    BY <1>2, <1>5, <2>1, EndsGrow
  <2>3. Ends(z)[j - 1] \in Nat /\ Ends(z)[l - 1] \in Nat
    BY <1>2, <2>1, EndsStep
  <2> QED BY <1>2, <2>2, <2>3
<1>6. ASSUME NEW j \in 1 .. N, Ends(z)[j - 1] = t.at[s] PROVE j = k
  <2>1. ~(j < k) /\ ~(k < j)
    BY <1>4, <1>5, <1>6
  <2> QED BY <1>1, <2>1
<1>7. {j \in DOMAIN t.order : Ends(z)[j - 1] = t.at[s]} = {k}
  BY <1>1, <1>4, <1>6
<1> QED BY <1>3, <1>7 DEF z

LEMMA StringAdded ==
  ASSUME NEW S, Counted(S), NEW t, TableOk(t, S), NEW s \in S
  PROVE  TableOk(AddString(t, s), S) /\ DOMAIN AddString(t, s).at = DOMAIN t.at \cup {s}
<1>1. CASE s \in DOMAIN t.at
  BY <1>1 DEF AddString
<1>2. CASE s \notin DOMAIN t.at
  <2> DEFINE u == AddString(t, s)
             N == Len(t.order)
             z == StringSizes(t)
  <2>1. /\ u.at = [x \in DOMAIN t.at \cup {s} |-> IF x = s THEN t.size ELSE t.at[x]]
        /\ u.size = t.size + (Len(s) + 1) /\ u.order = Append(t.order, s)
    BY <1>2 DEF AddString
  <2>2. /\ t.order \in Seq(S) /\ N \in Nat
        /\ \A k \in 1 .. N : t.order[k] \in DOMAIN t.at /\ t.at[t.order[k]] = Ends(z)[k - 1]
        /\ \A x \in DOMAIN t.at : \E k \in 1 .. N : t.order[k] = x
        /\ t.size = Ends(z)[N]
    BY DEF TableOk
  <2> HIDE DEF u, N
  <2>3. /\ u.order \in Seq(S) /\ Len(u.order) = N + 1 /\ u.order[N + 1] = s
        /\ \A k \in 1 .. N : u.order[k] = t.order[k]
    BY <2>1, <2>2 DEF N
  <2>4. Len(s) \in Nat
    BY DEF Counted
  <2>5. z \in Seq(Nat) /\ Len(z) = N /\ \A k \in 1 .. N : z[k] = Len(t.order[k]) + 1
    BY <2>2, SizesAre DEF N
  <2>6. StringSizes(u) = Append(z, Len(s) + 1)
    <3> DEFINE y == StringSizes(u)
    <3>1. y \in Seq(Nat) /\ Len(y) = N + 1 /\ \A k \in 1 .. N + 1 : y[k] = Len(u.order[k]) + 1
      BY <2>3, SizesAre
    <3> HIDE DEF y, z
    <3>2. Len(s) + 1 \in Nat
      BY <2>4
    <3>3. /\ Append(z, Len(s) + 1) \in Seq(Nat) /\ Len(Append(z, Len(s) + 1)) = N + 1
          /\ \A k \in 1 .. N : Append(z, Len(s) + 1)[k] = z[k]
          /\ Append(z, Len(s) + 1)[N + 1] = Len(s) + 1
      BY <2>5, <3>2
    <3>4. PICK w : w = Append(z, Len(s) + 1)
      OBVIOUS
    <3>5. \A k \in 1 .. N + 1 : y[k] = w[k]
      <4>1. ASSUME NEW k \in 1 .. N PROVE y[k] = w[k]
        <5>1. k \in 1 .. N + 1
          BY <2>2
        <5>2. y[k] = Len(u.order[k]) + 1 /\ u.order[k] = t.order[k] /\ w[k] = z[k] /\ z[k] = Len(t.order[k]) + 1
          BY <2>3, <2>5, <3>1, <3>3, <3>4, <5>1
        <5> QED BY <5>2
      <4>2. y[N + 1] = w[N + 1]
        <5>1. N + 1 \in 1 .. N + 1
          BY <2>2
        <5>2. y[N + 1] = Len(u.order[N + 1]) + 1
          BY <3>1, <5>1
        <5> QED BY <2>3, <3>3, <3>4, <5>2
      <4>3. \A k \in 1 .. N + 1 : k \in 1 .. N \/ k = N + 1
        BY <2>2
      <4> QED BY <4>1, <4>2, <4>3
    <3>6. w \in Seq(Nat) /\ Len(w) = N + 1
      BY <3>3, <3>4
    <3>7. y = w
      BY <3>1, <3>5, <3>6
    <3> QED BY <3>4, <3>7 DEF y
  <2> HIDE DEF z
  <2>7. /\ \A k \in 0 .. N : Ends(StringSizes(u))[k] = Ends(z)[k]
        /\ Ends(StringSizes(u))[N + 1] = Ends(z)[N] + (Len(s) + 1)
    <3>1. Len(s) + 1 \in Nat
      BY <2>4
    <3> QED BY <2>5, <2>6, <3>1, EndsAppend
  <2>8. ASSUME NEW k \in 1 .. N + 1
        PROVE  u.order[k] \in DOMAIN u.at /\ u.at[u.order[k]] = Ends(StringSizes(u))[k - 1]
    <3>1. CASE k = N + 1
      <4>1. k - 1 = N /\ N \in 0 .. N
        BY <2>2, <3>1
      <4> QED BY <2>1, <2>2, <2>3, <2>7, <3>1, <4>1
    <3>2. CASE k # N + 1
      <4>1. k \in 1 .. N /\ k - 1 \in 0 .. N
        BY <2>2, <3>2
      <4>2. u.order[k] = t.order[k] /\ t.order[k] \in DOMAIN t.at /\ t.order[k] # s
        BY <1>2, <2>2, <2>3, <4>1
      <4>3. u.order[k] \in DOMAIN u.at /\ u.at[u.order[k]] = t.at[t.order[k]]
        BY <2>1, <4>2
      <4>4. t.at[t.order[k]] = Ends(z)[k - 1] /\ Ends(StringSizes(u))[k - 1] = Ends(z)[k - 1]
        BY <2>2, <2>7, <4>1
      <4> QED BY <4>3, <4>4
    <3> QED BY <3>1, <3>2
  <2>9. ASSUME NEW x \in DOMAIN u.at PROVE \E k \in 1 .. N + 1 : u.order[k] = x
    <3>1. CASE x = s
      <4>1. N + 1 \in 1 .. N + 1
        BY <2>2
      <4> QED BY <2>3, <3>1, <4>1
    <3>2. CASE x # s
      <4>1. PICK k \in 1 .. N : t.order[k] = x
        BY <2>1, <2>2, <3>2
      <4>2. k \in 1 .. N + 1
        BY <2>2
      <4> QED BY <2>3, <4>1, <4>2
    <3> QED BY <3>1, <3>2
  <2>10. u.size = Ends(StringSizes(u))[Len(u.order)]
    BY <2>1, <2>2, <2>3, <2>7
  <2>11. TableOk(u, S)
    BY <2>3, <2>8, <2>9, <2>10 DEF TableOk
  <2>12. DOMAIN u.at = DOMAIN t.at \cup {s}
    BY <2>1
  <2> QED BY <2>11, <2>12 DEF u
<1> QED BY <1>1, <1>2

LEMMA StringsAdded ==
  ASSUME NEW S, Counted(S), NEW t, TableOk(t, S), NEW ss \in Seq(S)
  PROVE  TableOk(AddStrings(t, ss), S) /\ DOMAIN AddStrings(t, ss).at = DOMAIN t.at \cup Range(ss)
<1> DEFINE N == Len(ss)
           G(x, k) == AddString(x, ss[k])
           Is(f, m) == f = [k \in 0 .. m |-> IF k = 0 THEN t ELSE G(f[k - 1], k)]
           Ok(m) == \E f : Is(f, m)
           Bad == {m \in 0 .. N : ~Ok(m)}
<1>0. N \in Nat /\ DOMAIN ss = 1 .. N /\ \A k \in 1 .. N : ss[k] \in S
  OBVIOUS
<1>1. Ok(0)
  <2> HIDE DEF G
  <2>1. Is([k \in 0 .. 0 |-> t], 0)
    OBVIOUS
  <2> QED BY <2>1
<1>2. ASSUME NEW m \in 1 .. N, Ok(m - 1) PROVE Ok(m)
  <2> HIDE DEF G
  <2>1. PICK g : Is(g, m - 1)
    BY <1>2
  <2> DEFINE h == [k \in 0 .. m |-> IF k < m THEN g[k] ELSE G(g[m - 1], m)]
  <2>2. ASSUME NEW k \in 0 .. m PROVE h[k] = IF k = 0 THEN t ELSE G(h[k - 1], k)
    <3>1. CASE k = m
      BY <3>1
    <3>2. CASE k < m
      BY <3>2, <2>1
    <3> QED BY <3>1, <3>2
  <2>3. h = [k \in 0 .. m |-> h[k]]
    OBVIOUS
  <2> HIDE DEF h
  <2>4. Is(h, m)
    BY <2>2, <2>3
  <2> QED BY <2>4
<1> HIDE DEF Ok
<1>3. Bad = {}
  <2>1. Bad \in SUBSET (0 .. N) /\ 0 \notin Bad /\ \A m \in 1 .. N : m - 1 \notin Bad => m \notin Bad
    BY <1>0, <1>1, <1>2
  <2> HIDE DEF Bad
  <2> QED BY <1>0, <2>1, NoFirstFailure
<1>4. PICK f : Is(f, N)
  <2>1. Ok(N)
    BY <1>0, <1>3
  <2> QED BY <2>1 DEF Ok
<1> DEFINE F == CHOOSE f1 : Is(f1, N)
<1>5. AddStrings(t, ss) = F[N]
  BY DEF AddStrings
<1> HIDE DEF Is
<1>6. Is(F, N)
  BY <1>4
<1> HIDE DEF F
<1>7. \A k \in 0 .. N : F[k] = IF k = 0 THEN t ELSE AddString(F[k - 1], ss[k])
  <2>1. \A k \in 0 .. N : F[k] = IF k = 0 THEN t ELSE G(F[k - 1], k)
    <3> HIDE DEF G
    <3> QED BY <1>6 DEF Is
  <2> QED BY <2>1
<1> DEFINE First(k) == {ss[i] : i \in 1 .. k}
           Odd == {k \in 0 .. N : ~(TableOk(F[k], S) /\ DOMAIN F[k].at = DOMAIN t.at \cup First(k))}
<1>8. Odd = {}
  <2>1. ASSUME NEW k \in 1 .. N, k - 1 \notin Odd PROVE k \notin Odd
    <3>1. k - 1 \in 0 .. N /\ k \in 0 .. N /\ k # 0 /\ ss[k] \in S
      BY <1>0
    <3>2. TableOk(F[k - 1], S) /\ DOMAIN F[k - 1].at = DOMAIN t.at \cup First(k - 1)
      BY <2>1, <3>1
    <3>3. F[k] = AddString(F[k - 1], ss[k])
      BY <1>7, <3>1
    <3>4. TableOk(F[k], S) /\ DOMAIN F[k].at = DOMAIN F[k - 1].at \cup {ss[k]}
      BY <3>1, <3>2, <3>3, StringAdded
    <3>5. First(k) = First(k - 1) \cup {ss[k]}
      <4>1. 1 .. k = (1 .. k - 1) \cup {k}
        BY <1>0
      <4> QED BY <4>1
    <3> QED BY <3>2, <3>4, <3>5
  <2>2. Odd \in SUBSET (0 .. N) /\ 0 \notin Odd
    <3>1. F[0] = t
      BY <1>0, <1>7
    <3>2. First(0) = {}
      OBVIOUS
    <3> QED BY <3>1, <3>2
  <2> HIDE DEF Odd
  <2> QED BY <1>0, <2>1, <2>2, NoFirstFailure
<1>9. TableOk(F[N], S) /\ DOMAIN F[N].at = DOMAIN t.at \cup First(N)
  <2>1. N \in 0 .. N
    BY <1>0
  <2> QED BY <1>8, <2>1
<1>10. First(N) = Range(ss)
  BY <1>0 DEF Range
<1> QED BY <1>5, <1>9, <1>10

LEMMA FirstTable ==
  ASSUME NEW S, Counted(S), Nul \in S
  PROVE  TableOk(EmptyTable, S) /\ DOMAIN EmptyTable.at = {Nul}
<1> DEFINE t == [at |-> <<>>, size |-> 0, order |-> <<>>]
<1>1. t.order \in Seq(S) /\ Len(t.order) = 0 /\ DOMAIN t.at = {} /\ t.size = 0
  OBVIOUS
<1> HIDE DEF t
<1>2. StringSizes(t) \in Seq(Nat)
  BY <1>1, SizesAre
<1>3. Ends(StringSizes(t))[0] = 0
  BY <1>2, EndsStep
<1>4. TableOk(t, S)
  BY <1>1, <1>3 DEF TableOk
<1>5. TableOk(AddString(t, Nul), S) /\ DOMAIN AddString(t, Nul).at = {} \cup {Nul}
  BY <1>1, <1>4, StringAdded
<1> QED BY <1>5 DEF EmptyTable, t
-----------------------------------------------------------------------------
Laid(ps) ==
  [k \in DOMAIN ps |-> [data |-> ps[k].data, size |-> ps[k].size, at |-> Ends(Mapped(ps, LAMBDA p : p.size))[k - 1]]]

\* Pieces that are not empty are apart
LEMMA PiecesApart ==
  ASSUME NEW ps, Sequence(ps), \A p \in Range(ps) : p.size \in Nat
  PROVE  /\ Sequence(Laid(ps)) /\ Len(Laid(ps)) = Len(ps)
         /\ \A k \in 1 .. Len(ps) : Laid(ps)[k].data = ps[k].data /\ Laid(ps)[k].size = ps[k].size
         /\ \A k, l \in 1 .. Len(ps) :
              Laid(ps)[k].at = Laid(ps)[l].at /\ Laid(ps)[k].size > 0 /\ Laid(ps)[l].size > 0 => k = l
<1> DEFINE z == Mapped(ps, LAMBDA p : p.size)
           f == Laid(ps)
           N == Len(ps)
<1>1. N \in Nat /\ DOMAIN ps = 1 .. N /\ \A k \in 1 .. N : ps[k].size \in Nat
  <2>1. N \in Nat /\ DOMAIN ps = 1 .. N
    BY OfSequence
  <2> QED BY <2>1 DEF Range
<1>2. z = [k \in 1 .. N |-> ps[k].size]
  BY <1>1 DEF Mapped
<1>3. f = [k \in 1 .. N |-> [data |-> ps[k].data, size |-> ps[k].size, at |-> Ends(z)[k - 1]]]
  BY <1>1 DEF Laid
<1> HIDE DEF z, f, N
<1>4. z \in Seq(Nat) /\ Len(z) = N
  <2>1. z \in [1 .. N -> Nat]
    BY <1>1, <1>2
  <2> QED BY <1>1, <2>1
<1>5. Sequence(f) /\ Len(f) = N
  <2>1. DOMAIN f = 1 .. N /\ f = [k \in DOMAIN f |-> f[k]]
    BY <1>3
  <2> QED BY <1>1, <2>1, AnySequence
<1>6. \A k \in 1 .. N : f[k].data = ps[k].data /\ f[k].size = ps[k].size /\ f[k].at = Ends(z)[k - 1] /\ z[k] = ps[k].size
  BY <1>2, <1>3
<1>7. ASSUME NEW k \in 1 .. N, NEW l \in 1 .. N, k < l, f[k].size > 0 PROVE f[k].at # f[l].at
  <2>1. k \in 1 .. Len(z) /\ l \in 1 .. Len(z) /\ k - 1 \in 0 .. Len(z) /\ l - 1 \in 0 .. Len(z)
    BY <1>1, <1>4
  <2>2. Ends(z)[k - 1] + z[k] <= Ends(z)[l - 1]
    BY <1>4, <1>7, <2>1, EndsGrow
  <2>3. Ends(z)[k - 1] \in Nat /\ Ends(z)[l - 1] \in Nat
    BY <1>4, <2>1, EndsStep
  <2>4. z[k] > 0 /\ z[k] \in Nat
    BY <1>1, <1>6, <1>7
  <2>5. Ends(z)[k - 1] # Ends(z)[l - 1]
    BY <2>2, <2>3, <2>4
  <2> QED BY <1>6, <2>5
<1>8. ASSUME NEW k \in 1 .. N, NEW l \in 1 .. N, f[k].at = f[l].at, f[k].size > 0, f[l].size > 0 PROVE k = l
  <2>1. ~(k < l) /\ ~(l < k)
    BY <1>7, <1>8
  <2> QED BY <1>1, <2>1
<1> QED BY <1>5, <1>6, <1>8 DEF f, N

\* A piece that all pieces of its data agree with is found by its data, and
\* what is read at its place is that data
LEMMA PieceFound ==
  ASSUME NEW ps, Sequence(ps), \A p \in Range(ps) : p.size \in Nat, file = Laid(ps),
         NEW d, NEW n, \E p \in Range(ps) : p.data = d, \A p \in Range(ps) : p.data = d => p.size = n
  PROVE  /\ n \in Nat /\ PieceOf(d).size = n
         /\ d \in At(PieceOf(d).at, n)
         /\ n > 0 => At(PieceOf(d).at, n) = {d}
<1>1. /\ Sequence(file) /\ Len(file) = Len(ps)
      /\ \A k \in 1 .. Len(ps) : file[k].data = ps[k].data /\ file[k].size = ps[k].size
      /\ \A k, l \in 1 .. Len(ps) : file[k].at = file[l].at /\ file[k].size > 0 /\ file[l].size > 0 => k = l
  BY PiecesApart
<1>2. Len(ps) \in Nat /\ DOMAIN ps = 1 .. Len(ps) /\ DOMAIN file = 1 .. Len(ps)
  BY <1>1, OfSequence
<1> DEFINE I == {i \in 1 .. Len(file) : file[i].data = d}
           m == Min(I)
<1>3. I # {} /\ I \in SUBSET Nat
  <2>1. PICK i \in DOMAIN ps : ps[i].data = d
    BY DEF Range
  <2> QED BY <1>1, <1>2, <2>1
<1>4. m \in I
  <2> HIDE DEF I
  <2>1. \E x \in I : \A y \in I : x <= y
    BY <1>3, LeastNumber
  <2> QED BY <2>1 DEF Min
<1>5. PieceOf(d) = file[m]
  BY <1>3 DEF PieceOf, SelectInSeq
<1>6. m \in 1 .. Len(ps) /\ file[m].data = d
  BY <1>1, <1>4
<1> HIDE DEF I, m
<1>7. \A k \in 1 .. Len(ps) : file[k].data = d => file[k].size = n
  BY <1>1, <1>2 DEF Range
<1>8. n \in Nat /\ file[m].size = n
  <2>1. ps[m] \in Range(ps)
    BY <1>2, <1>6 DEF Range
  <2> QED BY <1>1, <1>6, <1>7, <2>1
<1>9. \A o : At(o, n) = {file[k].data : k \in {i \in 1 .. Len(ps) : file[i].at = o /\ file[i].size = n}}
  BY <1>2 DEF At, Range
<1>10. m \in {i \in 1 .. Len(ps) : file[i].at = file[m].at /\ file[i].size = n}
  BY <1>6, <1>8
<1>11. d \in At(file[m].at, n)
  BY <1>6, <1>9, <1>10
<1>12. ASSUME n > 0 PROVE {i \in 1 .. Len(ps) : file[i].at = file[m].at /\ file[i].size = n} = {m}
  BY <1>1, <1>6, <1>8, <1>10, <1>12
<1>13. ASSUME n > 0 PROVE At(file[m].at, n) = {d}
  BY <1>6, <1>9, <1>12, <1>13
<1> QED BY <1>5, <1>8, <1>11, <1>13
-----------------------------------------------------------------------------
KeptOf(xs, P) == FlattenSeq([i \in DOMAIN xs |-> IF xs[i] \in P THEN <<xs[i]>> ELSE <<>>])

\* What is kept of a sequence are its elements that are in P
LEMMA KeptAre ==
  ASSUME NEW xs, Sequence(xs), NEW P
  PROVE  Sequence(KeptOf(xs, P)) /\ Range(KeptOf(xs, P)) = Range(xs) \cap P
<1> DEFINE S == Range(xs)
           ss == [i \in DOMAIN xs |-> IF xs[i] \in P THEN <<xs[i]>> ELSE <<>>]
           q == FlattenSeq(ss)
<1>1. Len(xs) \in Nat /\ DOMAIN xs = 1 .. Len(xs) /\ \A i \in 1 .. Len(xs) : xs[i] \in S
  <2>1. Len(xs) \in Nat /\ DOMAIN xs = 1 .. Len(xs)
    BY OfSequence
  <2> QED BY <2>1 DEF Range
<1>2. ss \in Seq(Seq(S)) /\ Len(ss) = Len(xs)
  <2>1. \A i \in 1 .. Len(xs) : ss[i] \in Seq(S)
    BY <1>1
  <2>2. ss = [i \in 1 .. Len(xs) |-> ss[i]]
    BY <1>1
  <2> HIDE DEF ss
  <2>3. ss \in [1 .. Len(xs) -> Seq(S)]
    BY <2>1, <2>2
  <2> QED BY <1>1, <2>3
<1>3. \A i \in 1 .. Len(xs) : ss[i] = IF xs[i] \in P THEN <<xs[i]>> ELSE <<>>
  BY <1>1
<1> HIDE DEF ss, S
<1>4. q \in Seq(S)
  BY <1>2, FlattenIs
<1>5. Sequence(q) /\ DOMAIN q = 1 .. Len(q)
  BY <1>4, SequenceOf
<1>6. ASSUME NEW x \in Range(q) PROVE x \in S \cap P
  <2>1. PICK n \in 1 .. Len(q) : q[n] = x
    BY <1>5 DEF Range
  <2>2. \E i \in 1 .. Len(ss) : \E k \in 1 .. Len(ss[i]) : q[n] = ss[i][k]
    <3>1. n \in 1 .. Len(FlattenSeq(ss))
      OBVIOUS
    <3> QED BY <1>2, <3>1, PlaceOfEach
  <2>3. PICK i \in 1 .. Len(xs) : \E k \in 1 .. Len(ss[i]) : x = ss[i][k]
    BY <1>2, <2>1, <2>2
  <2>4. PICK k \in 1 .. Len(ss[i]) : x = ss[i][k]
    BY <2>3
  <2>5. CASE xs[i] \in P
    <3>1. ss[i] = <<xs[i]>>
      BY <1>3, <2>5
    <3>2. x = xs[i]
      BY <2>4, <3>1
    <3> QED BY <1>1, <2>5, <3>2
  <2>6. CASE xs[i] \notin P
    <3>1. ss[i] = <<>>
      BY <1>3, <2>6
    <3> QED BY <2>4, <3>1
  <2> QED BY <2>5, <2>6
<1>7. ASSUME NEW x \in S \cap P PROVE x \in Range(q)
  <2>1. PICK i \in 1 .. Len(xs) : xs[i] = x
    BY <1>1 DEF S, Range
  <2>2. ss[i] = <<x>>
    BY <1>3, <2>1
  <2>3. 1 \in 1 .. Len(ss[i]) /\ ss[i][1] = x
    BY <2>2
  <2>4. /\ Len(Leading(ss, i - 1)) + 1 \in 1 .. Len(FlattenSeq(ss))
        /\ FlattenSeq(ss)[Len(Leading(ss, i - 1)) + 1] = ss[i][1]
    BY <1>2, <2>1, <2>3, Placed
  <2> QED BY <1>5, <2>3, <2>4 DEF Range
<1>8. Range(q) = S \cap P
  BY <1>6, <1>7
<1> QED BY <1>5, <1>8 DEF KeptOf, S, ss

\* A binary file that has its address
Fixed(b) == b.addr \in Seq(Int) /\ b.addr # <<>> /\ b.addr[1] \in Int /\ b.size \in Nat

\* What main() makes of a command line that it takes
LEMMA JobIs ==
  ASSUME NEW c \in Commands, ~Refused(c), NEW j, j = JobOf(c)
  PROVE  /\ Sequence(j.bins) /\ \A b \in Range(j.bins) : Fixed(b)
         /\ c.imageDef \/ c.boot2 => j.bins # <<>>
         /\ c.boot2 => \E b \in Range(j.bins) : b.addr[1] = j.bins[1].addr[1] - BlockSize /\ b.size = BlockSize
         /\ j.bss = <<>> \/ \E b \in [addr : Nat, size : Nat] : j.bss = <<b>>
         /\ j.rdb \in Seq(Listings) /\ (Given(j.rdb) => j.rdb = c.rdb)
<1>1. c \in CommandLines /\ \A range \in {c.bss, c.map.data} : Given(range) => Len(range) = 2
  BY CommandsAssumption
<1>2. /\ c.bins \in Seq(Binaries) /\ c.map.code \in Seq(Nat) /\ c.map.data \in Seq(Nat) /\ c.bss \in Seq(Nat)
      /\ c.imageDef \in BOOLEAN /\ c.boot2 \in BOOLEAN /\ c.rdb \in Seq(Listings)
  BY <1>1 DEF CommandLines
<1> DEFINE bins == Located(c)
           N == Len(c.bins)
<1>3. N \in Nat /\ DOMAIN c.bins = 1 .. N /\ \A i \in 1 .. N : c.bins[i] \in Binaries /\ c.bins[i] \in Range(c.bins)
  BY <1>2 DEF Range
<1>4. ASSUME NEW i \in 1 .. N, ~Given(c.bins[i].addr) PROVE N = 1 /\ Given(c.map.code)
  <2>1. ~(N > 1) /\ Given(c.map.code)
    BY <1>3, <1>4 DEF Refused
  <2>2. N # 0
    BY <1>3
  <2> HIDE DEF N
  <2> QED BY <1>3, <2>1, <2>2
<1>5. ASSUME NEW b, NEW addr \in Seq(Nat), b.addr = addr, Given(addr), b.size \in Nat PROVE Fixed(b)
  <2>1. addr \in Seq(Int) /\ addr[1] \in Int /\ addr # <<>>
    BY <1>5 DEF Given
  <2> QED BY <1>5, <2>1 DEF Fixed
<1>6. Sequence(bins) /\ Len(bins) = N /\ \A i \in 1 .. N : Fixed(bins[i])
  <2>1. CASE N = 1 /\ ~Given(c.bins[1].addr)
    <3>1. c.bins[1] \in Binaries /\ Given(c.map.code)
      BY <1>3, <1>4, <2>1
    <3> DEFINE b == [c.bins[1] EXCEPT !.addr = c.map.code]
    <3>2. b \in Binaries /\ b.addr = c.map.code
      BY <1>2, <3>1 DEF Binaries
    <3>3. b.size \in Nat
      BY <3>2 DEF Binaries
    <3>4. bins = <<b>>
      BY <2>1 DEF Located
    <3> HIDE DEF b, bins
    <3>5. Fixed(b)
      BY <1>2, <1>5, <3>1, <3>2, <3>3
    <3>6. bins \in Seq({b}) /\ Len(bins) = 1 /\ bins[1] = b
      BY <3>4
    <3>7. Sequence(bins)
      BY <3>6, SequenceOf
    <3>8. \A i \in 1 .. 1 : i = 1
      OBVIOUS
    <3> QED BY <2>1, <3>5, <3>6, <3>7, <3>8
  <2>2. CASE ~(N = 1 /\ ~Given(c.bins[1].addr))
    <3>1. bins = c.bins
      BY <2>2 DEF Located
    <3> HIDE DEF bins
    <3>2. Sequence(bins)
      BY <1>2, <3>1, SequenceOf
    <3>3. ASSUME NEW i \in 1 .. N PROVE Fixed(bins[i])
      <4>1. Given(bins[i].addr)
        <5>1. SUFFICES ASSUME ~Given(c.bins[i].addr) PROVE FALSE
          BY <3>1
        <5>2. N = 1
          BY <1>4, <5>1
        <5>3. i = 1
          BY <5>2
        <5> QED BY <2>2, <5>1, <5>2, <5>3
      <4>2. bins[i].addr \in Seq(Nat) /\ bins[i].size \in Nat
        BY <1>3, <3>1 DEF Binaries
      <4> QED BY <1>5, <4>1, <4>2
    <3> QED BY <3>1, <3>2, <3>3
  <2> QED BY <2>1, <2>2
<1>7. (c.imageDef => c.bins # <<>>) /\ (c.boot2 => c.bins # <<>>) /\ ~(c.imageDef /\ c.boot2)
  BY DEF Refused
<1>8. c.bins # <<>> => N > 0
  BY <1>2
<1> HIDE DEF bins, N
<1> DEFINE BinsOk == /\ Sequence(j.bins) /\ \A b \in Range(j.bins) : Fixed(b)
                     /\ c.imageDef \/ c.boot2 => j.bins # <<>>
                     /\ c.boot2 => \E b \in Range(j.bins) : b.addr[1] = j.bins[1].addr[1] - BlockSize /\ b.size = BlockSize
<1>9. ASSUME c.boot2 PROVE BinsOk
  <2> DEFINE b2 == Boot2(bins)
  <2>1. j.bins = bins \o <<b2>>
    BY <1>9 DEF JobOf, bins
  <2>2. 1 \in 1 .. N /\ N \in Nat
    BY <1>3, <1>7, <1>8, <1>9
  <2>3. Fixed(b2) /\ b2.size = BlockSize /\ b2.addr[1] = bins[1].addr[1] - BlockSize
    <3>1. BlockSize \in Nat
      BY DEF BlockSize
    <3>2. PICK from \in Int : from = bins[1].addr[1] - BlockSize
      BY <1>6, <2>2, <3>1 DEF Fixed
    <3>3. PICK at : at = <<from>>
      OBVIOUS
    <3>4. at \in Seq(Int) /\ at # <<>> /\ at[1] = from /\ from \in Int
      BY <3>2, <3>3
    <3>5. b2.addr = at /\ b2.size = BlockSize
      BY <3>2, <3>3 DEF Boot2
    <3> HIDE DEF b2
    <3> QED BY <3>1, <3>2, <3>4, <3>5 DEF Fixed
  <2> HIDE DEF b2
  <2>4. PICK one : one = <<b2>>
    OBVIOUS
  <2>5. Sequence(one) /\ Len(one) = 1 /\ one[1] = b2 /\ Range(one) = {b2}
    <3>1. one \in Seq({b2}) /\ Len(one) = 1 /\ one[1] = b2 /\ DOMAIN one = {1}
      BY <2>4
    <3>2. Range(one) = {b2}
      BY <3>1 DEF Range
    <3> QED BY <3>1, <3>2, SequenceOf
  <2>6. /\ Sequence(j.bins) /\ Range(j.bins) = Range(bins) \cup {b2}
        /\ \A i \in 1 .. N : j.bins[i] = bins[i]
    BY <1>6, <2>1, <2>4, <2>5, JoinedAny
  <2>7. \A b \in Range(bins) : Fixed(b)
    BY <1>6, OfSequence
  <2>8. j.bins[1] = bins[1] /\ j.bins # <<>>
    <3>1. j.bins[1] = bins[1]
      BY <2>2, <2>6
    <3>2. Range(j.bins) # {}
      BY <2>6
    <3> QED BY <3>1, <3>2 DEF Range
  <2>9. b2.addr[1] = j.bins[1].addr[1] - BlockSize
    BY <2>3, <2>8
  <2> QED BY <2>3, <2>6, <2>7, <2>8, <2>9
<1>10. ASSUME ~c.boot2 PROVE BinsOk
  <2>1. j.bins = bins \o <<>>
    BY <1>10 DEF JobOf, bins
  <2>2. bins \in Seq(Range(bins))
    BY <1>6 DEF Sequence
  <2>3. j.bins = bins
    BY <2>1, <2>2
  <2>4. \A b \in Range(bins) : Fixed(b)
    BY <1>6, OfSequence
  <2>5. bins # <<>> \/ N = 0
    BY <1>6
  <2> QED BY <1>6, <1>7, <1>8, <1>10, <2>3, <2>4, <2>5
<1>11. j.bss = <<>> \/ \E b \in [addr : Nat, size : Nat] : j.bss = <<b>>
  <2> DEFINE range == IF Given(c.bss) THEN c.bss ELSE c.map.data
  <2>1. range \in Seq(Nat) /\ (Given(range) => Len(range) = 2)
    BY <1>1, <1>2
  <2>2. j.bss = IF Given(range) /\ range[2] > range[1]
                THEN <<[addr |-> range[1], size |-> range[2] - range[1]]>> ELSE <<>>
    BY DEF JobOf, BssRange
  <2> HIDE DEF range
  <2>3. CASE Given(range) /\ range[2] > range[1]
    <3>1. range[1] \in Nat /\ range[2] - range[1] \in Nat
      BY <2>1, <2>3
    <3>2. [addr |-> range[1], size |-> range[2] - range[1]] \in [addr : Nat, size : Nat]
      BY <3>1
    <3> QED BY <2>2, <2>3, <3>2
  <2> QED BY <2>2, <2>3
<1>12. j.rdb \in Seq(Listings) /\ (Given(j.rdb) => j.rdb = c.rdb)
  <2>1. j.rdb = IF Level(c) = "none" THEN <<>> ELSE c.rdb
    BY DEF JobOf
  <2> QED BY <1>2, <2>1 DEF Given
<1> QED BY <1>9, <1>10, <1>11, <1>12
-----------------------------------------------------------------------------
LEMMA Single ==
  ASSUME NEW a
  PROVE  Sequence(<<a>>) /\ Len(<<a>>) = 1 /\ <<a>>[1] = a /\ Range(<<a>>) = {a}
<1>1. PICK t : t = <<a>>
  OBVIOUS
<1>2. t \in Seq({a}) /\ Len(t) = 1 /\ t[1] = a /\ DOMAIN t = {1}
  BY <1>1
<1>3. Range(t) = {a}
  BY <1>2 DEF Range
<1>4. Sequence(t)
  BY <1>2, SequenceOf
<1> QED BY <1>1, <1>2, <1>3, <1>4

LEMMA Nothing == Sequence(<<>>) /\ Len(<<>>) = 0 /\ Range(<<>>) = {}
<1>1. <<>> \in Seq({}) /\ Len(<<>>) = 0 /\ DOMAIN <<>> = {}
  OBVIOUS
<1>2. Sequence(<<>>)
  BY <1>1, SequenceOf
<1> QED BY <1>1, <1>2 DEF Range

LEMMA Triple ==
  ASSUME NEW a, NEW b, NEW c
  PROVE  LET t == <<a, b, c>> IN
           Sequence(t) /\ Len(t) = 3 /\ t[1] = a /\ t[2] = b /\ t[3] = c /\ Range(t) = {a, b, c}
<1>1. PICK t : t = <<a, b, c>>
  OBVIOUS
<1>2. t \in Seq({a, b, c}) /\ Len(t) = 3 /\ t[1] = a /\ t[2] = b /\ t[3] = c /\ DOMAIN t = {1, 2, 3}
  BY <1>1
<1>3. Range(t) = {a, b, c}
  BY <1>2 DEF Range
<1>4. Sequence(t)
  BY <1>2, SequenceOf
<1> QED BY <1>1, <1>2, <1>3, <1>4

LEMMA ThreeJoined ==
  ASSUME NEW a, NEW b, NEW d, Sequence(a), Sequence(b), Sequence(d)
  PROVE  LET q == a \o b \o d IN
         /\ Sequence(q) /\ Len(q) = Len(a) + Len(b) + Len(d) /\ Range(q) = Range(a) \cup Range(b) \cup Range(d)
         /\ \A i \in 1 .. Len(a) : q[i] = a[i]
         /\ \A i \in 1 .. Len(b) : q[Len(a) + i] = b[i]
         /\ \A i \in 1 .. Len(d) : q[Len(a) + Len(b) + i] = d[i]
<1>1. PICK e : e = a \o b
  OBVIOUS
<1>2. /\ Sequence(e) /\ Len(e) = Len(a) + Len(b) /\ Range(e) = Range(a) \cup Range(b)
      /\ \A i \in 1 .. Len(a) : e[i] = a[i]
      /\ \A i \in 1 .. Len(b) : e[Len(a) + i] = b[i]
  <2>1. Sequence(a) /\ Sequence(b)
    OBVIOUS
  <2> QED BY ONLY <1>1, <2>1, JoinedAny
<1>3. PICK q : q = e \o d
  OBVIOUS
<1>4. /\ Sequence(q) /\ Len(q) = Len(e) + Len(d) /\ Range(q) = Range(e) \cup Range(d)
      /\ \A i \in 1 .. Len(e) : q[i] = e[i]
      /\ \A i \in 1 .. Len(d) : q[Len(e) + i] = d[i]
  <2>1. Sequence(e) /\ Sequence(d)
    BY <1>2
  <2> QED BY ONLY <1>3, <2>1, JoinedAny
<1>5. Len(a) \in Nat /\ Len(b) \in Nat /\ Len(d) \in Nat
  BY OfSequence
<1>6. ASSUME NEW i \in 1 .. Len(a) PROVE q[i] = a[i]
  <2>1. i \in 1 .. Len(e)
    BY <1>2, <1>5
  <2> QED BY ONLY <1>2, <1>4, <2>1, i \in 1 .. Len(a)
<1>7. ASSUME NEW i \in 1 .. Len(b) PROVE q[Len(a) + i] = b[i]
  <2>1. Len(a) + i \in 1 .. Len(e)
    BY <1>2, <1>5
  <2> QED BY ONLY <1>2, <1>4, <2>1, i \in 1 .. Len(b)
<1>8. ASSUME NEW i \in 1 .. Len(d) PROVE q[Len(a) + Len(b) + i] = d[i]
  BY ONLY <1>2, <1>4, i \in 1 .. Len(d)
<1>9. Len(q) = Len(a) + Len(b) + Len(d) /\ Range(q) = Range(a) \cup Range(b) \cup Range(d)
  BY ONLY <1>2, <1>4
<1> QED BY <1>1, <1>3, <1>4, <1>6, <1>7, <1>8, <1>9

\* What is loaded: the block before the code, the binary files, the data
LoadedOk(c, j, n0) ==
  LET ld == LoadedOf(c, j) IN
    /\ Sequence(ld) /\ Len(j.bins) \in Nat /\ Len(j.bss) \in {0, 1}
    /\ Len(ld) = n0 + Len(j.bins) + Len(j.bss)
    /\ c.imageDef => ld[1] = [name |-> ".image_def", kind |-> "bits",
                              addr |-> j.bins[1].addr[1] - BlockSize, size |-> BlockSize]
    /\ \A i \in 1 .. Len(j.bins) :
         ld[n0 + i] = [name |-> SectionName(j, i), kind |-> "bits", addr |-> j.bins[i].addr[1], size |-> j.bins[i].size]
    /\ j.bss # <<>> =>
         ld[Len(ld)] = [name |-> ".bss", kind |-> "nobits", addr |-> j.bss[1].addr, size |-> j.bss[1].size]
    /\ \A x \in Range(ld) : x.kind \in {"bits", "nobits"} /\ x.size \in Nat

LEMMA LoadedAre ==
  ASSUME NEW c \in Commands, ~Refused(c), NEW j, j = JobOf(c), NEW n0, n0 = IF c.imageDef THEN 1 ELSE 0
  PROVE  LoadedOk(c, j, n0)
<1> DEFINE block == [name |-> ".image_def", kind |-> "bits", addr |-> j.bins[1].addr[1] - BlockSize, size |-> BlockSize]
           a == IF c.imageDef THEN <<block>> ELSE <<>>
           Bin(i) == [name |-> SectionName(j, i), kind |-> "bits", addr |-> j.bins[i].addr[1], size |-> j.bins[i].size]
           b == [i \in DOMAIN j.bins |-> Bin(i)]
           Data(x) == [name |-> ".bss", kind |-> "nobits", addr |-> x.addr, size |-> x.size]
           d == Mapped(j.bss, LAMBDA x : Data(x))
           nb == Len(j.bins)
           Sized(x) == x.kind \in {"bits", "nobits"} /\ x.size \in Nat
<1>1. LoadedOf(c, j) = a \o b \o d
  BY DEF LoadedOf
<1>2. /\ Sequence(j.bins) /\ \A x \in Range(j.bins) : Fixed(x)
      /\ j.bss = <<>> \/ \E x \in [addr : Nat, size : Nat] : j.bss = <<x>>
  BY JobIs
<1>3. nb \in Nat /\ DOMAIN j.bins = 1 .. nb /\ \A i \in 1 .. nb : j.bins[i].size \in Nat
  <2>1. nb \in Nat /\ DOMAIN j.bins = 1 .. nb
    BY <1>2, OfSequence
  <2>2. \A i \in 1 .. nb : Fixed(j.bins[i])
    BY <1>2, <2>1 DEF Range
  <2> QED BY <2>1, <2>2 DEF Fixed
<1>4. Sequence(a) /\ Len(a) = n0 /\ (c.imageDef => a[1] = block) /\ \A x \in Range(a) : Sized(x)
  <2>1. Sized(block)
    BY DEF BlockSize
  <2> HIDE DEF block, Sized
  <2>2. CASE c.imageDef
    BY <2>1, <2>2, Single
  <2>3. CASE ~c.imageDef
    BY <2>3, Nothing
  <2> QED BY <2>2, <2>3
<1> HIDE DEF a, nb
<1>5. Sequence(b) /\ Len(b) = nb /\ \A i \in 1 .. nb : b[i] = Bin(i)
  <2> HIDE DEF Bin
  <2>1. DOMAIN b = 1 .. nb /\ b = [i \in DOMAIN b |-> b[i]] /\ \A i \in 1 .. nb : b[i] = Bin(i)
    BY <1>3
  <2> HIDE DEF b
  <2> QED BY <1>3, <2>1, AnySequence
<1>6. \A x \in Range(b) : Sized(x)
  <2>1. \A i \in 1 .. nb : Sized(Bin(i))
    BY <1>3
  <2> HIDE DEF Sized, Bin, b
  <2>2. DOMAIN b = 1 .. nb
    BY <1>5, OfSequence
  <2> QED BY <1>5, <2>1, <2>2 DEF Range
<1> HIDE DEF b
<1>7. /\ Sequence(d) /\ Len(d) = Len(j.bss) /\ Len(d) \in {0, 1} /\ (Len(d) = 0 => j.bss = <<>>)
      /\ j.bss # <<>> => Len(d) = 1 /\ d[1] = Data(j.bss[1])
      /\ \A x \in Range(d) : Sized(x)
  <2>1. CASE j.bss = <<>>
    <3>1. d = <<>>
      BY <2>1 DEF Mapped
    <3> HIDE DEF d
    <3> QED BY <2>1, <3>1, Nothing
  <2>2. CASE j.bss # <<>>
    <3>1. PICK x \in [addr : Nat, size : Nat] : j.bss = <<x>>
      BY <1>2, <2>2
    <3>2. Sized(Data(x))
      BY <3>1
    <3> HIDE DEF Data, Sized
    <3>3. d = <<Data(x)>> /\ j.bss[1] = x /\ Len(j.bss) = 1
      BY <3>1 DEF Mapped
    <3> HIDE DEF d
    <3> QED BY <2>2, <3>2, <3>3, Single
  <2> QED BY <2>1, <2>2
<1> HIDE DEF d, Sized, Bin, Data, block
<1>8. PICK ld : ld = a \o b \o d
  OBVIOUS
<1>9. /\ Sequence(ld) /\ Len(ld) = Len(a) + Len(b) + Len(d) /\ Range(ld) = Range(a) \cup Range(b) \cup Range(d)
      /\ \A i \in 1 .. Len(a) : ld[i] = a[i]
      /\ \A i \in 1 .. Len(b) : ld[Len(a) + i] = b[i]
      /\ \A i \in 1 .. Len(d) : ld[Len(a) + Len(b) + i] = d[i]
  <2>1. Sequence(a) /\ Sequence(b) /\ Sequence(d)
    BY <1>4, <1>5, <1>7
  <2> QED BY ONLY <1>8, <2>1, ThreeJoined
<1>10. LoadedOf(c, j) = ld
  BY <1>1, <1>8
<1>11. Len(ld) = n0 + nb + Len(j.bss)
  BY ONLY <1>4, <1>5, <1>7, <1>9
<1>12. ASSUME NEW i \in 1 .. nb PROVE ld[n0 + i] = Bin(i)
  BY ONLY <1>4, <1>5, <1>9, i \in 1 .. nb
<1>13. c.imageDef => ld[1] = block
  <2>1. c.imageDef => 1 \in 1 .. n0
    OBVIOUS
  <2> QED BY ONLY <1>4, <1>9, <2>1
<1>14. j.bss # <<>> => ld[Len(ld)] = Data(j.bss[1])
  <2> HAVE j.bss # <<>>
  <2>1. Len(d) = 1 /\ d[1] = Data(j.bss[1])
    BY <1>7
  <2>2. 1 \in 1 .. 1
    OBVIOUS
  <2> QED BY ONLY <1>9, <2>1, <2>2
<1>15. \A x \in Range(ld) : Sized(x)
  BY ONLY <1>4, <1>6, <1>7, <1>9
<1>16. Len(j.bss) \in {0, 1}
  BY <1>7
<1> QED BY <1>3, <1>9, <1>10, <1>11, <1>12, <1>13, <1>14, <1>15, <1>16 DEF Bin, Data, block, Sized, nb, LoadedOk

LEMMA LoadedSizes ==
  ASSUME NEW c \in Commands, ~Refused(c)
  PROVE  LET ld == LoadedOf(c, JobOf(c)) IN
           Sequence(ld) /\ \A x \in Range(ld) : x.kind \in {"bits", "nobits"} /\ x.size \in Nat
<1>1. PICK n0, j : n0 = (IF c.imageDef THEN 1 ELSE 0) /\ j = JobOf(c)
  OBVIOUS
<1>2. LoadedOk(c, j, n0)
  BY <1>1, LoadedAre
<1> QED BY <1>1, <1>2, Zenon DEF LoadedOk
-----------------------------------------------------------------------------
LEMMA DebugAre ==
  ASSUME NEW c \in Commands, ~Refused(c), NEW j, j = JobOf(c)
  PROVE  Sequence(DebugOf(j)) /\ \A x \in Range(DebugOf(j)) : x.size \in Nat
<1>1. j.rdb \in Seq(Listings)
  BY JobIs
<1>2. CASE ~Given(j.rdb)
  BY <1>2, Nothing DEF DebugOf
<1>3. CASE Given(j.rdb)
  <2> DEFINE xs == j.rdb[1].sections
             P == {s \in Range(xs) : s.size > 0 /\ (j.debug \/ s.name = ".ARM.attributes")}
  <2>1. j.rdb[1] \in Listings
    BY <1>1, <1>3 DEF Given
  <2>2. xs \in Seq([name : STRING, size : Nat])
    BY <2>1 DEF Listings
  <2>3. Sequence(xs) /\ Range(xs) \subseteq [name : STRING, size : Nat]
    <3> HIDE DEF xs
    <3> QED BY <2>2, SequenceOf
  <2>4. DebugOf(j) = KeptOf(xs, P)
    <3>1. \A i \in DOMAIN xs : xs[i] \in P <=> xs[i].size > 0 /\ (j.debug \/ xs[i].name = ".ARM.attributes")
      BY DEF Range
    <3>2. [i \in DOMAIN xs |-> IF xs[i] \in P THEN <<xs[i]>> ELSE <<>>]
          = [i \in DOMAIN xs |-> IF xs[i].size > 0 /\ (j.debug \/ xs[i].name = ".ARM.attributes") THEN <<xs[i]>> ELSE <<>>]
      <4> HIDE DEF P, xs
      <4> QED BY <3>1
    <3> HIDE DEF P
    <3> QED BY <1>3, <3>2 DEF DebugOf, KeptOf, Keep
  <2>5. Sequence(KeptOf(xs, P)) /\ Range(KeptOf(xs, P)) = Range(xs) \cap P
    <3> HIDE DEF P, xs
    <3> QED BY <2>3, KeptAre
  <2> HIDE DEF P, xs
  <2> QED BY <2>3, <2>4, <2>5
<1> QED BY <1>2, <1>3

\* The name of each section
LEMMA NamesAre ==
  ASSUME NEW c \in Commands, ~Refused(c)
  PROVE  LET ld == LoadedOf(c, JobOf(c))
             dbg == DebugOf(JobOf(c))
             names == NamesOf(c)
         IN  /\ Sequence(names) /\ Len(ld) \in Nat /\ Len(dbg) \in Nat /\ Len(names) = Len(ld) + Len(dbg) + 3
             /\ \A i \in 1 .. Len(ld) : names[i] = ld[i].name
             /\ \A i \in 1 .. Len(dbg) : names[Len(ld) + i] = dbg[i].name
             /\ names[Len(ld) + Len(dbg) + 1] = ".strtab"
             /\ names[Len(ld) + Len(dbg) + 2] = ".symtab"
             /\ names[Len(ld) + Len(dbg) + 3] = ".shstrtab"
             /\ Sequence(ContentsOf(c, JobOf(c))) /\ Range(ContentsOf(c, JobOf(c))) \subseteq Range(names)
             /\ Range(names) \subseteq Range(ContentsOf(c, JobOf(c))) \cup {".strtab", ".symtab", ".shstrtab"}
<1> DEFINE j == JobOf(c)
           ld == LoadedOf(c, j)
           dbg == DebugOf(j)
           a == Mapped(ld, LAMBDA x : x.name)
           b == Mapped(dbg, LAMBDA x : x.name)
           d == <<".strtab", ".symtab", ".shstrtab">>
<1>1. Sequence(ld) /\ Sequence(dbg)
  BY LoadedSizes, DebugAre
<1> HIDE DEF ld, dbg
<1>2. Len(ld) \in Nat /\ DOMAIN ld = 1 .. Len(ld) /\ Len(dbg) \in Nat /\ DOMAIN dbg = 1 .. Len(dbg)
  BY <1>1, OfSequence
<1>3. Sequence(a) /\ Len(a) = Len(ld) /\ \A i \in 1 .. Len(ld) : a[i] = ld[i].name
  <2>1. DOMAIN a = 1 .. Len(ld) /\ a = [i \in DOMAIN a |-> a[i]] /\ \A i \in 1 .. Len(ld) : a[i] = ld[i].name
    BY <1>2 DEF Mapped
  <2> HIDE DEF a
  <2> QED BY <1>2, <2>1, AnySequence
<1>4. Sequence(b) /\ Len(b) = Len(dbg) /\ \A i \in 1 .. Len(dbg) : b[i] = dbg[i].name
  <2>1. DOMAIN b = 1 .. Len(dbg) /\ b = [i \in DOMAIN b |-> b[i]] /\ \A i \in 1 .. Len(dbg) : b[i] = dbg[i].name
    BY <1>2 DEF Mapped
  <2> HIDE DEF b
  <2> QED BY <1>2, <2>1, AnySequence
<1>5. /\ Sequence(d) /\ Len(d) = 3 /\ d[1] = ".strtab" /\ d[2] = ".symtab" /\ d[3] = ".shstrtab"
      /\ Range(d) = {".strtab", ".symtab", ".shstrtab"}
  BY Triple
<1>6. ContentsOf(c, j) = a \o b /\ NamesOf(c) = a \o b \o d
  BY DEF ContentsOf, NamesOf, ld, dbg
<1> HIDE DEF a, b, d, j
<1>7. Sequence(a \o b) /\ Range(a \o b) = Range(a) \cup Range(b)
  BY <1>3, <1>4, JoinedAny
<1>8. PICK q : q = a \o b \o d
  OBVIOUS
<1>9. /\ Sequence(q) /\ Len(q) = Len(a) + Len(b) + Len(d) /\ Range(q) = Range(a) \cup Range(b) \cup Range(d)
      /\ \A i \in 1 .. Len(a) : q[i] = a[i]
      /\ \A i \in 1 .. Len(b) : q[Len(a) + i] = b[i]
      /\ \A i \in 1 .. Len(d) : q[Len(a) + Len(b) + i] = d[i]
  <2>1. PICK x, y, z : x = a /\ y = b /\ z = d
    OBVIOUS
  <2>2. Sequence(x) /\ Sequence(y) /\ Sequence(z)
    BY <1>3, <1>4, <1>5, <2>1
  <2>3. PICK p : p = x \o y \o z
    OBVIOUS
  <2>4. /\ Sequence(p) /\ Len(p) = Len(x) + Len(y) + Len(z) /\ Range(p) = Range(x) \cup Range(y) \cup Range(z)
        /\ \A i \in 1 .. Len(x) : p[i] = x[i]
        /\ \A i \in 1 .. Len(y) : p[Len(x) + i] = y[i]
        /\ \A i \in 1 .. Len(z) : p[Len(x) + Len(y) + i] = z[i]
    BY <2>2, <2>3, ThreeJoined
  <2>5. p = q
    BY <1>8, <2>1, <2>3
  <2> QED BY <2>1, <2>4, <2>5
<1>10. /\ q[Len(ld) + Len(dbg) + 1] = ".strtab" /\ q[Len(ld) + Len(dbg) + 2] = ".symtab"
       /\ q[Len(ld) + Len(dbg) + 3] = ".shstrtab"
  <2>1. 1 \in 1 .. 3 /\ 2 \in 1 .. 3 /\ 3 \in 1 .. 3
    OBVIOUS
  <2>2. \A i \in 1 .. 3 : q[Len(ld) + Len(dbg) + i] = d[i]
    BY <1>3, <1>4, <1>5, <1>9
  <2> QED BY <1>5, <2>1, <2>2
<1>11. NamesOf(c) = q
  BY <1>6, <1>8
<1>12. /\ \A i \in 1 .. Len(ld) : q[i] = ld[i].name
       /\ \A i \in 1 .. Len(dbg) : q[Len(ld) + i] = dbg[i].name
  BY <1>3, <1>4, <1>9
<1>13. Sequence(q) /\ Len(q) = Len(ld) + Len(dbg) + 3
  BY <1>3, <1>4, <1>5, <1>9
<1>14. Sequence(ContentsOf(c, j)) /\ Range(ContentsOf(c, j)) = Range(a) \cup Range(b)
  BY <1>6, <1>7
<1> QED BY <1>2, <1>5, <1>9, <1>10, <1>11, <1>12, <1>13, <1>14 DEF ld, dbg, j
-----------------------------------------------------------------------------
(* The sections and segments, and the pieces of the file, before they are  *)
(* corrected.                                                              *)

NullSection ==
  [name |-> 0, kind |-> "null", addr |-> 0, offset |-> 0, size |-> 0, link |-> 0, info |-> 0, data |-> ""]

SectionsBefore ==
  <<NullSection>> \o Mapped(Loaded, LAMBDA x : SectionHeader(x.name, x.kind, x.addr, x.size, x.name))
                  \o Mapped(Debug, LAMBDA x : SectionHeader(x.name, "bits", 0, x.size, x.name))

SymtabHeader == [SectionHeader(".symtab", "symbols", 0, 0, ".symtab") EXCEPT !.link = Len(SectionsBefore)]
MadeSections ==
  SectionsBefore \o <<SectionHeader(".strtab", "strings", 0, 0, ".strtab"), SymtabHeader,
                      SectionHeader(".shstrtab", "strings", 0, 0, ".shstrtab")>>

MadeSegments ==
  Mapped(Loaded, LAMBDA x :
    [addr |-> x.addr, offset |-> 0, filesz |-> IF x.kind = "bits" THEN x.size ELSE 0, memsz |-> x.size])

\* main() has taken the command line
Taken == command \in Commands /\ ~Refused(command) /\ job = JobOf(command)

LEMMA SectionsAre ==
  ASSUME Taken
  PROVE  LET n == Len(Loaded)
             m == Len(Debug)
             made == MadeSections
         IN  /\ n \in Nat /\ m \in Nat /\ Sequence(made) /\ Len(made) = n + m + 4 /\ made[1] = NullSection
             /\ \A i \in 1 .. n :
                  made[1 + i] = SectionHeader(Loaded[i].name, Loaded[i].kind, Loaded[i].addr, Loaded[i].size, Loaded[i].name)
             /\ \A i \in 1 .. m :
                  made[1 + n + i] = SectionHeader(Debug[i].name, "bits", 0, Debug[i].size, Debug[i].name)
             /\ made[n + m + 2] = SectionHeader(".strtab", "strings", 0, 0, ".strtab")
             /\ made[n + m + 3] = SymtabHeader
             /\ made[n + m + 4] = SectionHeader(".shstrtab", "strings", 0, 0, ".shstrtab")
             /\ Len(SectionsBefore) = n + m + 1
<1> DEFINE n == Len(Loaded)
           m == Len(Debug)
           LH(x) == SectionHeader(x.name, x.kind, x.addr, x.size, x.name)
           DH(x) == SectionHeader(x.name, "bits", 0, x.size, x.name)
<1>1. Sequence(Loaded) /\ Sequence(Debug)
  BY LoadedSizes, DebugAre DEF Taken, Loaded, Debug
<1>2. n \in Nat /\ DOMAIN Loaded = 1 .. n /\ m \in Nat /\ DOMAIN Debug = 1 .. m
  BY <1>1, OfSequence
<1>3. PICK lh : lh = Mapped(Loaded, LAMBDA x : LH(x))
  OBVIOUS
<1>4. PICK dh : dh = Mapped(Debug, LAMBDA x : DH(x))
  OBVIOUS
<1>5. PICK one : one = <<NullSection>>
  OBVIOUS
<1>6. PICK three : three = <<SectionHeader(".strtab", "strings", 0, 0, ".strtab"), SymtabHeader,
                             SectionHeader(".shstrtab", "strings", 0, 0, ".shstrtab")>>
  OBVIOUS
<1>7. SectionsBefore = one \o lh \o dh
  BY <1>3, <1>4, <1>5 DEF SectionsBefore
<1>8. PICK first : first = one \o lh \o dh
  OBVIOUS
<1>9. MadeSections = first \o three
  BY <1>6, <1>7, <1>8 DEF MadeSections
<1> HIDE DEF LH, DH, n, m
<1>10. Sequence(lh) /\ Len(lh) = n /\ \A i \in 1 .. n : lh[i] = LH(Loaded[i])
  <2>1. DOMAIN lh = 1 .. n /\ lh = [i \in DOMAIN lh |-> lh[i]] /\ \A i \in 1 .. n : lh[i] = LH(Loaded[i])
    BY <1>2, <1>3 DEF Mapped
  <2> QED BY <1>2, <2>1, AnySequence
<1>11. Sequence(dh) /\ Len(dh) = m /\ \A i \in 1 .. m : dh[i] = DH(Debug[i])
  <2>1. DOMAIN dh = 1 .. m /\ dh = [i \in DOMAIN dh |-> dh[i]] /\ \A i \in 1 .. m : dh[i] = DH(Debug[i])
    BY <1>2, <1>4 DEF Mapped
  <2> QED BY <1>2, <2>1, AnySequence
<1>12. Sequence(one) /\ Len(one) = 1 /\ one[1] = NullSection
  BY <1>5, Single
<1>13. /\ Sequence(three) /\ Len(three) = 3 /\ three[1] = SectionHeader(".strtab", "strings", 0, 0, ".strtab")
       /\ three[2] = SymtabHeader /\ three[3] = SectionHeader(".shstrtab", "strings", 0, 0, ".shstrtab")
  BY <1>6, Triple
<1>14. /\ Sequence(first) /\ Len(first) = Len(one) + Len(lh) + Len(dh)
       /\ \A i \in 1 .. Len(one) : first[i] = one[i]
       /\ \A i \in 1 .. Len(lh) : first[Len(one) + i] = lh[i]
       /\ \A i \in 1 .. Len(dh) : first[Len(one) + Len(lh) + i] = dh[i]
  <2>1. Sequence(one) /\ Sequence(lh) /\ Sequence(dh)
    BY <1>10, <1>11, <1>12
  <2> QED BY ONLY <2>1, <1>8, ThreeJoined
<1>15. PICK made : made = first \o three
  OBVIOUS
<1>16. /\ Sequence(made) /\ Len(made) = Len(first) + Len(three)
       /\ \A i \in 1 .. Len(first) : made[i] = first[i]
       /\ \A i \in 1 .. Len(three) : made[Len(first) + i] = three[i]
  <2>1. Sequence(first) /\ Sequence(three)
    BY <1>13, <1>14
  <2> QED BY ONLY <2>1, <1>15, JoinedAny
<1>17. Len(first) = n + m + 1 /\ Len(made) = n + m + 4
  BY <1>2, <1>10, <1>11, <1>12, <1>13, <1>14, <1>16
<1>18. made[1] = NullSection
  <2>1. 1 \in 1 .. Len(first) /\ 1 \in 1 .. 1
    BY <1>2, <1>17
  <2> QED BY <1>12, <1>14, <1>16, <2>1
<1>19. ASSUME NEW i \in 1 .. n PROVE made[1 + i] = LH(Loaded[i])
  <2>1. 1 + i \in 1 .. Len(first)
    BY <1>2, <1>17
  <2>2. first[1 + i] = lh[i]
    BY <1>10, <1>12, <1>14
  <2> QED BY <1>10, <1>16, <2>1, <2>2
<1>20. ASSUME NEW i \in 1 .. m PROVE made[1 + n + i] = DH(Debug[i])
  <2>1. 1 + n + i \in 1 .. Len(first)
    BY <1>2, <1>17
  <2>2. first[1 + n + i] = dh[i]
    BY <1>10, <1>11, <1>12, <1>14
  <2> QED BY <1>11, <1>16, <2>1, <2>2
<1>21. /\ made[n + m + 2] = three[1] /\ made[n + m + 3] = three[2] /\ made[n + m + 4] = three[3]
  <2>1. 1 \in 1 .. 3 /\ 2 \in 1 .. 3 /\ 3 \in 1 .. 3
    OBVIOUS
  <2>2. made[Len(first) + 1] = three[1] /\ made[Len(first) + 2] = three[2] /\ made[Len(first) + 3] = three[3]
    BY <1>13, <1>16, <2>1
  <2>3. Len(first) + 1 = n + m + 2 /\ Len(first) + 2 = n + m + 3 /\ Len(first) + 3 = n + m + 4
    BY <1>2, <1>17
  <2> QED BY <2>2, <2>3
<1>22. MadeSections = made /\ Len(SectionsBefore) = n + m + 1
  BY <1>7, <1>8, <1>9, <1>15, <1>17
<1> QED BY <1>2, <1>13, <1>16, <1>17, <1>18, <1>19, <1>20, <1>21, <1>22 DEF n, m, LH, DH

\* A section header, whatever its fields
Header(h) ==
  h = [name |-> h.name, kind |-> h.kind, addr |-> h.addr, offset |-> h.offset, size |-> h.size,
       link |-> h.link, info |-> h.info, data |-> h.data]

\* What each section says, by its place among the names
LEMMA EachSection ==
  ASSUME Taken
  PROVE  LET n == Len(Loaded)
             m == Len(Debug)
             made == MadeSections
             names == NamesOf(command)
         IN  /\ \A i \in 1 .. n + m + 4 : Header(made[i])
             /\ \A i \in 1 .. n + m + 3 : made[1 + i].data = names[i] /\ made[1 + i].name = nameTable.at[names[i]]
             /\ \A i \in 1 .. n : /\ made[1 + i].kind = Loaded[i].kind /\ made[1 + i].addr = Loaded[i].addr
                                  /\ made[1 + i].size = Loaded[i].size
             /\ \A i \in 1 .. m : made[1 + n + i].kind = "bits" /\ made[1 + n + i].size = Debug[i].size
             /\ made[1].kind = "null" /\ made[1].data = "" /\ made[n + m + 2].kind = "strings" /\ made[n + m + 3].kind = "symbols"
             /\ made[n + m + 4].kind = "strings" /\ made[n + m + 3].link = n + m + 1
<1> DEFINE n == Len(Loaded)
           m == Len(Debug)
           made == MadeSections
           names == NamesOf(command)
<1>1. /\ n \in Nat /\ m \in Nat /\ Sequence(made) /\ Len(made) = n + m + 4 /\ made[1] = NullSection
      /\ \A i \in 1 .. n :
           made[1 + i] = SectionHeader(Loaded[i].name, Loaded[i].kind, Loaded[i].addr, Loaded[i].size, Loaded[i].name)
      /\ \A i \in 1 .. m :
           made[1 + n + i] = SectionHeader(Debug[i].name, "bits", 0, Debug[i].size, Debug[i].name)
      /\ made[n + m + 2] = SectionHeader(".strtab", "strings", 0, 0, ".strtab")
      /\ made[n + m + 3] = SymtabHeader
      /\ made[n + m + 4] = SectionHeader(".shstrtab", "strings", 0, 0, ".shstrtab")
      /\ Len(SectionsBefore) = n + m + 1
  BY SectionsAre
<1>2. /\ \A i \in 1 .. n : names[i] = Loaded[i].name
      /\ \A i \in 1 .. m : names[n + i] = Debug[i].name
      /\ names[n + m + 1] = ".strtab" /\ names[n + m + 2] = ".symtab" /\ names[n + m + 3] = ".shstrtab"
  BY NamesAre DEF Taken, Loaded, Debug
<1> HIDE DEF n, m, made, names
<1>3. \A name, kind, addr, size, data :
        LET h == SectionHeader(name, kind, addr, size, data) IN
          /\ Header(h) /\ h.name = nameTable.at[name] /\ h.kind = kind /\ h.addr = addr /\ h.size = size /\ h.data = data
  BY DEF SectionHeader, Header
<1>4. /\ Header(SymtabHeader) /\ SymtabHeader.name = nameTable.at[".symtab"] /\ SymtabHeader.kind = "symbols"
      /\ SymtabHeader.data = ".symtab" /\ SymtabHeader.link = n + m + 1
  <2>1. SymtabHeader = [name |-> nameTable.at[".symtab"], kind |-> "symbols", addr |-> 0, offset |-> 0, size |-> 0,
                        link |-> n + m + 1, info |-> 0, data |-> ".symtab"]
    BY <1>1 DEF SymtabHeader, SectionHeader
  <2> QED BY <2>1 DEF Header
<1>5. Header(NullSection) /\ NullSection.kind = "null" /\ NullSection.data = ""
  BY DEF Header, NullSection
<1>6. ASSUME NEW i \in 1 .. n
      PROVE  /\ Header(made[1 + i]) /\ made[1 + i].data = names[i] /\ made[1 + i].name = nameTable.at[names[i]]
             /\ made[1 + i].kind = Loaded[i].kind /\ made[1 + i].addr = Loaded[i].addr /\ made[1 + i].size = Loaded[i].size
  BY <1>1, <1>2, <1>3
<1>7. ASSUME NEW i \in 1 .. m
      PROVE  /\ Header(made[1 + n + i]) /\ made[1 + n + i].data = names[n + i]
             /\ made[1 + n + i].name = nameTable.at[names[n + i]]
             /\ made[1 + n + i].kind = "bits" /\ made[1 + n + i].size = Debug[i].size
  BY <1>1, <1>2, <1>3
<1>8. /\ Header(made[n + m + 2]) /\ made[n + m + 2].data = ".strtab" /\ made[n + m + 2].name = nameTable.at[".strtab"]
      /\ made[n + m + 2].kind = "strings"
  BY <1>1, <1>3
<1>9. /\ Header(made[n + m + 4]) /\ made[n + m + 4].data = ".shstrtab" /\ made[n + m + 4].name = nameTable.at[".shstrtab"]
      /\ made[n + m + 4].kind = "strings"
  BY <1>1, <1>3
<1>10. ASSUME NEW i \in 1 .. n + m + 3
       PROVE  Header(made[1 + i]) /\ made[1 + i].data = names[i] /\ made[1 + i].name = nameTable.at[names[i]]
  <2>1. CASE i <= n
    <3>1. i \in 1 .. n
      BY <1>1, <2>1
    <3> QED BY <1>6, <3>1
  <2>2. CASE i > n /\ i <= n + m
    <3>1. PICK k \in 1 .. m : i = n + k
      <4>1. i - n \in 1 .. m /\ i = n + (i - n)
        BY <1>1, <2>2
      <4> QED BY <4>1
    <3>2. 1 + i = 1 + n + k
      BY <1>1, <3>1
    <3> QED BY <1>7, <3>1, <3>2
  <2>3. CASE i = n + m + 1
    <3>1. 1 + i = n + m + 2
      BY <1>1, <2>3
    <3> QED BY <1>2, <1>8, <2>3, <3>1
  <2>4. CASE i = n + m + 2
    <3>1. 1 + i = n + m + 3
      BY <1>1, <2>4
    <3> QED BY <1>1, <1>2, <1>4, <2>4, <3>1
  <2>5. CASE i = n + m + 3
    <3>1. 1 + i = n + m + 4
      BY <1>1, <2>5
    <3> QED BY <1>2, <1>9, <2>5, <3>1
  <2> QED BY <1>1, <2>1, <2>2, <2>3, <2>4, <2>5
<1>11. ASSUME NEW i \in 1 .. n + m + 4 PROVE Header(made[i])
  <2>1. CASE i = 1
    BY <1>1, <1>5, <2>1
  <2>2. CASE i # 1
    <3>1. i - 1 \in 1 .. n + m + 3 /\ 1 + (i - 1) = i
      BY <1>1, <2>2
    <3> QED BY <1>10, <3>1
  <2> QED BY <2>1, <2>2
<1>12. made[1].kind = "null" /\ made[1].data = "" /\ made[n + m + 3].kind = "symbols" /\ made[n + m + 3].link = n + m + 1
  BY <1>1, <1>4, <1>5
<1> QED BY <1>6, <1>7, <1>8, <1>9, <1>10, <1>11, <1>12 DEF n, m, made, names
-----------------------------------------------------------------------------
FirstNames == AddString(EmptyTable, ".shstrtab")
NamesTable(c) == AddStrings(FirstNames, ContentsOf(c, JobOf(c)) \o <<".strtab", ".symtab">>)

NullSymbol == [name |-> 0, value |-> 0, local |-> TRUE, index |-> 0]
Texts == (IF Given(job.rdb) THEN <<"$t">> ELSE <<>>) \o Mapped(LocalSymbols \o GlobalSymbols, LAMBDA x : x.text)
MadeSymbols ==
  <<NullSymbol>> \o Mapped(LocalSymbols \o GlobalSymbols, LAMBDA x :
                      [name |-> stringTable.at[x.text], value |-> x.value, local |-> x.local, index |-> x.index])

MadePieces ==
  <<Piece("header", HeadSize)>>
  \o (IF MadeSegments # <<>> THEN <<Piece("segments", SegmentSize * Len(MadeSegments))>> ELSE <<>>)
  \o Mapped(Keep(MadeSections, LAMBDA s : s.kind = "bits"), LAMBDA s : Piece(s.data, s.size))
  \o <<Piece(".shstrtab", Written(nameTable)), Piece(".strtab", Written(stringTable)),
       Piece(".symtab", SymbolSize * Len(symbols)), Piece("sections", SectionSize * Len(MadeSections))>>

CorrectedSegments ==
  [i \in DOMAIN MadeSegments |->
     IF Loaded[i].kind = "bits" THEN [MadeSegments[i] EXCEPT !.offset = PieceOf(Loaded[i].name).at] ELSE MadeSegments[i]]

CorrectedHeader ==
  [shnum |-> Len(MadeSections), phnum |-> Len(MadeSegments), shoff |-> PieceOf("sections").at,
   phoff |-> IF MadeSegments # <<>> THEN PieceOf("segments").at ELSE 0, shstrndx |-> Len(MadeSections) - 1]

\* How far the file is at each step
FileInv ==
  /\ command \in Commands
  /\ step \in {"main", "headers", "sections", "symbols", "write", "fix up", "done", "exit"}
  /\ step \notin {"main", "exit"} => Taken
  /\ step \in {"main", "headers"} => nameTable = FirstNames
  /\ step \in {"main", "headers", "sections"} => sections = <<NullSection>>
  /\ step \in {"main", "headers", "sections", "symbols"} =>
       stringTable = EmptyTable /\ symbols = <<NullSymbol>> /\ locals = 1
  /\ step \in {"sections", "symbols", "write", "fix up", "done"} => nameTable = NamesTable(command)
  /\ step \in {"symbols", "write", "fix up"} => sections = MadeSections /\ segments = MadeSegments
  /\ step \in {"write", "fix up", "done"} =>
       stringTable = AddStrings(EmptyTable, Texts) /\ symbols = MadeSymbols /\ locals = 1 + Len(LocalSymbols)
  /\ step \in {"fix up", "done"} => file = Laid(MadePieces)
  /\ step = "done" =>
       /\ sections = Mapped(MadeSections, Corrected)
       /\ segments = CorrectedSegments /\ header = CorrectedHeader

\* What is corrected of a section
Corrects(s, t) ==
  /\ t.data = s.data /\ t.name = s.name /\ t.kind = s.kind /\ t.addr = s.addr /\ t.link = s.link
  /\ s.kind = "bits" => t.offset = PieceOf(s.data).at /\ t.size = s.size
  /\ s.kind \in {"strings", "symbols"} => t.offset = PieceOf(s.data).at /\ t.size = PieceOf(s.data).size
  /\ s.kind = "symbols" => t.info = locals
  /\ s.kind \notin {"bits", "strings", "symbols"} => t = s

LEMMA CorrectedIs ==
  ASSUME NEW s, Header(s)
  PROVE  Corrects(s, Corrected(s))
<1>1. PICK p : p = PieceOf(s.data)
  OBVIOUS
<1>2. s = [name |-> s.name, kind |-> s.kind, addr |-> s.addr, offset |-> s.offset, size |-> s.size,
           link |-> s.link, info |-> s.info, data |-> s.data]
  BY DEF Header
<1> DEFINE t == Corrected(s)
<1>3. CASE s.kind = "bits"
  <2>1. t = [s EXCEPT !.offset = p.at]
    BY <1>1, <1>3 DEF Corrected
  <2> HIDE DEF t, Corrects
  <2>2. t = [name |-> s.name, kind |-> s.kind, addr |-> s.addr, offset |-> p.at, size |-> s.size,
             link |-> s.link, info |-> s.info, data |-> s.data]
    BY <1>2, <2>1
  <2>3. t.data = s.data /\ t.name = s.name /\ t.kind = s.kind /\ t.addr = s.addr /\ t.link = s.link
        /\ t.offset = p.at /\ t.size = s.size
    BY ONLY <2>2
  <2> QED BY <1>1, <1>3, <2>3 DEF t, Corrects
<1>4. CASE s.kind = "strings"
  <2>1. t = [s EXCEPT !.offset = p.at, !.size = p.size]
    BY <1>1, <1>4 DEF Corrected
  <2> HIDE DEF t, Corrects
  <2>2. t = [name |-> s.name, kind |-> s.kind, addr |-> s.addr, offset |-> p.at, size |-> p.size,
             link |-> s.link, info |-> s.info, data |-> s.data]
    BY <1>2, <2>1
  <2>3. t.data = s.data /\ t.name = s.name /\ t.kind = s.kind /\ t.addr = s.addr /\ t.link = s.link
        /\ t.offset = p.at /\ t.size = p.size
    BY ONLY <2>2
  <2> QED BY <1>1, <1>4, <2>3 DEF t, Corrects
<1>5. CASE s.kind = "symbols"
  <2>1. t = [s EXCEPT !.offset = p.at, !.size = p.size, !.info = locals]
    BY <1>1, <1>5 DEF Corrected
  <2> HIDE DEF t, Corrects
  <2>2. t = [name |-> s.name, kind |-> s.kind, addr |-> s.addr, offset |-> p.at, size |-> p.size,
             link |-> s.link, info |-> locals, data |-> s.data]
    BY <1>2, <2>1
  <2>3. t.data = s.data /\ t.name = s.name /\ t.kind = s.kind /\ t.addr = s.addr /\ t.link = s.link
        /\ t.offset = p.at /\ t.size = p.size /\ t.info = locals
    BY ONLY <2>2
  <2> QED BY <1>1, <1>5, <2>3 DEF t, Corrects
<1>6. CASE s.kind \notin {"bits", "strings", "symbols"}
  <2>1. t = s
    BY <1>6 DEF Corrected
  <2> QED BY <1>6, <2>1 DEF Corrects
<1> QED BY <1>3, <1>4, <1>5, <1>6

\* Symbols depend on the data of the sections only
LEMMA SameSymbols ==
  ASSUME UNCHANGED <<command, job>>, DOMAIN sections' = DOMAIN sections,
         \A i \in DOMAIN sections : sections'[i].data = sections[i].data
  PROVE  LocalSymbols' = LocalSymbols /\ GlobalSymbols' = GlobalSymbols
<1>1. CodeIndex' = CodeIndex
  BY DEF CodeIndex
<1>2. {i \in DOMAIN sections' : sections'[i].data = ".bss"} = {i \in DOMAIN sections : sections[i].data = ".bss"}
  OBVIOUS
<1>3. VarIndex' = VarIndex
  BY <1>2 DEF VarIndex
<1>4. LocalSymbols' = LocalSymbols
  BY <1>1 DEF LocalSymbols, Mapped
<1>5. GlobalSymbols' = GlobalSymbols
  BY <1>1, <1>3 DEF GlobalSymbols, Mapped, Prefixed, SymtabName
<1> QED BY <1>4, <1>5
-----------------------------------------------------------------------------
LEMMA SameSections ==
  ASSUME UNCHANGED <<command, job, nameTable>>
  PROVE  MadeSections' = MadeSections /\ MadeSegments' = MadeSegments
<1>1. Loaded' = Loaded /\ Debug' = Debug
  BY DEF Loaded, Debug
<1>2. SectionsBefore' = SectionsBefore
  BY <1>1 DEF SectionsBefore, Mapped, SectionHeader, NullSection
<1>3. SymtabHeader' = SymtabHeader
  BY <1>2 DEF SymtabHeader, SectionHeader
<1>4. MadeSections' = MadeSections
  BY <1>2, <1>3 DEF MadeSections, SectionHeader
<1> QED BY <1>1, <1>4 DEF MadeSegments, Mapped

LEMMA InitFile == FileInit => FileInv
<1> SUFFICES ASSUME FileInit PROVE FileInv
  OBVIOUS
<1> QED BY DEF FileInit, FileInv, FirstNames, NullSection, NullSymbol

LEMMA MainKeepsFile == FileInv /\ Main => FileInv'
<1> SUFFICES ASSUME FileInv, Main PROVE FileInv'
  OBVIOUS
<1>1. /\ step = "main" /\ command \in Commands /\ UNCHANGED <<command, tables, file, header>>
      /\ nameTable = FirstNames /\ sections = <<NullSection>> /\ stringTable = EmptyTable
      /\ symbols = <<NullSymbol>> /\ locals = 1
  BY DEF FileInv, Main
<1>2. /\ command' \in Commands /\ nameTable' = FirstNames' /\ sections' = <<NullSection'>> /\ stringTable' = EmptyTable'
      /\ symbols' = <<NullSymbol'>> /\ locals' = 1
  BY <1>1 DEF tables, FirstNames, NullSection, NullSymbol, EmptyTable
<1>3. CASE step' = "exit"
  BY <1>2, <1>3 DEF FileInv
<1>4. CASE step' = "headers"
  <2>1. Taken'
    BY <1>1, <1>4 DEF Main, Taken, Refused, JobOf
  <2> QED BY <1>2, <1>4, <2>1 DEF FileInv
<1> QED BY <1>3, <1>4 DEF Main

LEMMA NamesKeepFile == FileInv /\ NameSections => FileInv'
<1> SUFFICES ASSUME FileInv, NameSections PROVE FileInv'
  OBVIOUS
<1>1. /\ step = "headers" /\ step' = "sections"
      /\ nameTable' = AddStrings(nameTable, Contents \o <<".strtab", ".symtab">>)
      /\ UNCHANGED <<command, job, sections, segments, stringTable, symbols, locals, file, header>>
  BY DEF NameSections
<1>2. Taken /\ nameTable = FirstNames /\ sections = <<NullSection>> /\ stringTable = EmptyTable
      /\ symbols = <<NullSymbol>> /\ locals = 1
  BY <1>1 DEF FileInv
<1>3. Taken' /\ command' \in Commands
  BY <1>1, <1>2 DEF Taken
<1>4. nameTable' = NamesTable(command)'
  <2>1. Contents = ContentsOf(command, JobOf(command))
    BY <1>2 DEF Contents, Taken
  <2>2. nameTable' = NamesTable(command)
    BY <1>1, <1>2, <2>1 DEF NamesTable
  <2> QED BY <1>1, <2>2
<1>5. sections' = <<NullSection>>' /\ stringTable' = EmptyTable' /\ symbols' = <<NullSymbol>>' /\ locals' = 1
  BY <1>1, <1>2
<1> QED BY <1>1, <1>3, <1>4, <1>5 DEF FileInv

LEMMA SectionsKeepFile == FileInv /\ AddSections => FileInv'
<1> SUFFICES ASSUME FileInv, AddSections PROVE FileInv'
  OBVIOUS
<1>1. /\ step = "sections" /\ step' = "symbols"
      /\ UNCHANGED <<command, job, nameTable, stringTable, symbols, locals, file, header>>
  BY DEF AddSections
<1>2. Taken /\ nameTable = NamesTable(command) /\ sections = <<NullSection>> /\ stringTable = EmptyTable
      /\ symbols = <<NullSymbol>> /\ locals = 1
  BY <1>1 DEF FileInv
<1>3. Taken' /\ command' \in Commands /\ nameTable' = NamesTable(command)'
  BY <1>1, <1>2 DEF Taken
<1>4. sections' = MadeSections
  BY <1>2 DEF AddSections, MadeSections, SectionsBefore, SymtabHeader
<1>5. segments' = MadeSegments
  BY DEF AddSections, MadeSegments
<1>6. sections' = MadeSections' /\ segments' = MadeSegments'
  BY <1>1, <1>4, <1>5, SameSections
<1>7. stringTable' = EmptyTable' /\ symbols' = <<NullSymbol>>' /\ locals' = 1
  BY <1>1, <1>2
<1> QED BY <1>1, <1>3, <1>6, <1>7 DEF FileInv

LEMMA SymbolsKeepFile == FileInv /\ AddSymbols => FileInv'
<1> SUFFICES ASSUME FileInv, AddSymbols PROVE FileInv'
  OBVIOUS
<1>1. /\ step = "symbols" /\ step' = "write"
      /\ UNCHANGED <<command, job, sections, segments, nameTable, file, header>>
  BY DEF AddSymbols
<1>2. Taken /\ nameTable = NamesTable(command) /\ sections = MadeSections /\ segments = MadeSegments
      /\ stringTable = EmptyTable /\ symbols = <<NullSymbol>> /\ locals = 1
  BY <1>1 DEF FileInv
<1>3. Taken' /\ command' \in Commands /\ nameTable' = NamesTable(command)'
  BY <1>1, <1>2 DEF Taken
<1>4. sections' = MadeSections' /\ segments' = MadeSegments'
  BY <1>1, <1>2, SameSections
<1>5. LocalSymbols' = LocalSymbols /\ GlobalSymbols' = GlobalSymbols
  BY <1>1, SameSymbols
<1>6. Texts' = Texts
  BY <1>1, <1>5 DEF Texts, Mapped
<1>7. stringTable' = AddStrings(EmptyTable, Texts)
  BY <1>2 DEF AddSymbols, Texts
<1>8. stringTable' = AddStrings(EmptyTable, Texts)'
  BY <1>6, <1>7 DEF AddStrings, AddString, EmptyTable, Nul
<1>9. symbols' = <<NullSymbol>> \o Mapped(LocalSymbols \o GlobalSymbols, LAMBDA x :
                      [name |-> stringTable'.at[x.text], value |-> x.value, local |-> x.local, index |-> x.index])
  <2>1. PICK table : table = AddStrings(EmptyTable, Texts)
    OBVIOUS
  <2>2. symbols' = <<NullSymbol>> \o Mapped(LocalSymbols \o GlobalSymbols, LAMBDA x :
                      [name |-> table.at[x.text], value |-> x.value, local |-> x.local, index |-> x.index])
    <3>1. table = AddStrings(stringTable, Texts)
      BY <1>2, <2>1
    <3>2. symbols' = symbols \o Mapped(LocalSymbols \o GlobalSymbols, LAMBDA x :
            [name |-> AddStrings(stringTable, Texts).at[x.text], value |-> x.value, local |-> x.local, index |-> x.index])
      BY DEF AddSymbols, Texts
    <3> QED BY <1>2, <3>1, <3>2 DEF Mapped
  <2>3. stringTable' = table
    BY <1>7, <2>1
  <2> QED BY <2>2, <2>3 DEF Mapped
<1>10. symbols' = MadeSymbols'
  BY <1>5, <1>9 DEF MadeSymbols, Mapped, NullSymbol
<1>11. locals' = 1 + Len(LocalSymbols')
  BY <1>2, <1>5 DEF AddSymbols
<1> QED BY <1>1, <1>3, <1>4, <1>8, <1>10, <1>11 DEF FileInv

LEMMA WriteKeepsFile == FileInv /\ WriteFile => FileInv'
<1> SUFFICES ASSUME FileInv, WriteFile PROVE FileInv'
  OBVIOUS
<1>1. /\ step = "write" /\ step' = "fix up" /\ UNCHANGED <<command, job, tables, header>>
      /\ UNCHANGED <<command, job, sections, segments, nameTable, stringTable, symbols, locals, header>>
  BY DEF WriteFile, tables
<1>2. Taken /\ nameTable = NamesTable(command) /\ sections = MadeSections /\ segments = MadeSegments
      /\ stringTable = AddStrings(EmptyTable, Texts) /\ symbols = MadeSymbols /\ locals = 1 + Len(LocalSymbols)
  BY <1>1 DEF FileInv
<1>3. Taken' /\ command' \in Commands /\ nameTable' = NamesTable(command)'
  BY <1>1, <1>2 DEF Taken
<1>4. MadeSections' = MadeSections /\ MadeSegments' = MadeSegments
  BY <1>1, SameSections
<1>5. LocalSymbols' = LocalSymbols /\ GlobalSymbols' = GlobalSymbols
  BY <1>1, SameSymbols
<1>6. Texts' = Texts /\ MadeSymbols' = MadeSymbols
  BY <1>1, <1>5 DEF Texts, Mapped, MadeSymbols, NullSymbol
<1>7. stringTable' = AddStrings(EmptyTable, Texts)'
  BY <1>1, <1>2, <1>6
<1>8. file' = Laid(MadePieces)
  BY <1>2 DEF WriteFile, Laid, MadePieces, HasSegments
<1>9. MadePieces' = MadePieces
  BY <1>1, <1>4 DEF MadePieces, Mapped, Keep, Written, StringSizes
<1>10. file' = Laid(MadePieces)'
  BY <1>8, <1>9
<1> QED BY <1>1, <1>2, <1>3, <1>4, <1>5, <1>6, <1>7, <1>10 DEF FileInv

LEMMA FixUpKeepsFile == FileInv /\ FixUp => FileInv'
<1> SUFFICES ASSUME FileInv, FixUp PROVE FileInv'
  OBVIOUS
<1>1. /\ step = "fix up" /\ step' = "done"
      /\ UNCHANGED <<command, job, nameTable, stringTable, symbols, locals, file>>
  BY DEF FixUp
<1>2. Taken /\ nameTable = NamesTable(command) /\ sections = MadeSections /\ segments = MadeSegments
      /\ stringTable = AddStrings(EmptyTable, Texts) /\ symbols = MadeSymbols /\ locals = 1 + Len(LocalSymbols)
      /\ file = Laid(MadePieces)
  BY <1>1 DEF FileInv
<1>3. Taken' /\ command' \in Commands /\ nameTable' = NamesTable(command)'
  BY <1>1, <1>2 DEF Taken
<1>4. MadeSections' = MadeSections /\ MadeSegments' = MadeSegments /\ Loaded' = Loaded
  BY <1>1, SameSections DEF Loaded
<1>5. sections' = Mapped(sections, Corrected)
  BY DEF FixUp
<1>6. DOMAIN sections' = DOMAIN sections /\ \A i \in DOMAIN sections : sections'[i].data = sections[i].data
  <2>1. DOMAIN sections' = DOMAIN sections /\ \A i \in DOMAIN sections : sections'[i] = Corrected(sections[i])
    BY <1>5 DEF Mapped
  <2>2. \A i \in DOMAIN sections : Header(sections[i])
    <3>1. /\ \A i \in 1 .. Len(Loaded) + Len(Debug) + 4 : Header(sections[i])
          /\ Sequence(sections) /\ Len(sections) = Len(Loaded) + Len(Debug) + 4
      BY <1>2, EachSection, SectionsAre
    <3> QED BY <3>1, OfSequence
  <2>3. \A i \in DOMAIN sections : Corrects(sections[i], Corrected(sections[i]))
    BY <2>2, CorrectedIs
  <2>4. \A s, t : Corrects(s, t) => t.data = s.data
    BY DEF Corrects
  <2> QED BY <2>1, <2>3, <2>4
<1>7. LocalSymbols' = LocalSymbols /\ GlobalSymbols' = GlobalSymbols
  BY <1>1, <1>6, SameSymbols
<1>8. Texts' = Texts /\ MadeSymbols' = MadeSymbols
  BY <1>1, <1>7 DEF Texts, Mapped, MadeSymbols, NullSymbol
<1>9. stringTable' = AddStrings(EmptyTable, Texts)'
  BY <1>1, <1>2, <1>8
<1>10. MadePieces' = MadePieces
  BY <1>1, <1>4 DEF MadePieces, Mapped, Keep, Written, StringSizes
<1>11. file' = Laid(MadePieces)'
  BY <1>1, <1>2, <1>10
<1>12. \A d : PieceOf(d)' = PieceOf(d)
  BY <1>1 DEF PieceOf, SelectInSeq
<1>13. sections' = Mapped(MadeSections, Corrected)'
  <2>1. \A s : Corrected(s)' = Corrected(s)
    BY <1>1, <1>12 DEF Corrected
  <2> QED BY <1>2, <1>4, <1>5, <2>1 DEF Mapped
<1>14. segments' = CorrectedSegments'
  BY <1>2, <1>4, <1>12 DEF FixUp, CorrectedSegments
<1>15. header' = CorrectedHeader'
  <2>1. header' = [shnum |-> Len(MadeSections), phnum |-> Len(MadeSegments), shoff |-> PieceOf("sections").at,
                   phoff |-> IF MadeSegments # <<>> THEN PieceOf("segments").at ELSE 0,
                   shstrndx |-> Len(MadeSections) - 1]
    BY <1>2 DEF FixUp, HasSegments
  <2> QED BY <1>4, <1>12, <2>1 DEF CorrectedHeader
<1> QED BY <1>1, <1>2, <1>3, <1>7, <1>8, <1>9, <1>11, <1>13, <1>14, <1>15 DEF FileInv

LEMMA FileIsMade == FileSpec => []FileInv
<1>1. ASSUME FileInv, [FileNext]_fileVars PROVE FileInv'
  <2>1. CASE UNCHANGED fileVars
    <3>1. UNCHANGED <<step, command, job, sections, segments, nameTable, stringTable, symbols, locals, file, header>>
      BY <2>1 DEF fileVars, tables
    <3>2. Taken' = Taken /\ NamesTable(command)' = NamesTable(command)
      BY <3>1 DEF Taken
    <3>3. MadeSections' = MadeSections /\ MadeSegments' = MadeSegments /\ Loaded' = Loaded
      BY <3>1, SameSections DEF Loaded
    <3>4. LocalSymbols' = LocalSymbols /\ GlobalSymbols' = GlobalSymbols
      BY <3>1, SameSymbols
    <3>5. Texts' = Texts /\ MadeSymbols' = MadeSymbols
      BY <3>1, <3>4 DEF Texts, Mapped, MadeSymbols
    <3>6. MadePieces' = MadePieces
      BY <3>1, <3>3 DEF MadePieces, Mapped, Keep, Written, StringSizes
    <3>7. \A d : PieceOf(d)' = PieceOf(d)
      BY <3>1 DEF PieceOf, SelectInSeq
    <3>8. \A s : Corrected(s)' = Corrected(s)
      BY <3>1, <3>7 DEF Corrected
    <3>9. Mapped(MadeSections, Corrected)' = Mapped(MadeSections, Corrected)
      BY <3>3, <3>8 DEF Mapped
    <3>10. CorrectedSegments' = CorrectedSegments /\ CorrectedHeader' = CorrectedHeader
      BY <3>3, <3>7 DEF CorrectedSegments, CorrectedHeader
    <3> QED BY <1>1, <3>1, <3>2, <3>3, <3>4, <3>5, <3>6, <3>9, <3>10 DEF FileInv
  <2> QED BY <1>1, <2>1, MainKeepsFile, NamesKeepFile, SectionsKeepFile, SymbolsKeepFile, WriteKeepsFile,
             FixUpKeepsFile DEF FileNext
<1> QED BY <1>1, InitFile, PTL DEF FileSpec
-----------------------------------------------------------------------------
(* The symbols, as sets of what they say.                                  *)

ListedProcs == IF Given(job.rdb) THEN job.rdb[1].procs ELSE <<>>
ListedVars == IF Given(job.rdb) THEN job.rdb[1].vars ELSE <<>>

LocalSet == {Symbol("$t", p.addr, 0, TRUE, CodeIndex) : p \in Range(ListedProcs)}
MainSet ==
  IF command.main /\ job.entry # 0
  THEN {Symbol(Prefixed(command, n), Thumb(job.entry), 0, FALSE, CodeIndex) : n \in {"main", "startup"}} ELSE {}
ProcSet == {Symbol(SymtabName(command, p.name), Thumb(p.addr), p.size, FALSE, CodeIndex) : p \in Range(ListedProcs)}
VarSet == {Symbol(SymtabName(command, v.name), v.addr, v.size, FALSE, VarIndex) : v \in Range(ListedVars)}

LEMMA ListingIs ==
  ASSUME Taken
  PROVE  /\ ListedProcs \in Seq(Places) /\ ListedVars \in Seq(Places)
         /\ Given(job.rdb) => job.rdb[1] \in Range(command.rdb) /\ job.rdb[1] \in Range(job.rdb)
<1>1. job.rdb \in Seq(Listings) /\ (Given(job.rdb) => job.rdb = command.rdb)
  BY JobIs DEF Taken
<1>2. CASE Given(job.rdb)
  <2>1. job.rdb[1] \in Listings /\ job.rdb[1] \in Range(job.rdb)
    BY <1>1, <1>2 DEF Given, Range
  <2>2. job.rdb[1].procs \in Seq(Places) /\ job.rdb[1].vars \in Seq(Places)
    BY <2>1 DEF Listings
  <2> QED BY <1>1, <1>2, <2>1, <2>2 DEF ListedProcs, ListedVars
<1>3. CASE ~Given(job.rdb)
  BY <1>3 DEF ListedProcs, ListedVars
<1> QED BY <1>2, <1>3

LEMMA SymbolsAre ==
  ASSUME Taken
  PROVE  /\ Sequence(LocalSymbols) /\ Sequence(GlobalSymbols)
         /\ Range(LocalSymbols) = LocalSet
         /\ Range(GlobalSymbols) = MainSet \cup ProcSet \cup VarSet
<1> DEFINE L(p) == Symbol("$t", p.addr, 0, TRUE, CodeIndex)
           M(n) == Symbol(Prefixed(command, n), Thumb(job.entry), 0, FALSE, CodeIndex)
           P(p) == Symbol(SymtabName(command, p.name), Thumb(p.addr), p.size, FALSE, CodeIndex)
           V(v) == Symbol(SymtabName(command, v.name), v.addr, v.size, FALSE, VarIndex)
<1>1. Sequence(ListedProcs) /\ Sequence(ListedVars)
  BY ListingIs, SequenceOf
<1>2. /\ Len(ListedProcs) \in Nat /\ DOMAIN ListedProcs = 1 .. Len(ListedProcs) /\ Len(ListedVars) \in Nat /\ DOMAIN ListedVars = 1 .. Len(ListedVars)
  BY <1>1, OfSequence
<1>3. PICK ls : ls = Mapped(ListedProcs, LAMBDA p : L(p))
  OBVIOUS
<1>4. PICK ps : ps = Mapped(ListedProcs, LAMBDA p : P(p))
  OBVIOUS
<1>5. PICK vs : vs = Mapped(ListedVars, LAMBDA v : V(v))
  OBVIOUS
<1>6. PICK ms : ms = IF command.main /\ job.entry # 0 THEN Mapped(<<"main", "startup">>, LAMBDA n : M(n)) ELSE <<>>
  OBVIOUS
<1>7. LocalSymbols = ls
  <2>1. CASE Given(job.rdb)
    BY <1>3, <2>1 DEF LocalSymbols, ListedProcs
  <2>2. CASE ~Given(job.rdb)
    BY <1>3, <2>2 DEF LocalSymbols, ListedProcs, Mapped
  <2> QED BY <2>1, <2>2
<1>8. GlobalSymbols = ms \o (IF ~Given(job.rdb) THEN <<>> ELSE ps \o vs)
  BY <1>4, <1>5, <1>6 DEF GlobalSymbols, ListedProcs, ListedVars
<1> HIDE DEF L, M, P, V
<1>9. Sequence(ls) /\ Range(ls) = {L(p) : p \in Range(ListedProcs)}
  <2>1. DOMAIN ls = 1 .. Len(ListedProcs) /\ ls = [i \in DOMAIN ls |-> ls[i]] /\ \A i \in 1 .. Len(ListedProcs) : ls[i] = L(ListedProcs[i])
    BY <1>2, <1>3 DEF Mapped
  <2>2. Sequence(ls)
    BY <1>2, <2>1, AnySequence
  <2>3. Range(ls) = {L(p) : p \in Range(ListedProcs)}
    BY <1>2, <2>1 DEF Range
  <2> QED BY <2>2, <2>3
<1>10. Sequence(ps) /\ Range(ps) = {P(p) : p \in Range(ListedProcs)}
  <2>1. DOMAIN ps = 1 .. Len(ListedProcs) /\ ps = [i \in DOMAIN ps |-> ps[i]] /\ \A i \in 1 .. Len(ListedProcs) : ps[i] = P(ListedProcs[i])
    BY <1>2, <1>4 DEF Mapped
  <2>2. Sequence(ps)
    BY <1>2, <2>1, AnySequence
  <2>3. Range(ps) = {P(p) : p \in Range(ListedProcs)}
    BY <1>2, <2>1 DEF Range
  <2> QED BY <2>2, <2>3
<1>11. Sequence(vs) /\ Range(vs) = {V(v) : v \in Range(ListedVars)}
  <2>1. DOMAIN vs = 1 .. Len(ListedVars) /\ vs = [i \in DOMAIN vs |-> vs[i]] /\ \A i \in 1 .. Len(ListedVars) : vs[i] = V(ListedVars[i])
    BY <1>2, <1>5 DEF Mapped
  <2>2. Sequence(vs)
    BY <1>2, <2>1, AnySequence
  <2>3. Range(vs) = {V(v) : v \in Range(ListedVars)}
    BY <1>2, <2>1 DEF Range
  <2> QED BY <2>2, <2>3
<1>12. Sequence(ms) /\ Range(ms) = IF command.main /\ job.entry # 0 THEN {M(n) : n \in {"main", "startup"}} ELSE {}
  <2>1. CASE command.main /\ job.entry # 0
    <3>1. DOMAIN ms = {1, 2} /\ DOMAIN ms = 1 .. 2 /\ ms = [i \in DOMAIN ms |-> ms[i]] /\ ms[1] = M("main") /\ ms[2] = M("startup")
      BY <1>6, <2>1 DEF Mapped
    <3>2. Sequence(ms)
      BY <3>1, AnySequence
    <3>3. Range(ms) = {M(n) : n \in {"main", "startup"}}
      BY <3>1 DEF Range
    <3> QED BY <2>1, <3>2, <3>3
  <2>2. CASE ~(command.main /\ job.entry # 0)
    BY <1>6, <2>2, Nothing
  <2> QED BY <2>1, <2>2
<1>13. PICK qs : qs = IF ~Given(job.rdb) THEN <<>> ELSE ps \o vs
  OBVIOUS
<1>14. Sequence(qs) /\ Range(qs) = Range(ps) \cup Range(vs)
  <2>1. CASE Given(job.rdb)
    <3>1. Sequence(ps) /\ Sequence(vs)
      BY <1>10, <1>11
    <3>2. Sequence(ps \o vs) /\ Range(ps \o vs) = Range(ps) \cup Range(vs)
      BY ONLY <3>1, JoinedAny
    <3> QED BY <1>13, <2>1, <3>2
  <2>2. CASE ~Given(job.rdb)
    <3>1. ListedProcs = <<>> /\ ListedVars = <<>>
      BY <2>2 DEF ListedProcs, ListedVars
    <3>2. Range(ps) = {} /\ Range(vs) = {}
      BY <1>10, <1>11, <3>1, Nothing
    <3> QED BY <1>13, <2>2, <3>2, Nothing
  <2> QED BY <2>1, <2>2
<1>15. Sequence(GlobalSymbols) /\ Range(GlobalSymbols) = Range(ms) \cup Range(qs)
  <2>1. Sequence(ms) /\ Sequence(qs)
    BY <1>12, <1>14
  <2>2. Sequence(ms \o qs) /\ Range(ms \o qs) = Range(ms) \cup Range(qs)
    BY ONLY <2>1, JoinedAny
  <2> QED BY <1>8, <1>13, <2>2
<1>16. Range(ls) = LocalSet
  BY <1>9 DEF LocalSet, L
<1>17. Range(ms) = MainSet
  BY <1>12 DEF MainSet, M
<1>18. Range(ps) = ProcSet /\ Range(vs) = VarSet
  BY <1>10, <1>11 DEF ProcSet, VarSet, P, V
<1> QED BY <1>7, <1>9, <1>14, <1>15, <1>16, <1>17, <1>18
-----------------------------------------------------------------------------
NameTexts == FixedTexts \cup Range(NamesOf(command))
SymbolTexts == FixedTexts \cup {x.text : x \in Range(LocalSymbols) \cup Range(GlobalSymbols)}

LEMMA NamesTableIs ==
  ASSUME Taken, nameTable = NamesTable(command)
  PROVE  /\ Counted(NameTexts) /\ TableOk(nameTable, NameTexts)
         /\ Range(NamesOf(command)) \subseteq DOMAIN nameTable.at
<1> DEFINE names == NamesOf(command)
           conts == ContentsOf(command, JobOf(command))
           two == <<".strtab", ".symtab">>
           all == conts \o two
<1>1. /\ Sequence(names) /\ Sequence(conts) /\ Range(conts) \subseteq Range(names)
      /\ Range(names) \subseteq Range(conts) \cup {".strtab", ".symtab", ".shstrtab"}
  BY NamesAre DEF Taken
<1>2. Counted(NameTexts)
  <2>1. \A s \in FixedTexts : Len(s) \in Nat
    BY CommandsAssumption
  <2>2. \A i \in DOMAIN names : Len(names[i]) \in Nat
    BY CommandsAssumption DEF Taken, WellNamed
  <2> HIDE DEF names
  <2>3. \A s \in Range(names) : Len(s) \in Nat
    BY <2>2 DEF Range
  <2> QED BY <2>1, <2>3 DEF Counted, NameTexts, names
<1> HIDE DEF names, conts
<1>3. Sequence(two) /\ Range(two) = {".strtab", ".symtab"}
  <2>1. two \in Seq({".strtab", ".symtab"}) /\ DOMAIN two = {1, 2} /\ two[1] = ".strtab" /\ two[2] = ".symtab"
    OBVIOUS
  <2> HIDE DEF two
  <2> QED BY <2>1, SequenceOf DEF Range
<1> HIDE DEF two
<1>4. Sequence(all) /\ Range(all) = Range(conts) \cup {".strtab", ".symtab"}
  <2>1. Sequence(conts) /\ Sequence(two)
    BY <1>1, <1>3
  <2>2. Sequence(all) /\ Range(all) = Range(conts) \cup Range(two)
    BY ONLY <2>1, JoinedAny DEF all
  <2> QED BY <1>3, <2>2
<1> HIDE DEF all
<1>5. all \in Seq(NameTexts)
  <2>1. Range(all) \subseteq NameTexts
    BY <1>1, <1>4 DEF NameTexts, FixedTexts, names
  <2>2. all \in Seq(Range(all))
    BY <1>4 DEF Sequence
  <2> QED BY <2>1, <2>2
<1>6. Nul \in NameTexts /\ ".shstrtab" \in NameTexts
  BY DEF NameTexts, FixedTexts
<1>7. TableOk(EmptyTable, NameTexts)
  BY <1>2, <1>6, FirstTable
<1>8. TableOk(FirstNames, NameTexts) /\ ".shstrtab" \in DOMAIN FirstNames.at
  BY <1>2, <1>6, <1>7, StringAdded DEF FirstNames
<1>9. nameTable = AddStrings(FirstNames, all)
  BY DEF NamesTable, all, conts, two
<1>10. TableOk(nameTable, NameTexts) /\ DOMAIN nameTable.at = DOMAIN FirstNames.at \cup Range(all)
  BY <1>2, <1>5, <1>8, <1>9, StringsAdded
<1>11. Range(names) \subseteq DOMAIN nameTable.at
  BY <1>1, <1>4, <1>8, <1>10
<1> QED BY <1>2, <1>10, <1>11 DEF names

LEMMA StringTableIs ==
  ASSUME Taken, stringTable = AddStrings(EmptyTable, Texts)
  PROVE  /\ Counted(SymbolTexts) /\ TableOk(stringTable, SymbolTexts)
         /\ \A x \in Range(LocalSymbols) \cup Range(GlobalSymbols) : x.text \in DOMAIN stringTable.at
         /\ Nul \in DOMAIN stringTable.at
<1> DEFINE all == LocalSymbols \o GlobalSymbols
           texts == Mapped(all, LAMBDA x : x.text)
           first == IF Given(job.rdb) THEN <<"$t">> ELSE <<>>
<1>1. /\ Sequence(LocalSymbols) /\ Sequence(GlobalSymbols)
      /\ Range(LocalSymbols) = LocalSet /\ Range(GlobalSymbols) = MainSet \cup ProcSet \cup VarSet
  BY SymbolsAre
<1>2. Sequence(all) /\ Range(all) = Range(LocalSymbols) \cup Range(GlobalSymbols)
  <2>1. Sequence(LocalSymbols) /\ Sequence(GlobalSymbols)
    BY <1>1
  <2> QED BY ONLY <2>1, JoinedAny DEF all
<1>3. /\ \A s \in FixedTexts : Len(s) \in Nat /\ WellNamed(command)
  BY CommandsAssumption DEF Taken
<1>4. Counted(SymbolTexts)
  <2>1. \A x \in LocalSet : x.text \in FixedTexts
    BY DEF LocalSet, Symbol, FixedTexts
  <2>2. \A x \in MainSet : Len(x.text) \in Nat
    BY <1>3 DEF MainSet, Symbol, WellNamed
  <2>3. \A p \in Range(ListedProcs) \cup Range(ListedVars) : Len(SymtabName(command, p.name)) \in Nat
    <3>1. CASE Given(job.rdb)
      <4>1. job.rdb[1] \in Range(command.rdb)
        BY <3>1, ListingIs
      <4> QED BY <1>3, <3>1, <4>1 DEF WellNamed, ListedProcs, ListedVars
    <3>2. CASE ~Given(job.rdb)
      BY <3>2, Nothing DEF ListedProcs, ListedVars
    <3> QED BY <3>1, <3>2
  <2>4. \A x \in ProcSet \cup VarSet : Len(x.text) \in Nat
    BY <2>3 DEF ProcSet, VarSet, Symbol
  <2>5. \A s \in FixedTexts : Len(s) \in Nat
    BY CommandsAssumption
  <2> QED BY <1>1, <2>1, <2>2, <2>4, <2>5 DEF Counted, SymbolTexts
<1> HIDE DEF all
<1>5. Sequence(texts) /\ Range(texts) = {x.text : x \in Range(all)}
  <2>1. Len(all) \in Nat /\ DOMAIN all = 1 .. Len(all)
    BY <1>2, OfSequence
  <2>2. DOMAIN texts = 1 .. Len(all) /\ texts = [i \in DOMAIN texts |-> texts[i]] /\ \A i \in 1 .. Len(all) : texts[i] = all[i].text
    BY <2>1 DEF Mapped
  <2> HIDE DEF texts
  <2>3. Range(texts) = {x.text : x \in Range(all)}
    BY <2>1, <2>2 DEF Range
  <2> QED BY <2>1, <2>2, <2>3, AnySequence
<1> HIDE DEF texts
<1>6. Sequence(first) /\ Range(first) \subseteq {"$t"}
  BY Single, Nothing
<1> HIDE DEF first
<1>7. Sequence(Texts) /\ Range(Texts) = Range(first) \cup Range(texts)
  <2>1. Sequence(first) /\ Sequence(texts)
    BY <1>5, <1>6
  <2>2. Texts = first \o texts
    BY DEF Texts, first, texts, all
  <2> QED BY ONLY <2>1, <2>2, JoinedAny
<1>8. Texts \in Seq(SymbolTexts)
  <2>1. Range(Texts) \subseteq SymbolTexts
    BY <1>2, <1>5, <1>6, <1>7 DEF SymbolTexts, FixedTexts
  <2>2. Texts \in Seq(Range(Texts))
    BY <1>7 DEF Sequence
  <2> QED BY <2>1, <2>2
<1>9. TableOk(EmptyTable, SymbolTexts)
  <2>1. Nul \in SymbolTexts
    BY DEF SymbolTexts, FixedTexts
  <2> QED BY <1>4, <2>1, FirstTable
<1>10. TableOk(stringTable, SymbolTexts) /\ DOMAIN stringTable.at = DOMAIN EmptyTable.at \cup Range(Texts)
  BY <1>4, <1>8, <1>9, StringsAdded
<1>11. Nul \in DOMAIN EmptyTable.at
  <2>1. Nul \in SymbolTexts
    BY DEF SymbolTexts, FixedTexts
  <2> QED BY <1>4, <2>1, FirstTable
<1> QED BY <1>2, <1>4, <1>5, <1>7, <1>10, <1>11

\* The size of a table, which at least holds the empty string
LEMMA TableSize ==
  ASSUME NEW S, Counted(S), NEW t, TableOk(t, S), NEW s \in DOMAIN t.at
  PROVE  Written(t) \in Nat /\ Written(t) > 0
<1>1. /\ t.order \in Seq(S) /\ Len(t.order) \in Nat
      /\ StringSizes(t) \in Seq(Nat) /\ Len(StringSizes(t)) = Len(t.order)
      /\ \A k \in 1 .. Len(t.order) : StringSizes(t)[k] > 0
  <2>1. t.order \in Seq(S)
    BY DEF TableOk
  <2> QED BY <2>1, SizesAre
<1>2. PICK k \in 1 .. Len(t.order) : t.order[k] = s
  BY DEF TableOk
<1> DEFINE z == StringSizes(t)
           n == Len(t.order)
<1> HIDE DEF z, n
<1>3. n \in 1 .. Len(z) /\ n \in Nat /\ z[n] > 0 /\ z[n] \in Nat
  BY <1>1, <1>2 DEF z, n
<1>4. Ends(z)[n] = Ends(z)[n - 1] + z[n] /\ Ends(z)[n - 1] \in Nat
  <2>1. n - 1 \in 0 .. Len(z)
    BY <1>3
  <2>2. z \in Seq(Nat)
    BY <1>1 DEF z
  <2> QED BY <1>3, <2>1, <2>2, EndsStep
<1>5. Ends(z)[n] \in Nat /\ Ends(z)[n] > 0
  BY <1>3, <1>4
<1> QED BY <1>5 DEF Written, z, n
-----------------------------------------------------------------------------
LEMMA BitsAre ==
  ASSUME Taken, NEW s \in Range(MadeSections), s.kind = "bits"
  PROVE  \E i \in 1 .. Len(Loaded) + Len(Debug) :
           s = MadeSections[1 + i] /\ s.data = NamesOf(command)[i] /\ s.size \in Nat
<1> DEFINE n == Len(Loaded)
           m == Len(Debug)
           made == MadeSections
           names == NamesOf(command)
<1>1. n \in Nat /\ m \in Nat /\ Sequence(made) /\ Len(made) = n + m + 4
  BY SectionsAre
<1>2. /\ \A i \in 1 .. n + m + 3 : made[1 + i].data = names[i] /\ made[1 + i].name = nameTable.at[names[i]]
      /\ \A i \in 1 .. n : made[1 + i].size = Loaded[i].size
      /\ \A i \in 1 .. m : made[1 + n + i].size = Debug[i].size
      /\ made[1].kind = "null" /\ made[n + m + 2].kind = "strings" /\ made[n + m + 3].kind = "symbols"
      /\ made[n + m + 4].kind = "strings"
  BY EachSection
<1>3. /\ Sequence(Loaded) /\ \A x \in Range(Loaded) : x.size \in Nat
      /\ Sequence(Debug) /\ \A x \in Range(Debug) : x.size \in Nat
  BY LoadedSizes, DebugAre DEF Taken, Loaded, Debug
<1>4. (\A i \in 1 .. n : Loaded[i].size \in Nat) /\ (\A i \in 1 .. m : Debug[i].size \in Nat)
  <2>1. DOMAIN Loaded = 1 .. n /\ DOMAIN Debug = 1 .. m
    BY <1>3, OfSequence
  <2> QED BY <1>3, <2>1 DEF Range
<1> HIDE DEF n, m, made, names
<1>5. PICK q \in 1 .. n + m + 4 : made[q] = s
  <2>1. s \in Range(made)
    BY DEF made
  <2> QED BY <1>1, <2>1, OfSequence
<1>6. q # 1 /\ q # n + m + 2 /\ q # n + m + 3 /\ q # n + m + 4
  BY <1>2, <1>5
<1>7. PICK i \in 1 .. n + m : q = 1 + i
  <2>1. q - 1 \in 1 .. n + m /\ q = 1 + (q - 1)
    BY <1>1, <1>6
  <2> QED BY <2>1
<1>8. made[1 + i].data = names[i]
  <2>1. i \in 1 .. n + m + 3
    BY <1>1
  <2> QED BY <1>2, <2>1
<1>9. made[1 + i].size \in Nat
  <2>1. CASE i <= n
    <3>1. i \in 1 .. n
      BY <1>1, <2>1
    <3> QED BY <1>2, <1>4, <3>1
  <2>2. CASE i > n
    <3>1. i - n \in 1 .. m /\ 1 + n + (i - n) = 1 + i
      BY <1>1, <2>2
    <3> QED BY <1>2, <1>4, <3>1
  <2> QED BY <1>1, <2>1, <2>2
<1> QED BY <1>5, <1>7, <1>8, <1>9 DEF n, m, made, names

LEMMA PiecesAre ==
  ASSUME Taken
  PROVE  /\ Sequence(MadePieces)
         /\ Range(MadePieces) =
              {Piece("header", HeadSize)}
              \cup (IF MadeSegments # <<>> THEN {Piece("segments", SegmentSize * Len(MadeSegments))} ELSE {})
              \cup {Piece(s.data, s.size) : s \in {x \in Range(MadeSections) : x.kind = "bits"}}
              \cup {Piece(".shstrtab", Written(nameTable)), Piece(".strtab", Written(stringTable)),
                    Piece(".symtab", SymbolSize * Len(symbols)), Piece("sections", SectionSize * Len(MadeSections))}
<1> DEFINE a == <<Piece("header", HeadSize)>>
           b == IF MadeSegments # <<>> THEN <<Piece("segments", SegmentSize * Len(MadeSegments))>> ELSE <<>>
           K == {x \in Range(MadeSections) : x.kind = "bits"}
           kept == Keep(MadeSections, LAMBDA s : s.kind = "bits")
           d == Mapped(kept, LAMBDA s : Piece(s.data, s.size))
           f1 == Piece(".shstrtab", Written(nameTable))
           f2 == Piece(".strtab", Written(stringTable))
           f3 == Piece(".symtab", SymbolSize * Len(symbols))
           f4 == Piece("sections", SectionSize * Len(MadeSections))
           e == <<f1, f2, f3, f4>>
<1>1. Sequence(a) /\ Range(a) = {Piece("header", HeadSize)}
  BY Single
<1>2. Sequence(b) /\ Range(b) = IF MadeSegments # <<>> THEN {Piece("segments", SegmentSize * Len(MadeSegments))} ELSE {}
  BY Single, Nothing
<1>3. Sequence(kept) /\ Range(kept) = K
  <2>1. Sequence(MadeSections)
    BY SectionsAre
  <2>2. kept = KeptOf(MadeSections, K)
    <3>1. \A i \in DOMAIN MadeSections : MadeSections[i] \in K <=> MadeSections[i].kind = "bits"
      BY DEF Range
    <3>2. [i \in DOMAIN MadeSections |-> IF MadeSections[i] \in K THEN <<MadeSections[i]>> ELSE <<>>]
          = [i \in DOMAIN MadeSections |-> IF MadeSections[i].kind = "bits" THEN <<MadeSections[i]>> ELSE <<>>]
      <4> HIDE DEF K
      <4> QED BY <3>1
    <3> HIDE DEF K
    <3> QED BY <3>2 DEF KeptOf, Keep
  <2>3. K \subseteq Range(MadeSections)
    OBVIOUS
  <2> HIDE DEF kept, K
  <2> QED BY <2>1, <2>2, <2>3, KeptAre
<1> HIDE DEF kept, K
<1>4. Sequence(d) /\ Range(d) = {Piece(s.data, s.size) : s \in K}
  <2>1. Len(kept) \in Nat /\ DOMAIN kept = 1 .. Len(kept)
    BY <1>3, OfSequence
  <2>2. DOMAIN d = 1 .. Len(kept) /\ d = [i \in DOMAIN d |-> d[i]] /\ \A i \in 1 .. Len(kept) : d[i] = Piece(kept[i].data, kept[i].size)
    BY <2>1 DEF Mapped
  <2> HIDE DEF d
  <2>3. Range(d) = {Piece(s.data, s.size) : s \in Range(kept)}
    BY <2>1, <2>2 DEF Range
  <2> QED BY <1>3, <2>1, <2>2, <2>3, AnySequence
<1> HIDE DEF d
<1>5. MadePieces = a \o b \o d \o e
  BY DEF MadePieces, d, kept
<1> HIDE DEF a, b, f1, f2, f3, f4
<1>6. Sequence(e) /\ Range(e) = {f1, f2, f3, f4}
  <2>1. e \in Seq({f1, f2, f3, f4}) /\ DOMAIN e = {1, 2, 3, 4} /\ e[1] = f1 /\ e[2] = f2 /\ e[3] = f3 /\ e[4] = f4
    OBVIOUS
  <2> HIDE DEF e
  <2>2. Range(e) = {f1, f2, f3, f4}
    BY <2>1 DEF Range
  <2> QED BY <2>1, <2>2, SequenceOf
<1> HIDE DEF e
<1>7. PICK abd : abd = a \o b \o d
  OBVIOUS
<1>8. Sequence(abd) /\ Range(abd) = Range(a) \cup Range(b) \cup Range(d)
  <2>1. Sequence(a) /\ Sequence(b) /\ Sequence(d)
    BY <1>1, <1>2, <1>4
  <2> QED BY ONLY <1>7, <2>1, ThreeJoined
<1>9. Sequence(MadePieces) /\ Range(MadePieces) = Range(abd) \cup Range(e)
  <2>1. Sequence(abd) /\ Sequence(e) /\ MadePieces = abd \o e
    BY <1>5, <1>6, <1>7, <1>8
  <2> QED BY ONLY <2>1, JoinedAny
<1>10. Range(MadePieces) = Range(a) \cup Range(b) \cup Range(d) \cup {f1, f2, f3, f4}
  BY <1>6, <1>8, <1>9
<1> QED BY <1>1, <1>2, <1>4, <1>9, <1>10 DEF f1, f2, f3, f4, K

\* A piece of this data is in the file, and all that are have this size
IsPiece(ps, d, size) ==
  /\ \E p \in Range(ps) : p.data = d
  /\ \A p \in Range(ps) : p.data = d => p.size = size

LEMMA PieceSizes ==
  ASSUME Taken, Written(nameTable) \in Nat, Written(stringTable) \in Nat, Len(symbols) \in Nat
  PROVE  /\ Sequence(MadePieces) /\ \A p \in Range(MadePieces) : p.size \in Nat
         /\ \A i \in 1 .. Len(Loaded) + Len(Debug) :
              MadeSections[1 + i].kind = "bits" =>
                IsPiece(MadePieces, NamesOf(command)[i], MadeSections[1 + i].size)
         /\ IsPiece(MadePieces, ".shstrtab", Written(nameTable))
         /\ IsPiece(MadePieces, ".strtab", Written(stringTable))
         /\ IsPiece(MadePieces, ".symtab", SymbolSize * Len(symbols))
         /\ IsPiece(MadePieces, "sections", SectionSize * Len(MadeSections))
         /\ MadeSegments # <<>> => IsPiece(MadePieces, "segments", SegmentSize * Len(MadeSegments))
<1> DEFINE n == Len(Loaded)
           m == Len(Debug)
           made == MadeSections
           names == NamesOf(command)
           bits == {x \in Range(made) : x.kind = "bits"}
           R == Range(MadePieces)
           f1 == Piece(".shstrtab", Written(nameTable))
           f2 == Piece(".strtab", Written(stringTable))
           f3 == Piece(".symtab", SymbolSize * Len(symbols))
           f4 == Piece("sections", SectionSize * Len(made))
           f5 == Piece("segments", SegmentSize * Len(MadeSegments))
           f6 == Piece("header", HeadSize)
           B(s) == Piece(s.data, s.size)
<1>1. Sequence(MadePieces)
  BY PiecesAre
<1>2. R = {f6} \cup (IF MadeSegments # <<>> THEN {f5} ELSE {}) \cup {B(s) : s \in bits} \cup {f1, f2, f3, f4}
  BY PiecesAre
<1>3. /\ n \in Nat /\ m \in Nat /\ Sequence(made) /\ Len(made) = n + m + 4 /\ Len(names) = n + m + 3
      /\ names[n + m + 1] = ".strtab" /\ names[n + m + 2] = ".symtab" /\ names[n + m + 3] = ".shstrtab"
      /\ DOMAIN names = 1 .. n + m + 3
  <2>1. /\ n \in Nat /\ m \in Nat /\ Sequence(made) /\ Len(made) = n + m + 4
    BY SectionsAre
  <2>2. /\ Sequence(names) /\ Len(names) = n + m + 3
        /\ names[n + m + 1] = ".strtab" /\ names[n + m + 2] = ".symtab" /\ names[n + m + 3] = ".shstrtab"
    BY NamesAre DEF Taken, Loaded, Debug
  <2>3. DOMAIN names = 1 .. n + m + 3
    <3> HIDE DEF names
    <3> QED BY <2>2, OfSequence
  <2> QED BY <2>1, <2>2, <2>3
<1>4. /\ \A i, k \in DOMAIN names : names[i] = names[k] => i = k
      /\ \A i \in DOMAIN names : names[i] \notin {"header", "segments", "sections"}
  BY CommandsAssumption DEF Taken, WellNamed
<1>5. ASSUME NEW s \in bits
      PROVE  \E i \in 1 .. n + m : s = made[1 + i] /\ s.data = names[i] /\ s.size \in Nat
  BY BitsAre
<1>6. Len(MadeSegments) \in Nat
  <2>1. Sequence(Loaded)
    BY LoadedSizes DEF Taken, Loaded
  <2>2. Len(Loaded) \in Nat /\ DOMAIN Loaded = 1 .. Len(Loaded)
    BY <2>1, OfSequence
  <2>3. DOMAIN MadeSegments = 1 .. Len(Loaded) /\ MadeSegments = [i \in DOMAIN MadeSegments |-> MadeSegments[i]]
    BY <2>2 DEF MadeSegments, Mapped
  <2> QED BY <2>2, <2>3, AnySequence
<1>7. /\ f1.data = ".shstrtab" /\ f1.size = Written(nameTable) /\ f2.data = ".strtab" /\ f2.size = Written(stringTable)
      /\ f3.data = ".symtab" /\ f3.size = SymbolSize * Len(symbols)
      /\ f4.data = "sections" /\ f4.size = SectionSize * Len(made)
      /\ f5.data = "segments" /\ f5.size = SegmentSize * Len(MadeSegments)
      /\ f6.data = "header" /\ f6.size = HeadSize
  BY DEF Piece
<1>8. \A s : B(s).data = s.data /\ B(s).size = s.size
  BY DEF Piece
<1>9. /\ f1.size \in Nat /\ f2.size \in Nat /\ f3.size \in Nat /\ f4.size \in Nat /\ f5.size \in Nat /\ f6.size \in Nat
  BY <1>3, <1>6, <1>7 DEF SymbolSize, SectionSize, SegmentSize, HeadSize
<1> HIDE DEF f1, f2, f3, f4, f5, f6, B, n, m, names, made, bits, R
<1>10. ASSUME NEW s \in bits
       PROVE  s.data \notin {".shstrtab", ".strtab", ".symtab", "sections", "segments", "header"} /\ s.size \in Nat
  <2>1. PICK i \in 1 .. n + m : s = made[1 + i] /\ s.data = names[i] /\ s.size \in Nat
    BY <1>5
  <2>2. /\ i \in DOMAIN names /\ n + m + 1 \in DOMAIN names /\ n + m + 2 \in DOMAIN names /\ n + m + 3 \in DOMAIN names
        /\ i # n + m + 1 /\ i # n + m + 2 /\ i # n + m + 3
    BY <1>3
  <2>3. names[i] # names[n + m + 1] /\ names[i] # names[n + m + 2] /\ names[i] # names[n + m + 3]
    BY <1>4, <2>2
  <2> QED BY <1>3, <1>4, <2>1, <2>2, <2>3
<1>11. \A p \in R : p.size \in Nat
  BY <1>2, <1>8, <1>9, <1>10
<1>12. ASSUME NEW p \in R
       PROVE  /\ p.data = ".shstrtab" => p = f1
              /\ p.data = ".strtab" => p = f2
              /\ p.data = ".symtab" => p = f3
              /\ p.data = "sections" => p = f4
              /\ p.data = "segments" => p = f5
  <2>1. CASE p \in {f1, f2, f3, f4, f5, f6}
    BY <1>7, <2>1
  <2>2. CASE \E s \in bits : p = B(s)
    BY <1>8, <1>10, <2>2
  <2>3. p \in {f1, f2, f3, f4, f5, f6} \/ \E s \in bits : p = B(s)
    BY <1>2
  <2> QED BY <2>1, <2>2, <2>3
<1>13. f1 \in R /\ f2 \in R /\ f3 \in R /\ f4 \in R /\ (MadeSegments # <<>> => f5 \in R)
  BY <1>2
<1>14. ASSUME NEW i \in 1 .. n + m, made[1 + i].kind = "bits"
       PROVE  /\ \E p \in R : p.data = names[i]
              /\ \A p \in R : p.data = names[i] => p.size = made[1 + i].size
  <2>1. i \in DOMAIN names /\ 1 + i \in DOMAIN made
    <3>1. DOMAIN made = 1 .. n + m + 4
      BY <1>3, OfSequence
    <3> QED BY <1>3, <3>1
  <2>2. made[1 + i] \in bits
    BY <1>14, <2>1 DEF bits, Range
  <2>3. PICK k \in 1 .. n + m : made[1 + i] = made[1 + k] /\ made[1 + i].data = names[k]
    BY <1>5, <2>2
  <2>4. made[1 + i].data = names[i]
    <3>1. i \in 1 .. n + m + 3
      BY <1>3
    <3>2. \A l \in 1 .. n + m + 3 : made[1 + l].data = names[l]
      BY EachSection DEF made, names, n, m
    <3> QED BY <3>1, <3>2
  <2>5. \E p \in R : p.data = names[i]
    <3>1. B(made[1 + i]) \in R
      BY <1>2, <2>2
    <3> QED BY <1>8, <2>4, <3>1
  <2>6. ASSUME NEW p \in R, p.data = names[i] PROVE p.size = made[1 + i].size
    <3>1. p \notin {f1, f2, f3, f4, f5, f6}
      BY <1>7, <1>10, <2>2, <2>4, <2>6
    <3>2. PICK s \in bits : p = B(s)
      BY <1>2, <3>1
    <3>3. PICK l \in 1 .. n + m : s = made[1 + l] /\ s.data = names[l]
      BY <1>5
    <3>4. names[l] = names[i] /\ l \in DOMAIN names
      BY <1>3, <1>8, <2>6, <3>2, <3>3
    <3>5. l = i
      BY <1>4, <2>1, <3>4
    <3> QED BY <1>8, <3>2, <3>3, <3>5
  <2> QED BY <2>5, <2>6
<1>15. IsPiece(MadePieces, ".shstrtab", Written(nameTable))
  BY <1>7, <1>12, <1>13 DEF IsPiece, R
<1>16. IsPiece(MadePieces, ".strtab", Written(stringTable))
  BY <1>7, <1>12, <1>13 DEF IsPiece, R
<1>17. IsPiece(MadePieces, ".symtab", SymbolSize * Len(symbols))
  BY <1>7, <1>12, <1>13 DEF IsPiece, R
<1>18. IsPiece(MadePieces, "sections", SectionSize * Len(MadeSections))
  BY <1>7, <1>12, <1>13 DEF IsPiece, R, made
<1>19. MadeSegments # <<>> => IsPiece(MadePieces, "segments", SegmentSize * Len(MadeSegments))
  BY <1>7, <1>12, <1>13 DEF IsPiece, R
<1>20. \A i \in 1 .. Len(Loaded) + Len(Debug) :
         MadeSections[1 + i].kind = "bits" => IsPiece(MadePieces, NamesOf(command)[i], MadeSections[1 + i].size)
  BY <1>14 DEF IsPiece, R, made, names, n, m
<1> QED BY <1>1, <1>11, <1>15, <1>16, <1>17, <1>18, <1>19, <1>20 DEF R
-----------------------------------------------------------------------------
(* The file when it is done.                                               *)

EntryOf(x) == [name |-> stringTable.at[x.text], value |-> x.value, local |-> x.local, index |-> x.index]

\* The entries of the symbol table, by the symbols
LEMMA EntriesAre ==
  ASSUME Taken, symbols = MadeSymbols
  PROVE  LET l == Len(LocalSymbols)
             g == Len(GlobalSymbols)
         IN  /\ l \in Nat /\ g \in Nat /\ Sequence(symbols) /\ Len(symbols) = 1 + l + g /\ symbols[1] = NullSymbol
             /\ \A i \in 1 .. l : symbols[1 + i] = EntryOf(LocalSymbols[i])
             /\ \A i \in 1 .. g : symbols[1 + l + i] = EntryOf(GlobalSymbols[i])
<1> DEFINE l == Len(LocalSymbols)
           g == Len(GlobalSymbols)
<1>1. Sequence(LocalSymbols) /\ Sequence(GlobalSymbols)
  BY SymbolsAre
<1>2. l \in Nat /\ g \in Nat
  BY <1>1, OfSequence
<1>3. PICK all : all = LocalSymbols \o GlobalSymbols
  OBVIOUS
<1>4. /\ Sequence(all) /\ Len(all) = l + g
      /\ \A i \in 1 .. l : all[i] = LocalSymbols[i]
      /\ \A i \in 1 .. g : all[l + i] = GlobalSymbols[i]
  BY ONLY <1>1, <1>3, JoinedAny
<1>5. PICK q : q = Mapped(all, LAMBDA x : EntryOf(x))
  OBVIOUS
<1>6. Len(all) \in Nat /\ DOMAIN all = 1 .. Len(all)
  BY <1>4, OfSequence
<1>7. DOMAIN q = 1 .. Len(all) /\ q = [i \in DOMAIN q |-> q[i]] /\ \A i \in 1 .. Len(all) : q[i] = EntryOf(all[i])
  BY <1>5, <1>6 DEF Mapped
<1>8. Sequence(q) /\ Len(q) = Len(all)
  BY <1>6, <1>7, AnySequence
<1>9. symbols = <<NullSymbol>> \o q
  BY <1>3, <1>5 DEF MadeSymbols, EntryOf, Mapped
<1>10. PICK one : one = <<NullSymbol>>
  OBVIOUS
<1>11. Sequence(one) /\ Len(one) = 1 /\ one[1] = NullSymbol
  BY <1>10, Single
<1>12. Sequence(one) /\ Sequence(q) /\ symbols = one \o q
  BY <1>8, <1>9, <1>10, <1>11
<1>13. /\ Sequence(symbols) /\ Len(symbols) = Len(one) + Len(q)
       /\ \A i \in 1 .. Len(one) : symbols[i] = one[i]
       /\ \A i \in 1 .. Len(q) : symbols[Len(one) + i] = q[i]
  BY ONLY <1>12, JoinedAny
<1> HIDE DEF l, g
<1>14. Len(symbols) = 1 + l + g /\ symbols[1] = NullSymbol
  BY <1>2, <1>4, <1>8, <1>11, <1>13
<1>15. ASSUME NEW i \in 1 .. l PROVE symbols[1 + i] = EntryOf(LocalSymbols[i])
  <2>1. i \in 1 .. Len(q) /\ i \in 1 .. Len(all)
    BY <1>2, <1>4, <1>8
  <2> QED BY <1>4, <1>7, <1>11, <1>13, <2>1
<1>16. ASSUME NEW i \in 1 .. g PROVE symbols[1 + l + i] = EntryOf(GlobalSymbols[i])
  <2>1. l + i \in 1 .. Len(q) /\ l + i \in 1 .. Len(all) /\ 1 + (l + i) = 1 + l + i
    BY <1>2, <1>4, <1>8
  <2> QED BY <1>4, <1>7, <1>11, <1>13, <2>1
<1> QED BY <1>2, <1>13, <1>14, <1>15, <1>16 DEF l, g

\* The state when the file is done
Finished == FileInv /\ step = "done"

LEMMA FinishedIs ==
  ASSUME Finished
  PROVE  /\ Taken /\ nameTable = NamesTable(command) /\ stringTable = AddStrings(EmptyTable, Texts)
         /\ symbols = MadeSymbols /\ locals = 1 + Len(LocalSymbols) /\ file = Laid(MadePieces)
         /\ sections = Mapped(MadeSections, Corrected) /\ segments = CorrectedSegments /\ header = CorrectedHeader
BY DEF Finished, FileInv

LEMMA TablesAre ==
  ASSUME Finished
  PROVE  /\ Written(nameTable) \in Nat /\ Written(nameTable) > 0
         /\ Written(stringTable) \in Nat /\ Written(stringTable) > 0
         /\ Len(symbols) \in Nat
<1>1. Counted(NameTexts) /\ TableOk(nameTable, NameTexts) /\ Range(NamesOf(command)) \subseteq DOMAIN nameTable.at
  BY FinishedIs, NamesTableIs
<1>2. Counted(SymbolTexts) /\ TableOk(stringTable, SymbolTexts)
  BY FinishedIs, StringTableIs
<1>3. Nul \in DOMAIN stringTable.at
  BY FinishedIs, StringTableIs
<1>4. ".strtab" \in DOMAIN nameTable.at
  <2> DEFINE names == NamesOf(command)
  <2>1. Sequence(names) /\ \E i \in 1 .. Len(names) : names[i] = ".strtab"
    <3>1. /\ Sequence(names) /\ Len(Loaded) \in Nat /\ Len(Debug) \in Nat
          /\ Len(names) = Len(Loaded) + Len(Debug) + 3 /\ names[Len(Loaded) + Len(Debug) + 1] = ".strtab"
      BY NamesAre, FinishedIs DEF Taken, Loaded, Debug
    <3> HIDE DEF names
    <3>2. Len(Loaded) + Len(Debug) + 1 \in 1 .. Len(names)
      BY <3>1
    <3> QED BY <3>1, <3>2
  <2> HIDE DEF names
  <2>2. ".strtab" \in Range(names)
    BY <2>1, OfSequence DEF Range
  <2> QED BY <1>1, <2>2 DEF names
<1>5. Written(nameTable) \in Nat /\ Written(nameTable) > 0
  BY <1>1, <1>4, TableSize
<1>6. Written(stringTable) \in Nat /\ Written(stringTable) > 0
  BY <1>2, <1>3, TableSize
<1>7. Len(symbols) \in Nat
  <2>1. Sequence(symbols)
    BY FinishedIs, EntriesAre
  <2> QED BY <2>1, OfSequence
<1> QED BY <1>5, <1>6, <1>7

\* Each piece is found where the file says that it is
LEMMA PlaceOfPiece ==
  ASSUME Finished, NEW d, NEW size, IsPiece(MadePieces, d, size)
  PROVE  /\ PieceOf(d).size = size /\ d \in At(PieceOf(d).at, size)
         /\ size > 0 => At(PieceOf(d).at, size) = {d}
<1>1. Sequence(MadePieces) /\ \A p \in Range(MadePieces) : p.size \in Nat
  BY FinishedIs, TablesAre, PieceSizes
<1>2. file = Laid(MadePieces)
  BY FinishedIs
<1>3. \E p \in Range(MadePieces) : p.data = d /\ \A q \in Range(MadePieces) : q.data = d => q.size = size
  BY DEF IsPiece
<1> HIDE DEF MadePieces
<1> QED BY <1>1, <1>2, <1>3, PieceFound

\* The sections when the file is done, and where their bytes are
LEMMA SectionsDone ==
  ASSUME Finished
  PROVE  LET n == Len(Loaded)
             m == Len(Debug)
             names == NamesOf(command)
         IN  /\ n \in Nat /\ m \in Nat /\ Sequence(sections) /\ Len(sections) = n + m + 4 /\ sections[1].data = ""
             /\ \A i \in 1 .. n + m + 3 : /\ sections[1 + i].data = names[i]
                                          /\ sections[1 + i].name = nameTable.at[names[i]]
                                          /\ sections[1 + i].kind # "nobits" =>
                                               names[i] \in At(sections[1 + i].offset, sections[1 + i].size)
             /\ \A i \in 1 .. n : /\ sections[1 + i].kind = Loaded[i].kind /\ sections[1 + i].addr = Loaded[i].addr
                                  /\ sections[1 + i].size = Loaded[i].size
                                  /\ Loaded[i].kind = "bits" => names[i] \in At(PieceOf(names[i]).at, Loaded[i].size)
             /\ At(sections[n + m + 4].offset, sections[n + m + 4].size) = {".shstrtab"}
             /\ At(sections[n + m + 2].offset, sections[n + m + 2].size) = {".strtab"}
             /\ sections[n + m + 3].kind = "symbols" /\ sections[n + m + 3].link = n + m + 1
             /\ sections[n + m + 3].info = locals
             /\ \A i \in 1 .. n + m + 4 : sections[i].kind = "symbols" => i = n + m + 3
<1> DEFINE n == Len(Loaded)
           m == Len(Debug)
           names == NamesOf(command)
           made == MadeSections
<1>1. Taken
  BY FinishedIs
<1>2. n \in Nat /\ m \in Nat /\ Sequence(made) /\ Len(made) = n + m + 4
  BY <1>1, SectionsAre
<1>3. /\ \A i \in 1 .. n + m + 4 : Header(made[i])
      /\ \A i \in 1 .. n + m + 3 : made[1 + i].data = names[i] /\ made[1 + i].name = nameTable.at[names[i]]
      /\ \A i \in 1 .. n : /\ made[1 + i].kind = Loaded[i].kind /\ made[1 + i].addr = Loaded[i].addr
                           /\ made[1 + i].size = Loaded[i].size
      /\ \A i \in 1 .. m : made[1 + n + i].kind = "bits" /\ made[1 + n + i].size = Debug[i].size
      /\ made[1].kind = "null" /\ made[1].data = "" /\ made[n + m + 2].kind = "strings" /\ made[n + m + 3].kind = "symbols"
      /\ made[n + m + 4].kind = "strings" /\ made[n + m + 3].link = n + m + 1
  BY <1>1, EachSection
<1>4. /\ names[n + m + 1] = ".strtab" /\ names[n + m + 2] = ".symtab" /\ names[n + m + 3] = ".shstrtab"
  BY <1>1, NamesAre DEF Taken, Loaded, Debug
<1>5. \A i \in 1 .. n : Loaded[i].kind \in {"bits", "nobits"}
  <2>1. Sequence(Loaded) /\ \A x \in Range(Loaded) : x.kind \in {"bits", "nobits"}
    BY <1>1, LoadedSizes DEF Taken, Loaded
  <2>2. DOMAIN Loaded = 1 .. n
    BY <2>1, OfSequence
  <2> QED BY <2>1, <2>2 DEF Range
<1>6. /\ \A i \in 1 .. n + m : made[1 + i].kind = "bits" => IsPiece(MadePieces, names[i], made[1 + i].size)
      /\ IsPiece(MadePieces, ".shstrtab", Written(nameTable))
      /\ IsPiece(MadePieces, ".strtab", Written(stringTable))
      /\ IsPiece(MadePieces, ".symtab", SymbolSize * Len(symbols))
  BY <1>1, TablesAre, PieceSizes
<1> HIDE DEF n, m, names, made
<1>7. PICK cs : cs = [i \in DOMAIN made |-> Corrected(made[i])]
  OBVIOUS
<1>8. sections = cs
  BY <1>7, FinishedIs DEF Mapped, made
<1>9. DOMAIN made = 1 .. n + m + 4
  BY <1>2, OfSequence
<1>10. DOMAIN sections = 1 .. n + m + 4 /\ sections = [i \in DOMAIN sections |-> sections[i]]
       /\ \A i \in 1 .. n + m + 4 : sections[i] = Corrected(made[i])
  BY <1>7, <1>8, <1>9
<1>11. Sequence(sections) /\ Len(sections) = n + m + 4
  <2>1. n + m + 4 \in Nat
    BY <1>2
  <2> QED BY <1>10, <2>1, AnySequence
<1>12. ASSUME NEW i \in 1 .. n + m + 4
       PROVE  Corrects(made[i], sections[i])
  <2>1. Header(made[i]) /\ sections[i] = Corrected(made[i])
    BY <1>3, <1>10
  <2> QED BY <2>1, CorrectedIs
<1>13. ASSUME NEW i \in 1 .. n + m + 3
       PROVE  1 + i \in 1 .. n + m + 4 /\ sections[1 + i].data = names[i] /\ sections[1 + i].name = nameTable.at[names[i]]
  <2>1. 1 + i \in 1 .. n + m + 4
    BY <1>2
  <2>2. made[1 + i].data = names[i] /\ made[1 + i].name = nameTable.at[names[i]]
    BY <1>3
  <2>3. Corrects(made[1 + i], sections[1 + i])
    BY <1>12, <2>1
  <2> QED BY <2>1, <2>2, <2>3 DEF Corrects
<1>14. ASSUME NEW i \in 1 .. n
       PROVE  /\ sections[1 + i].kind = Loaded[i].kind /\ sections[1 + i].addr = Loaded[i].addr
              /\ sections[1 + i].size = Loaded[i].size
              /\ Loaded[i].kind = "bits" => names[i] \in At(PieceOf(names[i]).at, Loaded[i].size)
  <2>1. 1 + i \in 1 .. n + m + 4 /\ i \in 1 .. n + m
    BY <1>2
  <2>2. made[1 + i].kind = Loaded[i].kind /\ made[1 + i].addr = Loaded[i].addr /\ made[1 + i].size = Loaded[i].size
    BY <1>3
  <2>3. Loaded[i].kind = "bits" => names[i] \in At(PieceOf(names[i]).at, Loaded[i].size)
    BY <1>6, <2>1, <2>2, PlaceOfPiece
  <2>4. Corrects(made[1 + i], sections[1 + i])
    BY <1>12, <2>1
  <2>5. Loaded[i].kind \in {"bits", "nobits"}
    BY <1>5
  <2> QED BY <2>2, <2>3, <2>4, <2>5 DEF Corrects
<1>15. /\ sections[n + m + 4].offset = PieceOf(".shstrtab").at /\ sections[n + m + 4].size = PieceOf(".shstrtab").size
       /\ sections[n + m + 2].offset = PieceOf(".strtab").at /\ sections[n + m + 2].size = PieceOf(".strtab").size
       /\ sections[n + m + 3].offset = PieceOf(".symtab").at /\ sections[n + m + 3].size = PieceOf(".symtab").size
       /\ sections[n + m + 3].kind = "symbols" /\ sections[n + m + 3].link = n + m + 1 /\ sections[n + m + 3].info = locals
  <2>1. /\ n + m + 4 \in 1 .. n + m + 4 /\ n + m + 2 \in 1 .. n + m + 4 /\ n + m + 3 \in 1 .. n + m + 4
        /\ n + m + 1 \in 1 .. n + m + 3 /\ n + m + 2 \in 1 .. n + m + 3 /\ n + m + 3 \in 1 .. n + m + 3
        /\ 1 + (n + m + 1) = n + m + 2 /\ 1 + (n + m + 2) = n + m + 3 /\ 1 + (n + m + 3) = n + m + 4
    BY <1>2
  <2>2. made[n + m + 4].data = ".shstrtab" /\ made[n + m + 2].data = ".strtab" /\ made[n + m + 3].data = ".symtab"
    BY <1>3, <1>4, <2>1
  <2>3. /\ sections[n + m + 4].offset = PieceOf(".shstrtab").at /\ sections[n + m + 4].size = PieceOf(".shstrtab").size
    <3>1. made[n + m + 4].kind = "strings"
      BY <1>3
    <3>2. Corrects(made[n + m + 4], sections[n + m + 4])
      BY <1>12, <2>1
    <3> QED BY <2>2, <3>1, <3>2 DEF Corrects
  <2>4. /\ sections[n + m + 2].offset = PieceOf(".strtab").at /\ sections[n + m + 2].size = PieceOf(".strtab").size
    <3>1. made[n + m + 2].kind = "strings"
      BY <1>3
    <3>2. Corrects(made[n + m + 2], sections[n + m + 2])
      BY <1>12, <2>1
    <3> QED BY <2>2, <3>1, <3>2 DEF Corrects
  <2>5. /\ sections[n + m + 3].offset = PieceOf(".symtab").at /\ sections[n + m + 3].size = PieceOf(".symtab").size
        /\ sections[n + m + 3].kind = "symbols" /\ sections[n + m + 3].link = n + m + 1 /\ sections[n + m + 3].info = locals
    <3>1. made[n + m + 3].kind = "symbols" /\ made[n + m + 3].link = n + m + 1
      BY <1>3
    <3>2. Corrects(made[n + m + 3], sections[n + m + 3])
      BY <1>12, <2>1
    <3> QED BY <2>2, <3>1, <3>2 DEF Corrects
  <2> QED BY <2>3, <2>4, <2>5
<1>16. /\ PieceOf(".shstrtab").size = Written(nameTable) /\ PieceOf(".strtab").size = Written(stringTable)
       /\ At(PieceOf(".shstrtab").at, Written(nameTable)) = {".shstrtab"}
       /\ At(PieceOf(".strtab").at, Written(stringTable)) = {".strtab"}
       /\ PieceOf(".symtab").size = SymbolSize * Len(symbols)
       /\ ".symtab" \in At(PieceOf(".symtab").at, SymbolSize * Len(symbols))
  <2>1. Written(nameTable) > 0 /\ Written(stringTable) > 0
    BY TablesAre
  <2> QED BY <1>6, <2>1, PlaceOfPiece
<1>17. ASSUME NEW i \in 1 .. n + m + 3, sections[1 + i].kind # "nobits"
       PROVE  names[i] \in At(sections[1 + i].offset, sections[1 + i].size)
  <2>1. CASE i \in 1 .. n + m
    <3>1. Corrects(made[1 + i], sections[1 + i]) /\ made[1 + i].data = names[i]
      <4>1. made[1 + i].data = names[i]
        BY <1>3
      <4>2. 1 + i \in 1 .. n + m + 4
        BY <1>2
      <4> QED BY <1>12, <4>1, <4>2
    <3>2. made[1 + i].kind = "bits"
      <4>1. CASE i <= n
        <5>1. i \in 1 .. n
          BY <1>2, <2>1, <4>1
        <5>2. made[1 + i].kind \in {"bits", "nobits"}
          BY <1>3, <1>5, <5>1
        <5> QED BY <1>17, <3>1, <5>2 DEF Corrects
      <4>2. CASE i > n
        <5>1. i - n \in 1 .. m /\ 1 + n + (i - n) = 1 + i
          BY <1>2, <2>1, <4>2
        <5>2. made[1 + n + (i - n)].kind = "bits"
          BY <1>3, <5>1
        <5> QED BY <5>1, <5>2
      <4> QED BY <1>2, <4>1, <4>2
    <3>3. sections[1 + i].offset = PieceOf(names[i]).at /\ sections[1 + i].size = made[1 + i].size
      BY <3>1, <3>2 DEF Corrects
    <3>4. IsPiece(MadePieces, names[i], made[1 + i].size)
      BY <1>6, <2>1, <3>2
    <3> QED BY <3>3, <3>4, PlaceOfPiece
  <2>2. CASE i = n + m + 1
    <3>1. 1 + i = n + m + 2
      BY <1>2, <2>2
    <3> QED BY <1>4, <1>15, <1>16, <2>2, <3>1
  <2>3. CASE i = n + m + 2
    <3>1. 1 + i = n + m + 3
      BY <1>2, <2>3
    <3> QED BY <1>4, <1>15, <1>16, <2>3, <3>1
  <2>4. CASE i = n + m + 3
    <3>1. 1 + i = n + m + 4
      BY <1>2, <2>4
    <3> QED BY <1>4, <1>15, <1>16, <2>4, <3>1
  <2> QED BY <1>2, <2>1, <2>2, <2>3, <2>4
<1>18. ASSUME NEW i \in 1 .. n + m + 4, sections[i].kind = "symbols"
       PROVE  i = n + m + 3
  <2>1. made[i].kind = "symbols"
    BY <1>12, <1>18 DEF Corrects
  <2>2. i # 1 /\ i # n + m + 2 /\ i # n + m + 4
    BY <1>3, <2>1
  <2>3. ASSUME i \in 2 .. n + 1 PROVE FALSE
    <3>1. i - 1 \in 1 .. n /\ 1 + (i - 1) = i
      BY <1>2, <2>3
    <3>2. made[1 + (i - 1)].kind \in {"bits", "nobits"}
      BY <1>3, <1>5, <3>1
    <3> QED BY <2>1, <3>1, <3>2
  <2>4. ASSUME i \in n + 2 .. n + m + 1 PROVE FALSE
    <3>1. i - (n + 1) \in 1 .. m /\ 1 + n + (i - (n + 1)) = i
      BY <1>2, <2>4
    <3>2. made[1 + n + (i - (n + 1))].kind = "bits"
      BY <1>3, <3>1
    <3> QED BY <2>1, <3>1, <3>2
  <2> QED BY <1>2, <2>2, <2>3, <2>4
<1>19. sections[1].data = ""
  <2>1. 1 \in 1 .. n + m + 4
    BY <1>2
  <2>2. made[1].data = "" /\ Corrects(made[1], sections[1])
    BY <1>3, <1>12, <2>1
  <2> QED BY <2>2 DEF Corrects
<1> QED BY <1>2, <1>11, <1>13, <1>14, <1>15, <1>16, <1>17, <1>18, <1>19 DEF n, m, names
-----------------------------------------------------------------------------
(* What a reader of the sections and segments finds.                       *)

LEMMA ReadName ==
  ASSUME Finished, NEW s, At(s.offset, s.size) = {".shstrtab"}, NEW x \in DOMAIN nameTable.at
  PROVE  StringAt(s, nameTable.at[x]) = {x}
<1>1. Counted(NameTexts) /\ TableOk(nameTable, NameTexts)
  BY FinishedIs, NamesTableIs
<1>2. TableOf(CHOOSE d \in At(s.offset, s.size) : TRUE) = nameTable
  BY DEF TableOf
<1>3. {nameTable.order[k] : k \in {j \in DOMAIN nameTable.order : Ends(StringSizes(nameTable))[j - 1] = nameTable.at[x]}} = {x}
  BY <1>1, StringFound
<1> QED BY <1>2, <1>3, Zenon DEF StringAt

LEMMA ReadText ==
  ASSUME Finished, NEW s, At(s.offset, s.size) = {".strtab"}, NEW x \in DOMAIN stringTable.at
  PROVE  StringAt(s, stringTable.at[x]) = {x}
<1>1. Counted(SymbolTexts) /\ TableOk(stringTable, SymbolTexts)
  BY FinishedIs, StringTableIs
<1>2. TableOf(CHOOSE d \in At(s.offset, s.size) : TRUE) = stringTable
  BY DEF TableOf
<1>3. {stringTable.order[k] : k \in {j \in DOMAIN stringTable.order : Ends(StringSizes(stringTable))[j - 1] = stringTable.at[x]}} = {x}
  BY <1>1, StringFound
<1> QED BY <1>2, <1>3, Zenon DEF StringAt

\* The segments, in the order of what is loaded
LEMMA SegmentsDone ==
  ASSUME Finished
  PROVE  LET n == Len(Loaded) IN
         /\ n \in Nat /\ Sequence(segments) /\ Len(segments) = n /\ Len(MadeSegments) = n
         /\ MadeSegments = <<>> => segments = <<>>
         /\ \A i \in 1 .. n : Loaded[i].kind = "bits" =>
              /\ segments[i].addr = Loaded[i].addr /\ segments[i].filesz = Loaded[i].size /\ segments[i].memsz = Loaded[i].size
              /\ segments[i].offset = PieceOf(Loaded[i].name).at
<1> DEFINE n == Len(Loaded)
<1>1. Sequence(Loaded)
  BY FinishedIs, LoadedSizes DEF Taken, Loaded
<1>2. n \in Nat /\ DOMAIN Loaded = 1 .. n
  BY <1>1, OfSequence
<1> HIDE DEF n
<1>3. PICK ms : ms = MadeSegments
  OBVIOUS
<1>4. ms = [i \in 1 .. n |-> [addr |-> Loaded[i].addr, offset |-> 0, memsz |-> Loaded[i].size,
                             filesz |-> IF Loaded[i].kind = "bits" THEN Loaded[i].size ELSE 0]]
  BY <1>2, <1>3 DEF MadeSegments, Mapped
<1>5. DOMAIN ms = 1 .. n /\ ms = [i \in DOMAIN ms |-> ms[i]]
  BY <1>4
<1>6. Sequence(ms) /\ Len(ms) = n
  BY <1>2, <1>5, AnySequence
<1>7. segments = [i \in DOMAIN ms |-> IF Loaded[i].kind = "bits" THEN [ms[i] EXCEPT !.offset = PieceOf(Loaded[i].name).at] ELSE ms[i]]
  BY <1>3, FinishedIs DEF CorrectedSegments
<1>8. DOMAIN segments = 1 .. n /\ segments = [i \in DOMAIN segments |-> segments[i]]
  BY <1>5, <1>7
<1>9. Sequence(segments) /\ Len(segments) = n
  BY <1>2, <1>8, AnySequence
<1>10. ms = <<>> => segments = <<>>
  <2>1. ms = <<>> => n = 0
    BY <1>6, Nothing
  <2>2. segments \in Seq(Range(segments))
    BY <1>9 DEF Sequence
  <2> QED BY <1>9, <2>1, <2>2
<1>11. ASSUME NEW i \in 1 .. n, Loaded[i].kind = "bits"
       PROVE  /\ segments[i].addr = Loaded[i].addr /\ segments[i].filesz = Loaded[i].size /\ segments[i].memsz = Loaded[i].size
              /\ segments[i].offset = PieceOf(Loaded[i].name).at
  <2>1. PICK at : at = PieceOf(Loaded[i].name).at
    OBVIOUS
  <2>2. segments[i] = [ms[i] EXCEPT !.offset = at]
    BY <1>5, <1>7, <1>11, <2>1
  <2>3. ms[i] = [addr |-> Loaded[i].addr, offset |-> 0, memsz |-> Loaded[i].size, filesz |-> Loaded[i].size]
    BY <1>4, <1>11
  <2>4. segments[i] = [addr |-> Loaded[i].addr, offset |-> at, memsz |-> Loaded[i].size, filesz |-> Loaded[i].size]
    BY <2>2, <2>3
  <2> QED BY <2>1, <2>4
<1> QED BY <1>2, <1>3, <1>6, <1>9, <1>10, <1>11 DEF n

\* Where what is loaded has the block and the binary files
LEMMA LoadedPlaces ==
  ASSUME Taken
  PROVE  \E n0 \in {0, 1} :
           /\ command.imageDef =>
                /\ 1 \in 1 .. Len(Loaded) /\ Loaded[1].kind = "bits"
                /\ Loaded[1].addr = job.bins[1].addr[1] - BlockSize /\ Loaded[1].size = BlockSize
           /\ n0 = IF command.imageDef THEN 1 ELSE 0
           /\ \A i \in 1 .. Len(job.bins) :
                /\ n0 + i \in 1 .. Len(Loaded) /\ Loaded[n0 + i].kind = "bits" /\ Loaded[n0 + i].name = SectionName(job, i)
                /\ Loaded[n0 + i].addr = job.bins[i].addr[1] /\ Loaded[n0 + i].size = job.bins[i].size
           /\ job.bss # <<>> =>
                /\ Len(Loaded) \in 1 .. Len(Loaded) /\ Loaded[Len(Loaded)].name = ".bss"
                /\ Loaded[Len(Loaded)].addr = job.bss[1].addr /\ Loaded[Len(Loaded)].size = job.bss[1].size
<1>1. PICK n0 : n0 = IF command.imageDef THEN 1 ELSE 0
  OBVIOUS
<1>2. command \in Commands /\ ~Refused(command) /\ job = JobOf(command)
  BY DEF Taken
<1>3. LoadedOk(command, job, n0)
  BY <1>1, <1>2, LoadedAre
<1>4. PICK nb, ns, len : nb = Len(job.bins) /\ ns = Len(job.bss) /\ len = Len(Loaded)
  OBVIOUS
<1>5. nb \in Nat /\ ns \in {0, 1} /\ len = n0 + nb + ns /\ n0 \in {0, 1}
  <2>1. nb \in Nat /\ ns \in {0, 1} /\ len = n0 + nb + ns
    BY <1>3, <1>4, Zenon DEF Loaded, LoadedOk
  <2> QED BY ONLY <1>1, <2>1
<1>6. \A i \in 1 .. nb : n0 + i \in 1 .. len
  BY ONLY <1>5
<1>7. command.imageDef => 1 \in 1 .. len
  BY ONLY <1>1, <1>5
<1>8. job.bss # <<>> => len \in 1 .. len
  <2>1. ASSUME job.bss # <<>> PROVE ns # 0
    <3>1. \E b \in [addr : Nat, size : Nat] : job.bss = <<b>>
      BY <1>2, <2>1, JobIs
    <3>2. PICK b : job.bss = <<b>>
      BY <3>1
    <3> QED BY ONLY <1>4, <3>2, Single
  <2> QED BY ONLY <1>5, <2>1
<1>9. ASSUME NEW i \in 1 .. nb
      PROVE  /\ Loaded[n0 + i].kind = "bits" /\ Loaded[n0 + i].name = SectionName(job, i)
             /\ Loaded[n0 + i].addr = job.bins[i].addr[1] /\ Loaded[n0 + i].size = job.bins[i].size
  <2>1. Loaded[n0 + i] = [name |-> SectionName(job, i), kind |-> "bits", addr |-> job.bins[i].addr[1], size |-> job.bins[i].size]
    BY <1>3, <1>4, Zenon DEF Loaded, LoadedOk
  <2> QED BY ONLY <2>1
<1>10. command.imageDef =>
         /\ Loaded[1].kind = "bits" /\ Loaded[1].addr = job.bins[1].addr[1] - BlockSize /\ Loaded[1].size = BlockSize
  <2>1. command.imageDef => Loaded[1] = [name |-> ".image_def", kind |-> "bits",
                                         addr |-> job.bins[1].addr[1] - BlockSize, size |-> BlockSize]
    BY <1>3, Zenon DEF Loaded, LoadedOk
  <2> QED BY ONLY <2>1
<1>11. job.bss # <<>> => /\ Loaded[len].name = ".bss"
                         /\ Loaded[len].addr = job.bss[1].addr /\ Loaded[len].size = job.bss[1].size
  <2>1. job.bss # <<>> =>
          Loaded[len] = [name |-> ".bss", kind |-> "nobits", addr |-> job.bss[1].addr, size |-> job.bss[1].size]
    BY <1>3, <1>4, Zenon DEF Loaded, LoadedOk
  <2> QED BY ONLY <2>1
<1> QED BY <1>1, <1>4, <1>5, <1>6, <1>7, <1>8, <1>9, <1>10, <1>11, Zenon

\* A loader finds each binary file
LEMMA BinaryLoaded ==
  ASSUME Finished, NEW b \in Range(job.bins)
  PROVE  \E s \in Range(segments) : /\ s.addr = b.addr[1] /\ s.filesz = b.size /\ s.filesz = s.memsz
                                    /\ At(s.offset, s.filesz) # {}
<1>1. PICK n0 \in {0, 1} :
        \A i \in 1 .. Len(job.bins) :
          /\ n0 + i \in 1 .. Len(Loaded) /\ Loaded[n0 + i].kind = "bits"
          /\ Loaded[n0 + i].addr = job.bins[i].addr[1] /\ Loaded[n0 + i].size = job.bins[i].size
  BY FinishedIs, LoadedPlaces, Zenon
<1>3. Sequence(job.bins)
  BY FinishedIs, JobIs DEF Taken
<1>4. PICK i \in 1 .. Len(job.bins) : job.bins[i] = b
  BY <1>3, OfSequence
<1>5. n0 + i \in 1 .. Len(Loaded)
  BY <1>1, Zenon
<1>6. Loaded[n0 + i].kind = "bits" /\ Loaded[n0 + i].addr = b.addr[1] /\ Loaded[n0 + i].size = b.size
  BY <1>1, <1>4, Zenon
<1>7. NamesOf(command)[n0 + i] = Loaded[n0 + i].name
  BY <1>5, FinishedIs, NamesAre DEF Taken, Loaded
<1>8. NamesOf(command)[n0 + i] \in At(PieceOf(NamesOf(command)[n0 + i]).at, Loaded[n0 + i].size)
  BY <1>5, <1>6, SectionsDone
<1>9. /\ segments[n0 + i].addr = b.addr[1] /\ segments[n0 + i].filesz = b.size /\ segments[n0 + i].memsz = b.size
      /\ segments[n0 + i].offset = PieceOf(Loaded[n0 + i].name).at
  BY <1>5, <1>6, SegmentsDone
<1>10. segments[n0 + i] \in Range(segments)
  <2>1. DOMAIN segments = 1 .. Len(Loaded)
    BY SegmentsDone, OfSequence
  <2> QED BY <1>5, <2>1 DEF Range
<1> QED BY <1>6, <1>7, <1>8, <1>9, <1>10

LEMMA BlockLoaded ==
  ASSUME Finished, command.imageDef \/ command.boot2
  PROVE  \E s, t \in Range(segments) :
           t.addr = job.bins[1].addr[1] /\ s.addr + s.memsz = t.addr /\ s.filesz = BlockSize
<1>1. /\ Sequence(job.bins) /\ job.bins # <<>> /\ \A b \in Range(job.bins) : Fixed(b)
      /\ command.boot2 => \E b \in Range(job.bins) : b.addr[1] = job.bins[1].addr[1] - BlockSize /\ b.size = BlockSize
  BY FinishedIs, JobIs DEF Taken
<1>2. job.bins[1] \in Range(job.bins)
  <2>1. job.bins \in Seq(Range(job.bins))
    BY <1>1 DEF Sequence
  <2> QED BY <1>1, <2>1
<1>3. job.bins[1].addr[1] \in Int
  BY <1>1, <1>2 DEF Fixed
<1>4. PICK t \in Range(segments) : t.addr = job.bins[1].addr[1]
  BY <1>2, BinaryLoaded
<1>5. \E s \in Range(segments) : s.addr = job.bins[1].addr[1] - BlockSize /\ s.memsz = BlockSize /\ s.filesz = BlockSize
  <2>1. CASE command.boot2
    <3>1. PICK b \in Range(job.bins) : b.addr[1] = job.bins[1].addr[1] - BlockSize /\ b.size = BlockSize
      BY <1>1, <2>1
    <3> QED BY <3>1, BinaryLoaded
  <2>2. CASE command.imageDef
    <3>1. /\ 1 \in 1 .. Len(Loaded) /\ Loaded[1].kind = "bits"
          /\ Loaded[1].addr = job.bins[1].addr[1] - BlockSize /\ Loaded[1].size = BlockSize
      BY <2>2, FinishedIs, LoadedPlaces, Zenon
    <3>2. 1 \in 1 .. Len(Loaded)
      BY <3>1
    <3>3. segments[1].addr = job.bins[1].addr[1] - BlockSize /\ segments[1].memsz = BlockSize /\ segments[1].filesz = BlockSize
      BY <3>1, <3>2, SegmentsDone
    <3>4. segments[1] \in Range(segments)
      <4>1. DOMAIN segments = 1 .. Len(Loaded)
        BY SegmentsDone, OfSequence
      <4> QED BY <3>2, <4>1 DEF Range
    <3> QED BY <3>3, <3>4
  <2> QED BY <2>1, <2>2
<1>6. (job.bins[1].addr[1] - BlockSize) + BlockSize = job.bins[1].addr[1]
  BY <1>3 DEF BlockSize
<1> QED BY <1>4, <1>5, <1>6

LEMMA ReadsBack == Finished => FileReadsBack
<1> SUFFICES ASSUME Finished PROVE FileReadsBack
  OBVIOUS
<1> DEFINE n == Len(Loaded)
           m == Len(Debug)
           names == NamesOf(command)
<1>1. /\ n \in Nat /\ m \in Nat /\ Sequence(sections) /\ Len(sections) = n + m + 4
      /\ \A i \in 1 .. n + m + 3 : /\ sections[1 + i].data = names[i]
                                   /\ sections[1 + i].name = nameTable.at[names[i]]
                                   /\ sections[1 + i].kind # "nobits" =>
                                        names[i] \in At(sections[1 + i].offset, sections[1 + i].size)
      /\ At(sections[n + m + 4].offset, sections[n + m + 4].size) = {".shstrtab"}
  BY SectionsDone
<1>2. \A i \in 1 .. n + m + 3 : names[i] \in DOMAIN nameTable.at
  <2>1. Sequence(names) /\ Len(names) = n + m + 3 /\ Range(names) \subseteq DOMAIN nameTable.at
    BY FinishedIs, NamesAre, NamesTableIs DEF Taken, Loaded, Debug
  <2> HIDE DEF n, m, names
  <2>2. DOMAIN names = 1 .. n + m + 3
    BY <2>1, OfSequence
  <2> QED BY <2>1, <2>2 DEF Range
<1>3. header.shnum = n + m + 4 /\ header.shstrndx = n + m + 3 /\ header.shoff = PieceOf("sections").at
      /\ header.phnum = Len(MadeSegments) /\ (MadeSegments # <<>> => header.phoff = PieceOf("segments").at)
  <2>1. Len(MadeSections) = n + m + 4
    BY FinishedIs, SectionsAre
  <2>2. header = CorrectedHeader
    BY FinishedIs
  <2> HIDE DEF n, m
  <2>3. (n + m + 4) - 1 = n + m + 3
    BY <1>1
  <2> QED BY <2>1, <2>2, <2>3 DEF CorrectedHeader
<1>4. Taken /\ Written(nameTable) \in Nat /\ Written(stringTable) \in Nat /\ Len(symbols) \in Nat
  BY FinishedIs, TablesAre
<1>5. IsPiece(MadePieces, "sections", SectionSize * Len(MadeSections)) /\ Len(MadeSections) = n + m + 4
  BY <1>4, PieceSizes, SectionsAre
<1>6. "sections" \in At(header.shoff, SectionSize * header.shnum)
  BY <1>3, <1>5, PlaceOfPiece
<1>7. HasSegments => "segments" \in At(header.phoff, SegmentSize * header.phnum)
  <2>1. HasSegments => MadeSegments # <<>>
    BY SegmentsDone DEF HasSegments
  <2>2. MadeSegments # <<>> => IsPiece(MadePieces, "segments", SegmentSize * Len(MadeSegments))
    BY <1>4, PieceSizes
  <2> QED BY <1>3, <2>1, <2>2, PlaceOfPiece
<1> HIDE DEF n, m, names
<1>8. ASSUME NEW i \in 2 .. Len(sections)
      PROVE  /\ StringAt(sections[header.shstrndx + 1], sections[i].name) = {sections[i].data}
             /\ sections[i].kind # "nobits" => sections[i].data \in At(sections[i].offset, sections[i].size)
  <2>1. PICK k \in 1 .. n + m + 3 : i = 1 + k
    <3>1. i - 1 \in 1 .. n + m + 3 /\ i = 1 + (i - 1)
      BY <1>1
    <3> QED BY <3>1
  <2>2. header.shstrndx + 1 = n + m + 4
    BY <1>1, <1>3
  <2>3. StringAt(sections[n + m + 4], nameTable.at[names[k]]) = {names[k]}
    BY <1>1, <1>2, ReadName
  <2>4. /\ sections[i].data = names[k] /\ sections[i].name = nameTable.at[names[k]]
        /\ sections[i].kind # "nobits" => names[k] \in At(sections[i].offset, sections[i].size)
    BY <1>1, <2>1
  <2> QED BY <2>2, <2>3, <2>4
<1> QED BY <1>6, <1>7, <1>8, BinaryLoaded, BlockLoaded DEF FileReadsBack
-----------------------------------------------------------------------------
(* What a reader of the symbols finds.                                     *)

\* The section of the code and that of the data in memory, by their indices
LEMMA CodeSection ==
  ASSUME Finished, Given(job.bins)
  PROVE  sections[CodeIndex + 1].addr = job.bins[1].addr[1] /\ sections[CodeIndex + 1].size = job.bins[1].size
<1>1. PICK n0 \in {0, 1} :
        /\ n0 = IF command.imageDef THEN 1 ELSE 0
        /\ \A i \in 1 .. Len(job.bins) :
             /\ n0 + i \in 1 .. Len(Loaded)
             /\ Loaded[n0 + i].addr = job.bins[i].addr[1] /\ Loaded[n0 + i].size = job.bins[i].size
  BY FinishedIs, LoadedPlaces, Zenon
<1>2. 1 \in 1 .. Len(job.bins)
  <2>1. Sequence(job.bins)
    BY FinishedIs, JobIs DEF Taken
  <2>2. PICK q : q = job.bins
    OBVIOUS
  <2>3. q \in Seq(Range(q)) /\ q # <<>>
    BY <2>1, <2>2 DEF Sequence, Given
  <2>4. 1 \in 1 .. Len(q)
    BY ONLY <2>3
  <2> QED BY <2>2, <2>4
<1>3. n0 + 1 \in 1 .. Len(Loaded) /\ Loaded[n0 + 1].addr = job.bins[1].addr[1] /\ Loaded[n0 + 1].size = job.bins[1].size
  BY <1>1, <1>2, Zenon
<1>4. CodeIndex + 1 = 1 + (n0 + 1)
  <2>1. job.bins # <<>>
    BY DEF Given
  <2> QED BY <1>1, <2>1 DEF CodeIndex
<1>5. \A i \in 1 .. Len(Loaded) : sections[1 + i].addr = Loaded[i].addr /\ sections[1 + i].size = Loaded[i].size
  BY SectionsDone
<1>6. sections[1 + (n0 + 1)].addr = Loaded[n0 + 1].addr /\ sections[1 + (n0 + 1)].size = Loaded[n0 + 1].size
  BY <1>3, <1>5, Zenon
<1> QED BY <1>3, <1>4, <1>6

LEMMA VarSection ==
  ASSUME Finished
  PROVE  IF Given(job.bss)
         THEN sections[VarIndex + 1].addr = job.bss[1].addr /\ sections[VarIndex + 1].size = job.bss[1].size
         ELSE VarIndex = Absolute
<1> DEFINE n == Len(Loaded)
           m == Len(Debug)
           names == NamesOf(command)
           bss == {i \in DOMAIN sections : sections[i].data = ".bss"}
<1>1. Taken
  BY FinishedIs
<1>2. /\ n \in Nat /\ m \in Nat /\ Sequence(sections) /\ Len(sections) = n + m + 4
      /\ \A i \in 1 .. n + m + 3 : sections[1 + i].data = names[i]
      /\ \A i \in 1 .. n : sections[1 + i].addr = Loaded[i].addr /\ sections[1 + i].size = Loaded[i].size
  BY SectionsDone
<1>3. sections[1].data # ".bss"
  BY SectionsDone
<1>4. /\ Sequence(names) /\ Len(names) = n + m + 3
      /\ \A i \in 1 .. n : names[i] = Loaded[i].name
  BY <1>1, NamesAre DEF Taken, Loaded, Debug
<1>5. /\ ~Given(job.bss) => ".bss" \notin Range(names)
      /\ \A i, k \in DOMAIN names : names[i] = names[k] => i = k
  BY FinishedIs, CommandsAssumption DEF Taken, WellNamed
<1>6. job.bss # <<>> => /\ n \in 1 .. n /\ Loaded[n].name = ".bss"
                       /\ Loaded[n].addr = job.bss[1].addr /\ Loaded[n].size = job.bss[1].size
  BY FinishedIs, LoadedPlaces, Zenon
<1>7. VarIndex = IF bss = {} THEN Absolute ELSE Max(bss) - 1
  BY DEF VarIndex
<1> HIDE DEF n, m, names
<1>8. DOMAIN sections = 1 .. n + m + 4 /\ DOMAIN names = 1 .. n + m + 3
  BY <1>2, <1>4, OfSequence
<1>9. \A i \in DOMAIN sections : i \in bss <=> \E k \in DOMAIN names : i = 1 + k /\ names[k] = ".bss"
  <2> SUFFICES ASSUME NEW i \in DOMAIN sections
               PROVE  sections[i].data = ".bss" <=> \E k \in DOMAIN names : i = 1 + k /\ names[k] = ".bss"
    OBVIOUS
  <2>1. CASE i = 1
    <3>1. \A k \in DOMAIN names : i # 1 + k
      BY <1>2, <1>8, <2>1
    <3> QED BY <1>3, <2>1, <3>1
  <2>2. CASE i # 1
    <3>1. i - 1 \in 1 .. n + m + 3 /\ i = 1 + (i - 1) /\ \A k \in DOMAIN names : i = 1 + k => k = i - 1
      BY <1>2, <1>8, <2>2
    <3>2. sections[i].data = names[i - 1]
      BY <1>2, <3>1
    <3> QED BY <1>8, <3>1, <3>2
  <2> QED BY <2>1, <2>2
<1>10. CASE ~Given(job.bss)
  <2>1. \A k \in DOMAIN names : names[k] # ".bss"
    BY <1>5, <1>10 DEF Range
  <2>2. bss = {}
    BY <1>9, <2>1
  <2> QED BY <1>7, <1>10, <2>2
<1>11. CASE Given(job.bss)
  <2>1. /\ n \in 1 .. n /\ Loaded[n].name = ".bss" /\ Loaded[n].addr = job.bss[1].addr /\ Loaded[n].size = job.bss[1].size
    BY <1>6, <1>11 DEF Given
  <2>2. names[n] = ".bss" /\ n \in DOMAIN names /\ 1 + n \in DOMAIN sections
    BY <1>2, <1>4, <1>8, <2>1
  <2>3. bss = {1 + n}
    <3>1. 1 + n \in bss
      BY <1>9, <2>2
    <3>2. ASSUME NEW i \in bss PROVE i = 1 + n
      <4>1. PICK k \in DOMAIN names : i = 1 + k /\ names[k] = ".bss"
        BY <1>9
      <4> QED BY <1>5, <2>2, <4>1
    <3> HIDE DEF bss
    <3> QED BY <3>1, <3>2
  <2> HIDE DEF bss
  <2>4. Max(bss) = 1 + n
    <3>1. 1 + n >= 1 + n
      BY <1>2
    <3>2. \A x \in {1 + n} : (\A y \in {1 + n} : x >= y) <=> x = 1 + n
      BY <3>1
    <3> QED BY <2>3, <3>1, <3>2 DEF Max
  <2>5. VarIndex + 1 = 1 + n
    BY <1>2, <1>7, <2>3, <2>4
  <2> QED BY <1>2, <1>11, <2>1, <2>5
<1> QED BY <1>10, <1>11

\* All symbols but the first
Named == Range(LocalSymbols) \cup Range(GlobalSymbols)

\* Each symbol lies in its section
LEMMA SymbolsInside ==
  ASSUME Finished, NEW y \in Named
  PROVE  y.index = Absolute \/
           (sections[y.index + 1].addr <= y.value /\ y.value < sections[y.index + 1].addr + sections[y.index + 1].size)
<1>1. y \in LocalSet \cup MainSet \cup ProcSet \cup VarSet
  BY FinishedIs, SymbolsAre DEF Named
<1>2. WellPlaced(command) /\ job = JobOf(command)
  BY FinishedIs, CommandsAssumption DEF Taken
<1> DEFINE Code(v) == ~Given(job.bins) \/ LiesIn(v, job.bins[1].addr[1], job.bins[1].size)
           Data(v) == ~Given(job.bss) \/ LiesIn(v, job.bss[1].addr, job.bss[1].size)
<1>3. ASSUME NEW p \in Range(ListedProcs) PROVE Code(p.addr) /\ Code(Thumb(p.addr))
  <2>1. Given(job.rdb)
    BY <1>3, Nothing DEF ListedProcs
  <2>2. job.rdb[1] \in Range(job.rdb) /\ p \in Range(job.rdb[1].procs)
    BY <2>1, FinishedIs, ListingIs DEF ListedProcs
  <2> QED BY <1>2, <2>2 DEF WellPlaced
<1>4. ASSUME NEW v \in Range(ListedVars) PROVE Data(v.addr)
  <2>1. Given(job.rdb)
    BY <1>4, Nothing DEF ListedVars
  <2>2. job.rdb[1] \in Range(job.rdb) /\ v \in Range(job.rdb[1].vars)
    BY <2>1, FinishedIs, ListingIs DEF ListedVars
  <2> QED BY <1>2, <2>2 DEF WellPlaced
<1>5. command.main /\ job.entry # 0 => Code(Thumb(job.entry))
  BY <1>2 DEF WellPlaced
<1>6. ~Given(job.bins) => CodeIndex = Absolute
  BY DEF CodeIndex, Given
<1>7. ASSUME y.index = CodeIndex, Code(y.value)
      PROVE  y.index = Absolute \/
               (sections[y.index + 1].addr <= y.value /\ y.value < sections[y.index + 1].addr + sections[y.index + 1].size)
  BY <1>6, <1>7, CodeSection DEF LiesIn
<1>8. ASSUME y.index = VarIndex, Data(y.value)
      PROVE  y.index = Absolute \/
               (sections[y.index + 1].addr <= y.value /\ y.value < sections[y.index + 1].addr + sections[y.index + 1].size)
  BY <1>8, VarSection DEF LiesIn
<1> HIDE DEF Code, Data
<1>9. y \in LocalSet => y.index = CodeIndex /\ Code(y.value)
  BY <1>3 DEF LocalSet, Symbol
<1>10. y \in MainSet => y.index = CodeIndex /\ Code(y.value)
  BY <1>5 DEF MainSet, Symbol
<1>11. y \in ProcSet => y.index = CodeIndex /\ Code(y.value)
  BY <1>3 DEF ProcSet, Symbol
<1>12. y \in VarSet => y.index = VarIndex /\ Data(y.value)
  BY <1>4 DEF VarSet, Symbol
<1> QED BY <1>1, <1>7, <1>8, <1>9, <1>10, <1>11, <1>12

\* The entries after the first are those of the symbols, the local ones first
LEMMA EachEntry ==
  ASSUME Finished
  PROVE  /\ DOMAIN symbols = 1 .. Len(symbols)
         /\ \A i \in DOMAIN symbols : symbols[i].local <=> i <= locals
         /\ \A i \in 2 .. Len(symbols) : \E y \in Named : symbols[i] = EntryOf(y)
         /\ \A y \in Named : EntryOf(y) \in Range(symbols)
<1> DEFINE l == Len(LocalSymbols)
           g == Len(GlobalSymbols)
<1>1. /\ l \in Nat /\ g \in Nat /\ Sequence(symbols) /\ Len(symbols) = 1 + l + g /\ symbols[1] = NullSymbol
      /\ \A i \in 1 .. l : symbols[1 + i] = EntryOf(LocalSymbols[i])
      /\ \A i \in 1 .. g : symbols[1 + l + i] = EntryOf(GlobalSymbols[i])
  BY FinishedIs, EntriesAre
<1>2. /\ Sequence(LocalSymbols) /\ Sequence(GlobalSymbols)
      /\ Range(LocalSymbols) = LocalSet /\ Range(GlobalSymbols) = MainSet \cup ProcSet \cup VarSet
  BY FinishedIs, SymbolsAre
<1>3. /\ DOMAIN LocalSymbols = 1 .. l /\ DOMAIN GlobalSymbols = 1 .. g
      /\ \A y \in Range(LocalSymbols) : \E i \in 1 .. l : LocalSymbols[i] = y
      /\ \A y \in Range(GlobalSymbols) : \E i \in 1 .. g : GlobalSymbols[i] = y
  BY <1>2, OfSequence
<1>4. locals = 1 + l
  BY FinishedIs
<1>5. DOMAIN symbols = 1 .. Len(symbols)
  BY <1>1, OfSequence
<1>6. \A i \in 1 .. l : LocalSymbols[i].local = TRUE /\ LocalSymbols[i] \in Named
  <2>1. \A y \in LocalSet : y.local = TRUE
    BY DEF LocalSet, Symbol
  <2>2. \A i \in 1 .. l : LocalSymbols[i] \in Range(LocalSymbols)
    BY <1>3 DEF Range
  <2> QED BY <1>2, <2>1, <2>2 DEF Named
<1>7. \A i \in 1 .. g : GlobalSymbols[i].local = FALSE /\ GlobalSymbols[i] \in Named
  <2>1. \A y \in MainSet \cup ProcSet \cup VarSet : y.local = FALSE
    BY DEF MainSet, ProcSet, VarSet, Symbol
  <2>2. \A i \in 1 .. g : GlobalSymbols[i] \in Range(GlobalSymbols)
    BY <1>3 DEF Range
  <2> QED BY <1>2, <2>1, <2>2 DEF Named
<1> HIDE DEF l, g
<1>8. ASSUME NEW i \in 2 .. Len(symbols)
      PROVE  \E y \in Named : symbols[i] = EntryOf(y) /\ IF i <= locals THEN y.local = TRUE ELSE y.local = FALSE
  <2>1. CASE i <= 1 + l
    <3>1. i - 1 \in 1 .. l /\ 1 + (i - 1) = i
      BY <1>1, <2>1
    <3>2. symbols[i] = EntryOf(LocalSymbols[i - 1])
      BY <1>1, <3>1
    <3> QED BY <1>4, <1>6, <2>1, <3>1, <3>2
  <2>2. CASE ~(i <= 1 + l)
    <3>1. i - (1 + l) \in 1 .. g /\ 1 + l + (i - (1 + l)) = i
      BY <1>1, <2>2
    <3>2. symbols[i] = EntryOf(GlobalSymbols[i - (1 + l)])
      BY <1>1, <3>1
    <3> QED BY <1>4, <1>7, <2>2, <3>1, <3>2
  <2> QED BY <2>1, <2>2
<1>9. ASSUME NEW i \in DOMAIN symbols PROVE symbols[i].local <=> i <= locals
  <2>1. CASE i = 1
    <3>1. i <= locals
      BY <1>1, <1>4, <2>1
    <3> QED BY <1>1, <2>1, <3>1 DEF NullSymbol
  <2>2. CASE i # 1
    <3>1. i \in 2 .. Len(symbols)
      BY <1>1, <1>5, <2>2
    <3>2. PICK y \in Named : symbols[i] = EntryOf(y) /\ IF i <= locals THEN y.local = TRUE ELSE y.local = FALSE
      BY <1>8, <3>1
    <3>3. symbols[i].local = y.local
      BY <3>2 DEF EntryOf
    <3> QED BY <3>2, <3>3
  <2> QED BY <2>1, <2>2
<1>10. ASSUME NEW y \in Named PROVE EntryOf(y) \in Range(symbols)
  <2>1. CASE y \in Range(LocalSymbols)
    <3>1. PICK i \in 1 .. l : LocalSymbols[i] = y
      BY <1>3, <2>1
    <3>2. 1 + i \in DOMAIN symbols /\ symbols[1 + i] = EntryOf(y)
      BY <1>1, <1>5, <3>1
    <3> QED BY <3>2 DEF Range
  <2>2. CASE y \in Range(GlobalSymbols)
    <3>1. PICK i \in 1 .. g : GlobalSymbols[i] = y
      BY <1>3, <2>2
    <3>2. 1 + l + i \in DOMAIN symbols /\ symbols[1 + l + i] = EntryOf(y)
      BY <1>1, <1>5, <3>1
    <3> QED BY <3>2 DEF Range
  <2> QED BY <2>1, <2>2 DEF Named
<1> QED BY <1>5, <1>8, <1>9, <1>10
-----------------------------------------------------------------------------
\* A debugger finds the text of each entry
LEMMA TextFound ==
  ASSUME Finished, NEW s, At(s.offset, s.size) = {".strtab"}, NEW y \in Named
  PROVE  StringAt(s, EntryOf(y).name) = {y.text}
<1>1. y.text \in DOMAIN stringTable.at
  BY FinishedIs, StringTableIs DEF Named
<1>2. EntryOf(y).name = stringTable.at[y.text]
  BY DEF EntryOf
<1> QED BY <1>1, <1>2, ReadText

LEMMA SymbolsAreFound == Finished => SymbolsResolve
<1> SUFFICES ASSUME Finished PROVE SymbolsResolve
  OBVIOUS
<1> DEFINE n == Len(Loaded)
           m == Len(Debug)
           table == CHOOSE s \in Range(sections) : s.kind = "symbols"
           Text(x) == StringAt(sections[table.link + 1], x.name)
           Inside(x) == x.index = Absolute \/
             (sections[x.index + 1].addr <= x.value /\ x.value < sections[x.index + 1].addr + sections[x.index + 1].size)
<1>1. /\ n \in Nat /\ m \in Nat /\ Sequence(sections) /\ Len(sections) = n + m + 4
      /\ At(sections[n + m + 2].offset, sections[n + m + 2].size) = {".strtab"}
      /\ sections[n + m + 3].kind = "symbols" /\ sections[n + m + 3].link = n + m + 1
      /\ sections[n + m + 3].info = locals
      /\ \A i \in 1 .. n + m + 4 : sections[i].kind = "symbols" => i = n + m + 3
  BY SectionsDone
<1> HIDE DEF n, m
<1>2. table = sections[n + m + 3]
  <2>1. DOMAIN sections = 1 .. n + m + 4 /\ n + m + 3 \in 1 .. n + m + 4
    BY <1>1, OfSequence
  <2>2. \A s \in Range(sections) : s.kind = "symbols" <=> s = sections[n + m + 3]
    BY <1>1, <2>1 DEF Range
  <2>3. sections[n + m + 3] \in Range(sections)
    BY <2>1 DEF Range
  <2> QED BY <2>2, <2>3
<1> HIDE DEF table
<1>3. table.info = locals /\ table.link + 1 = n + m + 2
  BY <1>1, <1>2
<1>4. \A y \in Named : Text(EntryOf(y)) = {y.text}
  <2>1. At(sections[table.link + 1].offset, sections[table.link + 1].size) = {".strtab"}
    BY <1>1, <1>3
  <2> QED BY <2>1, TextFound
<1> HIDE DEF Text
<1>5. \A i \in DOMAIN symbols : symbols[i].local <=> i <= table.info
  BY <1>3, EachEntry
<1>6. ASSUME NEW i \in 2 .. Len(symbols) PROVE Inside(symbols[i])
  <2>1. PICK y \in Named : symbols[i] = EntryOf(y)
    BY EachEntry
  <2>2. symbols[i].index = y.index /\ symbols[i].value = y.value
    BY <2>1 DEF EntryOf
  <2> QED BY <2>2, SymbolsInside
<1>7. \A y \in Named : /\ EntryOf(y) \in Range(symbols) /\ EntryOf(y).local = y.local /\ EntryOf(y).value = y.value
                      /\ y.text \in Text(EntryOf(y))
  BY <1>4, EachEntry DEF EntryOf
<1>8. LocalSet \subseteq Named /\ ProcSet \subseteq Named /\ VarSet \subseteq Named
  BY FinishedIs, SymbolsAre DEF Named
<1>9. ASSUME NEW p \in Range(ListedProcs)
      PROVE  \E x, y \in Range(symbols) :
               /\ x.local /\ x.value = p.addr /\ "$t" \in Text(x)
               /\ ~y.local /\ y.value = Thumb(p.addr) /\ SymtabName(command, p.name) \in Text(y)
  <2>1. PICK a \in LocalSet : a.local = TRUE /\ a.value = p.addr /\ a.text = "$t"
    <3>1. Symbol("$t", p.addr, 0, TRUE, CodeIndex) \in LocalSet
      BY DEF LocalSet
    <3> QED BY <3>1 DEF Symbol
  <2>2. PICK b \in ProcSet : b.local = FALSE /\ b.value = Thumb(p.addr) /\ b.text = SymtabName(command, p.name)
    <3>1. Symbol(SymtabName(command, p.name), Thumb(p.addr), p.size, FALSE, CodeIndex) \in ProcSet
      BY DEF ProcSet
    <3> QED BY <3>1 DEF Symbol
  <2>3. a \in Named /\ b \in Named
    BY <1>8
  <2> QED BY <1>7, <2>1, <2>2, <2>3
<1>10. ASSUME NEW v \in Range(ListedVars)
       PROVE  \E x \in Range(symbols) : ~x.local /\ x.value = v.addr /\ SymtabName(command, v.name) \in Text(x)
  <2>1. PICK a \in VarSet : a.local = FALSE /\ a.value = v.addr /\ a.text = SymtabName(command, v.name)
    <3>1. Symbol(SymtabName(command, v.name), v.addr, v.size, FALSE, VarIndex) \in VarSet
      BY DEF VarSet
    <3> QED BY <3>1 DEF Symbol
  <2>2. a \in Named
    BY <1>8
  <2> QED BY <1>7, <2>1, <2>2
<1>11. Given(job.rdb) => ListedProcs = job.rdb[1].procs /\ ListedVars = job.rdb[1].vars
  BY DEF ListedProcs, ListedVars
<1> QED BY <1>5, <1>6, <1>9, <1>10, <1>11, Zenon DEF SymbolsResolve, table, Text, Inside

\* Readers of the file, a loader and a debugger, find in it what was meant
\* (make() of make-elf.py).
THEOREM FileIsSound == FileSpec => []FileSound
<1>1. FileInv => FileSound
  <2>1. step = "done" /\ FileInv => FileSound
    BY ReadsBack, SymbolsAreFound DEF Finished, FileSound
  <2>2. step # "done" => FileSound
    BY DEF FileSound, FileReadsBack, SymbolsResolve
  <2> QED BY <2>1, <2>2
<1>2. FileSpec => []FileInv
  BY FileIsMade
<1> QED BY <1>1, <1>2, PTL
===============================================================================
