------------------------------- MODULE ElfTest -------------------------------
(***************************************************************************)
(* The structural test of pylib/elftestengine.py: reach every procedure    *)
(* that has parameters or local variables once, and look whether GDB knows *)
(* them.  With a J-Link all breakpoints are set at once; with OpenOCD the  *)
(* few of the hardware are moved over the procedures in several passes.    *)
(*                                                                         *)
(* A procedure is a record: addr (of its breakpoint), vars (the set of its *)
(* variables), init (the initialisation of a module).  Addresses differ,   *)
(* so that a procedure is known by its own.                                *)
(***************************************************************************)
EXTENDS Integers, Sequences, SequencesExt, FiniteSets, FiniteSetsExt

CONSTANTS
  Procs,         \* the procedures
  HitLimit,      \* max_hits
  PassLimit,     \* _MAX_PASSES
  EmptyLimit,    \* _EMPTY_PASS_LIMIT
  Comparators,   \* hardware breakpoints
  LostLimit      \* bound of this model: reads of the PC that fail

ASSUME ElfTestAssumption ==
  /\ IsFiniteSet(Procs)
  /\ HitLimit \in Nat /\ PassLimit \in Nat /\ Comparators \in Nat
  /\ EmptyLimit \in Nat \ {0}

VARIABLES
  server,        \* JLink or OpenOCD
  stage,         \* start, jlink, pass, inner, passed, done
  active,        \* the procedures with a breakpoint
  candidates,    \* the procedures that wait for one
  tested,        \* tested_set
  before,        \* the number of them before this pass
  hitCount, passes, emptyPasses,
  checks,        \* per procedure: its failed checks
  skipped,       \* result.skipped
  listed,        \* the keys of result.proc_results
  lost           \* failed reads so far

elfVars ==
  <<server, stage, active, candidates, tested, before, hitCount, passes, emptyPasses,
    checks, skipped, listed, lost>>

Testable == {p \in Procs : ~p.init /\ p.vars # {}}
AllTested == Testable \subseteq tested

ElfTypeOK ==
  /\ server \in {"JLink", "OpenOCD"}
  /\ stage \in {"start", "jlink", "pass", "inner", "passed", "done"}
  /\ active \subseteq Procs
  /\ Range(candidates) \subseteq Testable
  /\ tested \subseteq Procs
  /\ hitCount \in 0 .. HitLimit
  /\ passes \in 0 .. PassLimit
  /\ emptyPasses \in 0 .. EmptyLimit
  /\ checks \in [tested -> SUBSET (UNION {p.vars : p \in Procs})]
  /\ skipped \in 0 .. Cardinality(Procs)
  /\ listed \subseteq Procs

ElfInit ==
  /\ server \in {"JLink", "OpenOCD"}
  /\ stage = "start"
  /\ active = {}
  /\ candidates = <<>>
  /\ tested = {}
  /\ before = 0
  /\ hitCount = 0
  /\ passes = 0
  /\ emptyPasses = 0
  /\ checks = <<>>
  /\ skipped = 0
  /\ listed = {}
  /\ lost = 0

-----------------------------------------------------------------------------
(* What is recorded of a procedure: a variable is missing from what GDB    *)
(* lists, or cannot be read, or is all right.                              *)

Record(p, bad) ==
  /\ tested' = tested \cup {p}
  /\ checks' = [q \in tested \cup {p} |-> IF q = p THEN bad ELSE checks[q]]
  /\ listed' = IF p.vars = {} THEN listed ELSE listed \cup {p}

\* A procedure not tested is counted, and gets an entry without checks
SkipRest ==
  /\ stage' = "done"
  /\ skipped' = skipped + Cardinality(Testable \ tested)
  /\ listed' = listed \cup (Testable \ tested)
  /\ active' = IF server = "OpenOCD" THEN {} ELSE active

-----------------------------------------------------------------------------
(* J-Link.                                                                 *)

StartJLink ==
  /\ stage = "start"
  /\ server = "JLink"
  /\ stage' = "jlink"
  /\ active' = Procs
  /\ UNCHANGED <<server, candidates, tested, before, hitCount, passes, emptyPasses, checks,
                 skipped, listed, lost>>

\* Without a procedure to test, the loop goes on to the limit of hits
JLinkGoesOn ==
  stage = "jlink" /\ hitCount < HitLimit /\ ~(Testable # {} /\ AllTested)

\* A breakpoint is removed once it was hit; the first hit of a procedure that
\* is not the initialisation of a module is recorded
JLinkHit(p) ==
  /\ JLinkGoesOn
  /\ p \in active
  /\ hitCount' = hitCount + 1
  /\ active' = active \ {p}
  /\ IF p.init THEN UNCHANGED <<tested, checks, listed>>
     ELSE \E bad \in SUBSET p.vars : Record(p, bad)
  /\ UNCHANGED <<server, stage, candidates, before, passes, emptyPasses, skipped, lost>>

\* The timer interrupts the target, or it cannot be continued
JLinkEnds ==
  /\ stage = "jlink"
  /\ SkipRest
  /\ UNCHANGED <<server, candidates, tested, before, hitCount, passes, emptyPasses, checks, lost>>

\* The loop just goes on when the PC cannot be read
PcLost ==
  /\ JLinkGoesOn \/ (stage = "inner" /\ hitCount < HitLimit /\ ~AllTested /\ active # {})
  /\ lost < LostLimit
  /\ lost' = lost + 1
  /\ UNCHANGED <<server, stage, active, candidates, tested, before, hitCount, passes,
                 emptyPasses, checks, skipped, listed>>

-----------------------------------------------------------------------------
(* OpenOCD.                                                                *)

StartOpenOCD ==
  /\ stage = "start"
  /\ server = "OpenOCD"
  /\ stage' = IF Testable = {} THEN "done" ELSE "pass"
  /\ UNCHANGED <<server, active, candidates, tested, before, hitCount, passes, emptyPasses,
                 checks, skipped, listed, lost>>

\* Breakpoints for the first of the queue, as many as there are comparators
Fill(now, queue) ==
  LET n == Min({Comparators - Cardinality(now), Len(queue)}) IN
    /\ active' = now \cup Range(SubSeq(queue, 1, n))
    /\ candidates' = SubSeq(queue, n + 1, Len(queue))

\* A pass: the procedures not yet tested, in any order
StartPass ==
  /\ stage = "pass"
  /\ passes < PassLimit /\ ~AllTested
  /\ passes' = passes + 1
  /\ before' = Cardinality(tested)
  /\ \E queue \in SetToSeqs(Testable \ tested) : Fill({}, queue)
  /\ stage' = "inner"
  /\ UNCHANGED <<server, tested, hitCount, emptyPasses, checks, skipped, listed, lost>>

\* Mutant of HwHit: the freed comparator is not used again
HwHit_NoFill(p) ==
  /\ stage = "inner" /\ hitCount < HitLimit /\ ~AllTested
  /\ p \in active
  /\ hitCount' = hitCount + 1
  /\ \E bad \in SUBSET p.vars : Record(p, bad)
  /\ active' = active \ {p}
  /\ candidates' = <<>>
  /\ UNCHANGED <<server, stage, before, passes, emptyPasses, skipped, lost>>

HwHit(p) ==
  /\ stage = "inner" /\ hitCount < HitLimit /\ ~AllTested
  /\ p \in active
  /\ hitCount' = hitCount + 1
  /\ \E bad \in SUBSET p.vars : Record(p, bad)
  /\ Fill(active \ {p}, candidates)
  /\ UNCHANGED <<server, stage, before, passes, emptyPasses, skipped, lost>>

\* All tested, no hit left, the time is over, or an error
PassEnds ==
  /\ stage = "inner"
  /\ stage' = "passed"
  /\ UNCHANGED <<server, active, candidates, tested, before, hitCount, passes, emptyPasses,
                 checks, skipped, listed, lost>>

\* After so many passes without a new procedure no further one is made
CountPass ==
  /\ stage = "passed"
  /\ emptyPasses' = IF Cardinality(tested) = before THEN emptyPasses + 1 ELSE 0
  /\ IF emptyPasses' >= EmptyLimit
     THEN SkipRest
     ELSE stage' = "pass" /\ UNCHANGED <<active, skipped, listed>>
  /\ UNCHANGED <<server, candidates, tested, before, hitCount, passes, checks, lost>>

LastPass ==
  /\ stage = "pass"
  /\ passes = PassLimit \/ AllTested
  /\ SkipRest
  /\ UNCHANGED <<server, candidates, tested, before, hitCount, passes, emptyPasses, checks, lost>>

ElfDone == stage = "done" /\ UNCHANGED elfVars

ElfNext ==
  \/ StartJLink \/ JLinkEnds \/ PcLost \/ StartOpenOCD \/ StartPass \/ PassEnds
  \/ CountPass \/ LastPass \/ ElfDone
  \/ \E p \in Procs : JLinkHit(p) \/ HwHit(p)

ElfSpec == ElfInit /\ [][ElfNext]_elfVars

-----------------------------------------------------------------------------
(* The report.                                                             *)

PassedSection == {p \in Testable : p \in listed /\ p \in tested /\ checks[p] = {}}
FailedSection == {p \in tested : checks[p] # {}}
SkippedSection == Testable \ listed

\* Hardware breakpoints are never more than the comparators
WithinComparators == server = "OpenOCD" => Cardinality(active) <= Comparators

\* In a pass, each procedure that is still to be tested has a breakpoint or
\* is in the queue for one: none is forgotten when the breakpoints move
NoneForgotten == stage = "inner" => Testable \ tested = active \cup Range(candidates)

\* In the end, every procedure with variables has been tested or is counted
\* as skipped
Accounted == stage = "done" /\ Testable # {} => skipped = Cardinality(Testable \ tested)

\* Passes that reach nothing new are few: between two procedures that are
\* reached there are never as many as the limit
FewPasses == passes <= EmptyLimit * (Cardinality(tested) + 1)

\* The passes lose no procedure, use what the hardware has, and are few
PassesSound == ElfTypeOK /\ WithinComparators /\ NoneForgotten /\ Accounted /\ FewPasses

\* Every procedure with variables is in one section of the report: tested
\* without a failure, with one, or never called
EachReported ==
  stage = "done" => Testable \subseteq PassedSection \cup FailedSection \cup SkippedSection
=============================================================================
