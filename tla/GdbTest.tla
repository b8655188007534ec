------------------------------- MODULE GdbTest -------------------------------
(***************************************************************************)
(* The test run of pylib/gdbtestengine.py: connect, set the breakpoints,   *)
(* then continue the target from stop to stop, each time with a timer that *)
(* posts an interrupt, and evaluate what the specification asks for.       *)
(*                                                                         *)
(* A plan is a resolved specification with its options.  The target stops  *)
(* at any breakpoint that is set, in any of the Frames, or runs on         *)
(* elsewhere until it is interrupted; how long a timer runs is left out.    *)
(***************************************************************************)
EXTENDS GdbEval

CONSTANTS Plans, Frames, Table

Elsewhere == 0
Unreadable == 0 - 1

\* A plan lists breakpoints with lists of actions, and directives, at
\* addresses; directives count in integers
IsList(s) == s \in Seq(Range(s))

ASSUME GdbTestAssumption ==
  \A p \in Plans :
    /\ p.max \in Nat
    /\ IsList(p.bps) /\ \A b \in DOMAIN p.bps : IsList(p.bps[b].actions)
    /\ IsList(p.dirs)
    /\ \A b \in DOMAIN p.bps : p.bps[b].addr[1] \in Nat \ {Elsewhere}
    /\ \A d \in DOMAIN p.dirs :
         /\ p.dirs[d].kind = "hits" => p.dirs[d].n \in Int
         /\ p.dirs[d].kind \in {"start", "stop"} =>
              /\ p.dirs[d].addr[1] \in Nat \ {Elsewhere}
              /\ p.dirs[d].cond.kind = "hits" => p.dirs[d].cond.n \in Int

\* Two prints of the same: GDB may print one word in two ways
SamePrint(p, q) == p = q \/ \E w \in 0 .. 2^WordBits - 1 : {p, q} \subseteq PrintsOf(w)
SamePrints(f, g) == DOMAIN f = DOMAIN g /\ \A n \in DOMAIN f : SamePrint(f[n], g[n])

\* Frames with the same words differ at most in how these are printed; a
\* word that serves as an address prints as one
ASSUME FramesAssumption ==
  \A s, t \in Frames : s.words = t.words =>
    /\ SamePrints(s.args, t.args) /\ SamePrints(s.locals, t.locals)
    /\ SamePrints(s.exprs, t.exprs) /\ SamePrints(s.globals, t.globals)
    /\ s.r0 = t.r0 /\ s.mem = t.mem
    /\ \A p \in Plans : \A b \in DOMAIN p.bps : \A i \in DOMAIN p.bps[b].actions :
         LET target == p.bps[b].actions[i].target IN
           target.type = "indirect" /\ ~Raises(target) => IndirectBase(s, target.ref) = IndirectBase(t, target.ref)

\* A target is of a type the parser knows, and a bit range within the word
ASSUME TargetsAssumption ==
  \A p \in Plans : \A b \in DOMAIN p.bps : \A i \in DOMAIN p.bps[b].actions :
    LET target == p.bps[b].actions[i].target IN
      /\ target.type \in {"arg", "local", "var", "return", "mem", "indirect"}
      /\ target.bits # None => target.bits[1] \in 0 .. WordBits - 1 /\ target.bits[2] \in 0 .. target.bits[1]

VARIABLES
  plan,      \* [bps, dirs, max, haltEnabled, haltOnFail]
  phase,     \* connect, loop, running, stopped, handle, done
  set,       \* the addresses GDB could set a breakpoint at
  open,      \* the test window
  hits,      \* number of stops at a breakpoint so far
  counts,    \* how often a directive with a count was reached
  pc,        \* where the target has stopped; 0 elsewhere, -1 unreadable
  frame,     \* what GDB knows there
  results,   \* [hit, bp, action, status, frame]
  reason,    \* why the run has stopped
  timers,    \* the continues whose timer is running
  pending    \* the continues whose timer has posted an interrupt

vars == <<plan, phase, set, open, hits, counts, pc, frame, results, reason, timers, pending>>

-----------------------------------------------------------------------------
(* What the directives say.                                                *)

DirsOf(kind) == {d \in DOMAIN plan.dirs : plan.dirs[d].kind = kind}

\* The sentinel at an address: of several the last one
SentinelAt(kind, a) ==
  LET ds == {d \in DirsOf(kind) : plan.dirs[d].addr = <<a>>} IN
    IF ds = {} THEN {} ELSE {Max(ds)}

HasStart == DirsOf("start") # {}
BpsAt(a) == {b \in DOMAIN plan.bps : plan.bps[b].addr = <<a>>}

AllAddrs ==
  {plan.bps[i].addr[1] : i \in DOMAIN plan.bps}
    \cup {plan.dirs[d].addr[1] : d \in DirsOf("start") \cup DirsOf("stop")}

\* The last "stop after n hits" counts, when it is below the maximum
MaxHits ==
  LET ds == DirsOf("hits") IN
    IF ds # {} /\ plan.dirs[Max(ds)].n < plan.max THEN plan.dirs[Max(ds)].n ELSE plan.max

Checks ==
  UNION {{<<b, i>> : i \in {j \in DOMAIN plan.bps[b].actions : plan.bps[b].actions[j].kind = "check"}} :
           b \in DOMAIN plan.bps}

TotalChecks == Cardinality(Checks)

-----------------------------------------------------------------------------

TypeOK ==
  /\ plan \in Plans
  /\ phase \in {"connect", "loop", "running", "stopped", "handle", "done"}
  /\ set \subseteq AllAddrs
  /\ open \in BOOLEAN
  /\ hits \in 0 .. plan.max
  /\ counts \in [DOMAIN plan.dirs -> 0 .. plan.max]
  /\ pc \in AllAddrs \cup {Elsewhere, Unreadable}
  /\ frame \in Frames
  /\ timers \subseteq 1 .. plan.max
  /\ pending \subseteq 1 .. plan.max

Init ==
  /\ plan \in Plans
  /\ phase = "connect"
  /\ set = {}
  /\ open = ~HasStart
  /\ hits = 0
  /\ counts = [d \in DOMAIN plan.dirs |-> 0]
  /\ pc = Elsewhere
  /\ frame \in Frames
  /\ results = <<>>
  /\ reason = "max_hits"
  /\ timers = {}
  /\ pending = {}

Stop(why) == phase' = "done" /\ reason' = why

ConnectFails ==
  /\ phase = "connect"
  /\ Stop("connection_failed")
  /\ UNCHANGED <<plan, set, open, hits, counts, pc, frame, results, timers, pending>>

\* Nothing is said of a breakpoint that could not be set
Connect ==
  /\ phase = "connect"
  /\ phase' = "loop"
  /\ set' \in SUBSET AllAddrs
  /\ UNCHANGED <<plan, open, hits, counts, pc, frame, results, reason, timers, pending>>

\* Mutant of Continue: the target is continued without a timer
Continue_NoTimer ==
  /\ phase = "loop"
  /\ hits < MaxHits
  /\ phase' = "running"
  /\ UNCHANGED <<plan, set, open, hits, counts, pc, frame, results, reason, timers, pending>>

Continue ==
  /\ phase = "loop"
  /\ hits < MaxHits
  /\ timers' = timers \cup {hits + 1}
  /\ phase' = "running"
  /\ UNCHANGED <<plan, set, open, hits, counts, pc, frame, results, reason, pending>>

Exhausted ==
  /\ phase = "loop"
  /\ hits >= MaxHits
  /\ Stop("max_hits")
  /\ UNCHANGED <<plan, set, open, hits, counts, pc, frame, results, timers, pending>>

\* The timer thread posts an interrupt to GDB, which sees it when it waits
\* for the target, then or later
Fire(n) ==
  /\ n \in timers
  /\ timers' = timers \ {n}
  /\ pending' = pending \cup {n}
  /\ UNCHANGED <<plan, phase, set, open, hits, counts, pc, frame, results, reason>>

\* A breakpoint is reached, whatever interrupts are posted
Break ==
  /\ phase = "running"
  /\ pc' \in set
  /\ frame' \in Frames
  /\ phase' = "stopped"
  /\ UNCHANGED <<plan, set, open, hits, counts, results, reason, timers, pending>>

Interrupt ==
  /\ phase = "running"
  /\ pending # {}
  /\ pending' = {}
  /\ pc' = Elsewhere
  /\ phase' = "stopped"
  /\ UNCHANGED <<plan, set, open, hits, counts, frame, results, reason, timers>>

\* The connection is lost while the target runs
Lost ==
  /\ phase = "running"
  /\ pc' = Unreadable
  /\ phase' = "stopped"
  /\ UNCHANGED <<plan, set, open, hits, counts, frame, results, reason, timers, pending>>

Cancel ==
  /\ phase = "stopped"
  /\ timers' = timers \ {hits + 1}
  /\ phase' = "handle"
  /\ UNCHANGED <<plan, set, open, hits, counts, pc, frame, results, reason, pending>>

NoBreakpoint ==
  /\ phase = "handle"
  /\ pc \notin AllAddrs
  /\ Stop(IF pc = Unreadable THEN "cannot read PC" ELSE "timeout")
  /\ UNCHANGED <<plan, set, open, hits, counts, pc, frame, results, timers, pending>>

-----------------------------------------------------------------------------
(* A stop at a breakpoint.                                                 *)

Reached == SentinelAt("start", pc) \cup SentinelAt("stop", pc)

NewCounts ==
  [d \in DOMAIN plan.dirs |->
     IF d \in Reached /\ plan.dirs[d].cond.kind = "hits" THEN counts[d] + 1 ELSE counts[d]]

Applies(d) == ConditionHolds(frame, plan.dirs[d].cond, NewCounts[d], Table)

Opens == open \/ \E d \in SentinelAt("start", pc) : Applies(d)

Closes == \E d \in SentinelAt("stop", pc) : Applies(d)

\* The condition of a directive is looked at: of a start directive, while the
\* window is closed
Looks == (IF open THEN {} ELSE SentinelAt("start", pc)) \cup SentinelAt("stop", pc)
ConditionsRead == \A d \in Looks : ~ConditionRaises(frame, plan.dirs[d].cond)

\* The exception ends the run; nothing looks at what has been counted
LeaveHere ==
  /\ phase = "handle"
  /\ pc \in AllAddrs
  /\ ~ConditionsRead
  /\ Stop("exception")
  /\ UNCHANGED <<plan, set, open, hits, counts, pc, frame, results, timers, pending>>

StopHere ==
  /\ phase = "handle"
  /\ pc \in AllAddrs
  /\ ConditionsRead
  /\ Closes
  /\ hits' = hits + 1
  /\ open' = Opens
  /\ counts' = NewCounts
  /\ Stop("stop")
  /\ UNCHANGED <<plan, set, pc, frame, results, timers, pending>>

Halts(a, status) == status = "FAIL" /\ (plan.haltOnFail \/ (plan.haltEnabled /\ a.halt))

\* The outcomes of the actions of breakpoint b; none after one that halts,
\* and none of one that raises an exception
AddOutcome(done, b, i) ==
  LET a == plan.bps[b].actions[i]
      status == Outcome(frame, a, plan.bps[b].proc, Table)
  IN  IF done.end # "" THEN done
      ELSE IF RaisesAt(frame, a, plan.bps[b].proc, Table) THEN [list |-> done.list, end |-> "exception"]
      ELSE [list |-> Append(done.list, [hit |-> hits + 1, bp |-> b, action |-> i,
                                        status |-> status, frame |-> frame]),
            end |-> IF Halts(a, status) THEN "halt" ELSE ""]

\* The actions of breakpoint b, one after the other
OutcomesOf(done, b) ==
  LET after[i \in 0 .. Len(plan.bps[b].actions)] ==
        IF i = 0 THEN done ELSE AddOutcome(after[i - 1], b, i)
  IN  after[Len(plan.bps[b].actions)]

\* The breakpoints at one address, in the order of the specification
Evaluate ==
  LET after[b \in 0 .. Len(plan.bps)] ==
        IF b = 0 THEN [list |-> results, end |-> ""]
        ELSE IF b \in BpsAt(pc) THEN OutcomesOf(after[b - 1], b) ELSE after[b - 1]
  IN  after[IF Opens THEN Len(plan.bps) ELSE 0]

ActionAt(r) == plan.bps[r.bp].actions[r.action]

\* Mutant of Evaluated: every outcome of a check counts
Evaluated_Each(list) == {j \in DOMAIN list : ActionAt(list[j]).kind = "check"}

\* The checks of which there is an outcome
Evaluated(list) ==
  {<<list[i].bp, list[i].action>> :
     i \in {j \in DOMAIN list : ActionAt(list[j]).kind = "check"}}

AllChecks(list) ==
  DirsOf("all_checks") # {} /\ Cardinality(Evaluated(list)) >= TotalChecks

EvaluateHere ==
  /\ phase = "handle"
  /\ pc \in AllAddrs
  /\ ConditionsRead
  /\ ~Closes
  /\ hits' = hits + 1
  /\ open' = Opens
  /\ counts' = NewCounts
  /\ \E e \in {Evaluate} :
       /\ results' = e.list
       /\ \/ e.end # "" /\ Stop(e.end)
          \/ e.end = "" /\ AllChecks(e.list) /\ Stop("all_checks")
          \/ e.end = "" /\ ~AllChecks(e.list) /\ phase' = "loop" /\ UNCHANGED reason
  /\ UNCHANGED <<plan, set, pc, frame, timers, pending>>

RunEnded == phase = "done" /\ UNCHANGED vars

Engine ==
  \/ ConnectFails \/ Connect \/ Continue \/ Exhausted \/ Interrupt
  \/ Cancel \/ NoBreakpoint \/ LeaveHere \/ StopHere \/ EvaluateHere
Stops == Break \/ Lost
Timer == \E n \in timers : Fire(n)

Next == Engine \/ Stops \/ Timer \/ RunEnded

Spec == Init /\ [][Next]_vars

(* The engine goes on, an interrupt is delivered, and a running timer      *)
(* fires; the target may run for ever without a breakpoint.  Where the     *)
(* engine is not waiting for the target, one of its actions is enabled,    *)
(* and each of them leaves the phase.                                      *)
GoesOn ==
  /\ phase \in {"connect", "loop", "stopped", "handle"}
  /\ phase' \in {"loop", "running", "handle", "done"} \ {phase}

FairSpec == Spec /\ WF_phase(GoesOn) /\ WF_vars(Interrupt) /\ WF_vars(Timer)

-----------------------------------------------------------------------------

\* The run ends because all checks were evaluated only when each check of the
\* specification has an outcome, whatever the order of the breakpoints
AllChecksSeen ==
  reason = "all_checks" =>
    \A b \in DOMAIN plan.bps : \A i \in DOMAIN plan.bps[b].actions :
      plan.bps[b].actions[i].kind = "check"
        => \E r \in Range(results) : r.bp = b /\ r.action = i

\* Nothing is evaluated after a failure that halts: the target stays there,
\* and the outcome is the last in the report
HaltIsLast ==
  \A i \in DOMAIN results :
    Halts(ActionAt(results[i]), results[i].status)
      => i = Len(results) /\ phase = "done" /\ reason = "halt"

\* Two stops at which a variable holds the same word give the same verdict,
\* in whatever form GDB prints it
SameVerdict ==
  \A x, y \in Range(results) :
    x.bp = y.bp /\ x.action = y.action /\ x.frame.words = y.frame.words
      => x.status = y.status

\* Nothing is recorded before a start directive has been reached as often as
\* its condition asks for
InWindow ==
  HasStart /\ results # <<>> =>
    \E d \in DirsOf("start") :
      plan.dirs[d].cond.kind = "hits" => counts[d] >= plan.dirs[d].cond.n

\* A timer that is running is that of the present continue: no other one can
\* post an interrupt any more.  What an earlier one has posted may still wait
\* to be delivered.
NoOldTimer == phase # "done" => timers \subseteq {hits + 1}

\* When the engine is about to report a timeout, "timeout: stopped at ...",
\* the time of the present continue has run out
TimeoutIsOwn == phase = "stopped" /\ pc = Elsewhere => hits + 1 \notin timers

\* What the run records, and when it ends, is what the specification asks for
RunSound == TypeOK /\ AllChecksSeen /\ HaltIsLast /\ InWindow /\ NoOldTimer
=============================================================================
