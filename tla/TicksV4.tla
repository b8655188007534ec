------------------------------ MODULE TicksV4 -------------------------------
(***************************************************************************)
(* Ticks and the loop of kernel-v4 (kernel-v4/Kernel.mod) on one core.     *)
(*                                                                         *)
(* The SysTick exception runs tickHandler, which makes all actors ready    *)
(* that wait for the tick.  The loop runs in thread mode, below all        *)
(* interrupts: with each tick it counts down the actors submitted to it,   *)
(* and runs those that are due from a ready queue without interrupt.       *)
(* Actors run in the handlers of their ready queues or in the loop, and    *)
(* end each run with GetTick or Submit.  Messages are left out: KernelV4.  *)
(*                                                                         *)
(* As in KernelV4, a primitive on a queue is one step, and a more urgent   *)
(* handler may run between any two steps.                                  *)
(***************************************************************************)
EXTENDS Integers, Sequences, Functions

CONSTANTS
  Actors,
  LoopActors, \* the actors that the main program starts with Submit, not RunAct
  RdyQs,      \* the ready queues installed with InstallRdyQ
  TICK,       \* the context of tickHandler
  LOOP,       \* thread mode: the main program, then the loop; also ctx.loopRdyQ
  Prio,       \* priority of each context; a higher number is more urgent
  RdyQOf,     \* the ready queue given to RunAct
  TickCounts, \* arguments of Submit
  NIL

Handlers == RdyQs \cup {TICK}
Contexts == Handlers \cup {LOOP}

ASSUME TicksAssumption ==
  /\ TICK \notin RdyQs \cup {LOOP} /\ LOOP \notin RdyQs
  /\ LoopActors \subseteq Actors
  /\ Prio \in [Contexts -> Nat]
  /\ \A h \in Handlers : Prio[h] > Prio[LOOP]
  /\ RdyQOf \in [Actors \ LoopActors -> RdyQs]
  /\ TickCounts \subseteq Nat
  /\ NIL \notin Actors

VARIABLES
  new,      \* actors not yet started
  rdyQ,     \* the actors in each ready queue, that of the loop included
  pending,  \* the handlers whose interrupt or exception is pending
  count,    \* the count flag of SysTick, cleared when read
  tickActQ, \* ctx.tickActQ
  loopActQ, \* ctx.loopActQ, and its tail pointer,
  loopTail, \* which GetFromActQ does not reset
  ticker,   \* act.ticker
  pc,       \* where each context is
  cur,      \* local act of each context
  tail,     \* local tail of the loop
  served,   \* history: actors made ready by this run of tickHandler
  due,      \* history: actors submitted before the loop began to count
  counted   \* history: actors the loop has counted down since

queues == <<new, rdyQ, tickActQ, loopActQ, loopTail, ticker>>
history == <<served, due, counted>>
vars == <<queues, pending, count, pc, cur, tail, history>>

-----------------------------------------------------------------------------
MostUrgent(c) == \A d \in Contexts \ {c} : pc[d] # "off" => Prio[d] < Prio[c]

At(c, l) == pc[c] = l /\ MostUrgent(c)

Goto(c, l) == pc' = [pc EXCEPT ![c] = l]

PutToRdyQ(r, a) ==
  /\ rdyQ' = [rdyQ EXCEPT ![r] = Append(@, a)]
  /\ pending' = IF r = LOOP THEN pending ELSE pending \cup {r}

PutToLoopActQ(a) == loopActQ' = Append(loopActQ, a) /\ loopTail' = a

HeadOf(q) == IF q = <<>> THEN NIL ELSE Head(q)
TailOf(q) == IF q = <<>> THEN q ELSE Tail(q)

-----------------------------------------------------------------------------
Init ==
  /\ new = Actors
  /\ rdyQ = [r \in RdyQs \cup {LOOP} |-> <<>>]
  /\ pending = {}
  /\ count = FALSE
  /\ tickActQ = <<>>
  /\ loopActQ = <<>>
  /\ loopTail = NIL
  /\ ticker = [a \in Actors |-> 0]
  /\ pc = [c \in Contexts |-> IF c = LOOP THEN "setup" ELSE "off"]
  /\ cur = [c \in Contexts |-> NIL]
  /\ tail = NIL
  /\ served = {}
  /\ due = {}
  /\ counted = {}

-----------------------------------------------------------------------------
(* What an actor calls to wait.                                            *)

GetTick(a) ==
  /\ tickActQ' = Append(tickActQ, a)
  /\ UNCHANGED <<loopActQ, loopTail, ticker>>

Submit(a) ==
  /\ \E n \in TickCounts : ticker' = [ticker EXCEPT ![a] = n]
  /\ PutToLoopActQ(a)
  /\ UNCHANGED tickActQ

\* The main program starts the actors, then calls Run
RunAct(a) ==
  /\ At(LOOP, "setup")
  /\ a \in new \ LoopActors
  /\ new' = new \ {a}
  /\ PutToRdyQ(RdyQOf[a], a)
  /\ UNCHANGED <<tickActQ, loopActQ, loopTail, ticker, count, pc, cur, tail, history>>

SubmitFirst(a) ==
  /\ At(LOOP, "setup")
  /\ a \in new \cap LoopActors
  /\ new' = new \ {a}
  /\ Submit(a)
  /\ UNCHANGED <<rdyQ, pending, count, pc, cur, tail, history>>

Run ==
  /\ At(LOOP, "setup")
  /\ new = {}
  /\ Goto(LOOP, "wfi")
  /\ UNCHANGED <<queues, pending, count, cur, tail, history>>

-----------------------------------------------------------------------------
(* RunQueue, in the handler of a ready queue and in the loop.              *)

Fetch(r) ==
  /\ At(r, "fetch")
  /\ rdyQ[r] # <<>>
  /\ rdyQ' = [rdyQ EXCEPT ![r] = Tail(@)]
  /\ cur' = [cur EXCEPT ![r] = Head(rdyQ[r])]
  /\ Goto(r, "run")
  /\ UNCHANGED <<new, tickActQ, loopActQ, loopTail, ticker, pending, count, tail, history>>

RunActor(r) ==
  /\ At(r, "run")
  /\ Submit(cur[r]) \/ (cur[r] \notin LoopActors /\ GetTick(cur[r]))
  /\ cur' = [cur EXCEPT ![r] = NIL]
  /\ Goto(r, "fetch")
  /\ UNCHANGED <<new, rdyQ, pending, count, tail, history>>

\* The handler of a ready queue returns
Leave(r) ==
  /\ At(r, "fetch")
  /\ rdyQ[r] = <<>>
  /\ Goto(r, "off")
  /\ UNCHANGED <<queues, pending, count, cur, tail, history>>

\* The loop starts over
StartOver ==
  /\ At(LOOP, "fetch")
  /\ rdyQ[LOOP] = <<>>
  /\ Goto(LOOP, "wfi")
  /\ due' = {}
  /\ counted' = {}
  /\ UNCHANGED <<queues, pending, count, cur, tail, served>>

-----------------------------------------------------------------------------
(* Interrupts and the tick handler.                                        *)

\* SysTick counts to zero: the flag is set, the exception becomes pending
SysTickZero ==
  /\ pc[LOOP] # "setup"
  /\ count' = TRUE
  /\ pending' = pending \cup {TICK}
  /\ UNCHANGED <<queues, pc, cur, tail, history>>

\* Mutant of TakeInterrupt: tickHandler reads the count flag, which clears it
TakeInterrupt_ReadsFlag(h) ==
  /\ h \in pending
  /\ At(h, "off")
  /\ pending' = pending \ {h}
  /\ pc' = [pc EXCEPT ![h] = IF h = TICK THEN "get" ELSE "fetch",
                      ![LOOP] = IF @ = "asleep" THEN "test" ELSE @]
  /\ count' = (count /\ h # TICK)
  /\ UNCHANGED <<queues, cur, tail, history>>

\* Any interrupt ends the sleep of the loop
TakeInterrupt(h) ==
  /\ h \in pending
  /\ At(h, "off")
  /\ pending' = pending \ {h}
  /\ pc' = [pc EXCEPT ![h] = IF h = TICK THEN "get" ELSE "fetch",
                      ![LOOP] = IF @ = "asleep" THEN "test" ELSE @]
  /\ UNCHANGED <<queues, count, cur, tail, history>>

\* GetFromActQ: an actor, or the handler returns
TickGet ==
  /\ At(TICK, "get")
  /\ \/ /\ tickActQ # <<>>
        /\ tickActQ' = Tail(tickActQ)
        /\ cur' = [cur EXCEPT ![TICK] = Head(tickActQ)]
        /\ Goto(TICK, "put")
        /\ UNCHANGED served
     \/ /\ tickActQ = <<>>
        /\ Goto(TICK, "off")
        /\ served' = {}
        /\ UNCHANGED <<tickActQ, cur>>
  /\ UNCHANGED <<new, rdyQ, loopActQ, loopTail, ticker, pending, count, tail, due, counted>>

\* Mutant of TickPut: the actor stays in the queue as well
TickPut_Requeues ==
  /\ At(TICK, "put")
  /\ PutToRdyQ(RdyQOf[cur[TICK]], cur[TICK])
  /\ tickActQ' = Append(tickActQ, cur[TICK])
  /\ served' = served \cup {cur[TICK]}
  /\ cur' = [cur EXCEPT ![TICK] = NIL]
  /\ Goto(TICK, "get")
  /\ UNCHANGED <<new, loopActQ, loopTail, ticker, count, tail, due, counted>>

TickPut ==
  /\ At(TICK, "put")
  /\ PutToRdyQ(RdyQOf[cur[TICK]], cur[TICK])
  /\ served' = served \cup {cur[TICK]}
  /\ cur' = [cur EXCEPT ![TICK] = NIL]
  /\ Goto(TICK, "get")
  /\ UNCHANGED <<new, tickActQ, loopActQ, loopTail, ticker, count, tail, due, counted>>

-----------------------------------------------------------------------------
(* The loop.                                                               *)

\* WFI returns at once when an interrupt is pending
WFI ==
  /\ At(LOOP, "wfi")
  /\ Goto(LOOP, IF pending # {} THEN "test" ELSE "asleep")
  /\ UNCHANGED <<queues, pending, count, cur, tail, history>>

\* SysTick.Tick() reads and clears the count flag
TestTick ==
  /\ At(LOOP, "test")
  /\ count' = FALSE
  /\ Goto(LOOP, IF count THEN "head" ELSE "wfi")
  /\ UNCHANGED <<queues, pending, cur, tail, history>>

TakeFirst ==
  /\ At(LOOP, "head")
  /\ cur' = [cur EXCEPT ![LOOP] = HeadOf(loopActQ)]
  /\ loopActQ' = TailOf(loopActQ)
  /\ due' = Range(loopActQ)
  /\ Goto(LOOP, "tail")
  /\ UNCHANGED <<new, rdyQ, tickActQ, loopTail, ticker, pending, count, tail, served, counted>>

\* Mutant of ReadTail: the tail is not read, the one of the last tick is kept
ReadTail_Not ==
  /\ At(LOOP, "tail")
  /\ UNCHANGED tail
  /\ Goto(LOOP, IF cur[LOOP] = NIL THEN "fetch" ELSE "count")
  /\ UNCHANGED <<queues, pending, count, cur, history>>

ReadTail ==
  /\ At(LOOP, "tail")
  /\ tail' = loopTail
  /\ Goto(LOOP, IF cur[LOOP] = NIL THEN "fetch" ELSE "count")
  /\ UNCHANGED <<queues, pending, count, cur, history>>

CountDown ==
  /\ At(LOOP, "count")
  /\ LET act == cur[LOOP] IN
       /\ ticker' = [ticker EXCEPT ![act] = @ - 1]
       /\ \/ ticker'[act] <= 0 /\ PutToRdyQ(LOOP, act) /\ UNCHANGED <<loopActQ, loopTail>>
          \/ ticker'[act] > 0 /\ PutToLoopActQ(act) /\ UNCHANGED <<rdyQ, pending>>
       /\ counted' = counted \cup {act}
       /\ Goto(LOOP, IF act # tail THEN "next" ELSE "fetch")
  /\ cur' = [cur EXCEPT ![LOOP] = NIL]
  /\ UNCHANGED <<new, tickActQ, count, tail, served, due>>

TakeNext ==
  /\ At(LOOP, "next")
  /\ cur' = [cur EXCEPT ![LOOP] = HeadOf(loopActQ)]
  /\ loopActQ' = TailOf(loopActQ)
  /\ Goto(LOOP, IF loopActQ = <<>> THEN "fetch" ELSE "count")
  /\ UNCHANGED <<new, rdyQ, tickActQ, loopTail, ticker, pending, count, tail, history>>

-----------------------------------------------------------------------------
RunNext(r) == Fetch(r) \/ RunActor(r)

Setup == Run \/ \E a \in Actors : RunAct(a) \/ SubmitFirst(a)

TickStep == TakeInterrupt(TICK) \/ TickGet \/ TickPut

RdyQStep(r) == TakeInterrupt(r) \/ RunNext(r) \/ Leave(r)

LoopStep ==
  \/ WFI \/ TestTick
  \/ TakeFirst \/ ReadTail \/ CountDown \/ TakeNext
  \/ RunNext(LOOP) \/ StartOver

Next ==
  \/ Setup
  \/ SysTickZero
  \/ TickStep
  \/ \E r \in RdyQs : RdyQStep(r)
  \/ LoopStep

Spec == Init /\ [][Next]_vars

(* The processor does not stop and SysTick goes on counting.  The load is  *)
(* below the capacity of the processor: again and again all handlers have  *)
(* returned and none is pending, and then the loop gets to make a step.    *)
SpareTime == []<>(MostUrgent(LOOP) /\ pending = {})

Fairness ==
  /\ WF_vars(Setup)
  /\ WF_vars(SysTickZero)
  /\ WF_vars(TickStep)
  /\ \A r \in RdyQs : WF_vars(RdyQStep(r))
  /\ SF_vars(LoopStep)
  /\ SpareTime

FairSpec == Spec /\ Fairness

-----------------------------------------------------------------------------
Positions(q, x) == {i \in DOMAIN q : q[i] = x}

Places(a) ==
  ({"new"} \X {LOOP} \X (IF a \in new THEN {1} ELSE {}))
  \cup (UNION {{"ready"} \X {r} \X Positions(rdyQ[r], a) : r \in RdyQs \cup {LOOP}})
  \cup ({"tick"} \X {TICK} \X Positions(tickActQ, a))
  \cup ({"submitted"} \X {LOOP} \X Positions(loopActQ, a))
  \cup ({"hand"} \X {c \in Contexts : cur[c] = a} \X {1})

(* An actor is always in exactly one queue or in the hands of one context, *)
(* although the loop and the handlers move actors between the same queues. *)
OnePlace == \A a \in Actors : \E p \in Places(a) : Places(a) = {p}

(* GetTick waits for the next tick: one run of tickHandler does not make   *)
(* the same actor ready twice.                                             *)
NextTick == pc[TICK] = "put" => cur[TICK] \notin served

(* With each tick the loop counts every actor down that was submitted      *)
(* before, and no actor twice, whatever is submitted meanwhile: the tail   *)
(* it has read is where it stops.                                          *)
CountsOnce ==
  /\ pc[LOOP] = "count" => cur[LOOP] \notin counted
  /\ pc[LOOP] = "fetch" => due \subseteq counted

(* Each actor that waits for a tick, or has been submitted, runs again.    *)
WaitersRun ==
  \A a \in Actors :
    (a \in Range(tickActQ) \cup Range(loopActQ)) ~> (\E c \in Contexts : cur[c] = a /\ pc[c] = "run")

(* What the loop counts and where it finds it stay one: an actor lost, or  *)
(* in two queues, or counted twice is the same fault seen later.           *)
LoopSound == OnePlace /\ CountsOnce
=============================================================================
