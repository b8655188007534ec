--------------------------- MODULE TicksV4_proofs ---------------------------
(***************************************************************************)
(* Proofs about TicksV4, for every set of actors, ready queues and         *)
(* priorities: each actor has one place, the loop counts each actor that   *)
(* was submitted down once with each tick, and, where no ready queue is    *)
(* above the tick, tickHandler makes no actor ready twice.                 *)
(***************************************************************************)
EXTENDS TicksV4, QueueLemmas

RdyQsAndLoop == RdyQs \cup {LOOP}
LoopPlaces == {"setup", "wfi", "asleep", "test", "head", "tail", "count", "next", "fetch", "run"}

TypeOK ==
  /\ new \subseteq Actors
  /\ rdyQ \in [RdyQsAndLoop -> Seq(Actors)]
  /\ tickActQ \in Seq(Actors \ LoopActors)
  /\ loopActQ \in Seq(Actors)
  /\ ticker \in [Actors -> Int]
  /\ pc \in [Contexts -> LoopPlaces \cup {"off", "get", "put"}]
  /\ pc[TICK] \in {"off", "get", "put"}
  /\ \A r \in RdyQs : pc[r] \in {"off", "fetch", "run"}
  /\ pc[LOOP] \in LoopPlaces
  /\ cur \in [Contexts -> Actors \cup {NIL}]
  /\ cur[TICK] \in (Actors \ LoopActors) \cup {NIL}
  /\ due \subseteq Actors

\* A context holds an actor exactly where it needs one
Locals ==
  /\ pc[TICK] = "put" <=> cur[TICK] # NIL
  /\ \A r \in RdyQs : pc[r] = "run" <=> cur[r] # NIL
  /\ pc[LOOP] \in {"run", "count"} => cur[LOOP] # NIL
  /\ pc[LOOP] \notin {"run", "tail", "count"} => cur[LOOP] = NIL

Typed == TypeOK /\ Locals

\* The places of actors, by which queue or context it is
Spots ==
  ({"new", "tick", "submitted"} \X {NIL}) \cup ({"ready"} \X RdyQsAndLoop)
  \cup ({"hand"} \X Contexts)

\* The actors are where spot says, and nowhere else
ActorsAt(spot) ==
  /\ spot \in [Actors -> Spots]
  /\ IsInjective(tickActQ) /\ IsInjective(loopActQ)
  /\ \A r \in RdyQsAndLoop : IsInjective(rdyQ[r])
  /\ \A a \in Actors : a \in new <=> spot[a] = <<"new", NIL>>
  /\ \A a \in Actors : a \in Range(tickActQ) <=> spot[a] = <<"tick", NIL>>
  /\ \A a \in Actors : a \in Range(loopActQ) <=> spot[a] = <<"submitted", NIL>>
  /\ \A r \in RdyQsAndLoop, a \in Actors : a \in Range(rdyQ[r]) <=> spot[a] = <<"ready", r>>
  /\ \A c \in Contexts, a \in Actors : cur[c] = a <=> spot[a] = <<"hand", c>>

ActorsLocated == \E spot : ActorsAt(spot)

\* loopTail is read only when the queue was not empty: then it is the last
TailIsLast == loopActQ # <<>> => loopTail = loopActQ[Len(loopActQ)]

\* Once the tail is read: what is due is counted, or in hand, or in the
\* queue not behind the tail, and no actor up to the tail is counted
DueUpTo(k) ==
  /\ \A i \in 1..k : loopActQ[i] \notin counted
  /\ \A a \in due : a \in counted \/ a = cur[LOOP] \/ \E i \in 1..k : loopActQ[i] = a

Counting ==
  /\ TailIsLast
  /\ pc[LOOP] \in {"setup", "wfi", "asleep", "test", "head"} => due = {} /\ counted = {}
  /\ pc[LOOP] = "tail" =>
       /\ counted = {}
       /\ due \subseteq Range(loopActQ) \cup {cur[LOOP]}
       /\ cur[LOOP] = NIL => due = {}
       /\ loopActQ = <<>> /\ cur[LOOP] # NIL => loopTail = cur[LOOP]
  /\ pc[LOOP] = "count" =>
       /\ cur[LOOP] \notin counted
       /\ \E k \in 0..Len(loopActQ) :
            tail = (IF k = 0 THEN cur[LOOP] ELSE loopActQ[k]) /\ DueUpTo(k)
  /\ pc[LOOP] = "next" => \E k \in 1..Len(loopActQ) : tail = loopActQ[k] /\ DueUpTo(k)
  /\ pc[LOOP] \in {"fetch", "run"} => due \subseteq counted

\* No ready queue is above the tick
RdyQsBelowTick == \A r \in RdyQs : Prio[r] < Prio[TICK]

\* While tickHandler runs, an actor it has made ready does not wait again
ServedOnce ==
  /\ pc[TICK] = "off" => served = {}
  /\ \A a \in served : a \in Actors /\ a \notin Range(tickActQ) /\ a # cur[TICK]

-----------------------------------------------------------------------------
(* Types and locals.                                                       *)
LEMMA TypedInit == Init => Typed
<1> SUFFICES ASSUME Init PROVE Typed
  OBVIOUS
<1>1. TypeOK
  BY TicksAssumption DEF Init, TypeOK, Contexts, Handlers, RdyQsAndLoop, LoopPlaces
<1>2. Locals
  BY TicksAssumption DEF Init, Locals, Contexts, Handlers
<1> QED BY <1>1, <1>2 DEF Typed

(* Submit and GetTick take an actor and put it to one of the queues.       *)
LEMMA SubmitTypes ==
  ASSUME TypeOK, NEW a \in Actors, Submit(a)
  PROVE  ticker' \in [Actors -> Int] /\ loopActQ' \in Seq(Actors)
<1>1. loopActQ' \in Seq(Actors)
  BY DEF TypeOK, Submit, PutToLoopActQ
<1>2. ticker' \in [Actors -> Int]
  BY TicksAssumption DEF TypeOK, Submit
<1> QED BY <1>1, <1>2

LEMMA PutToRdyQTypes ==
  ASSUME TypeOK, NEW a \in Actors, NEW r \in RdyQsAndLoop, PutToRdyQ(r, a)
  PROVE  rdyQ' \in [RdyQsAndLoop -> Seq(Actors)]
<1>1. Append(rdyQ[r], a) \in Seq(Actors)
  BY DEF TypeOK
<1> QED BY <1>1 DEF TypeOK, PutToRdyQ

LEMMA TypedStep == Typed /\ [Next]_vars => Typed'
<1> SUFFICES ASSUME Typed, [Next]_vars PROVE Typed'
  OBVIOUS
<1> USE TicksAssumption DEF Typed, TypeOK, Locals, RdyQsAndLoop, Contexts, Handlers, LoopPlaces
<1>1. ASSUME NEW a \in Actors, RunAct(a) PROVE Typed'
  <2>1. rdyQ' \in [RdyQsAndLoop -> Seq(Actors)]
    BY <1>1, PutToRdyQTypes DEF RunAct
  <2> QED BY <1>1, <2>1 DEF RunAct, history
<1>2. ASSUME NEW a \in Actors, SubmitFirst(a) PROVE Typed'
  <2>1. ticker' \in [Actors -> Int] /\ loopActQ' \in Seq(Actors)
    BY <1>2, SubmitTypes DEF SubmitFirst
  <2> QED BY <1>2, <2>1 DEF SubmitFirst, Submit, history
<1>3. ASSUME Run PROVE Typed'
  BY <1>3 DEF history, Run, At, Goto, queues
<1>4. ASSUME SysTickZero PROVE Typed'
  BY <1>4 DEF history, SysTickZero, queues
<1>5. ASSUME NEW h \in Handlers, TakeInterrupt(h) PROVE Typed'
  BY <1>5 DEF history, TakeInterrupt, At, queues
<1>6. ASSUME TickGet PROVE Typed'
  <2>1. /\ pc[TICK] = "get" /\ UNCHANGED <<new, rdyQ, loopActQ, ticker, due>>
        /\ LOOP # TICK /\ TICK \notin RdyQs
    BY <1>6 DEF TickGet, At
  <2>2. CASE tickActQ # <<>>
    <3>1. Head(tickActQ) \in Actors \ LoopActors /\ Tail(tickActQ) \in Seq(Actors \ LoopActors)
      BY <2>2, HeadAndTail
    <3>2. /\ tickActQ' = Tail(tickActQ) /\ cur' = [cur EXCEPT ![TICK] = Head(tickActQ)]
          /\ pc' = [pc EXCEPT ![TICK] = "put"]
      BY <1>6, <2>2 DEF TickGet, Goto
    <3> QED BY <2>1, <3>1, <3>2
  <2>3. CASE tickActQ = <<>>
    <3>1. UNCHANGED <<tickActQ, cur>> /\ pc' = [pc EXCEPT ![TICK] = "off"]
      BY <1>6, <2>3 DEF TickGet, Goto
    <3> QED BY <2>1, <3>1
  <2> QED BY <2>2, <2>3
<1>7. ASSUME TickPut PROVE Typed'
  <2>1. rdyQ' \in [RdyQsAndLoop -> Seq(Actors)]
    BY <1>7, PutToRdyQTypes DEF TickPut, At
  <2> QED BY <1>7, <2>1 DEF TickPut, At, Goto
<1>8. ASSUME NEW r \in RdyQsAndLoop, Fetch(r) PROVE Typed'
  <2>1. Head(rdyQ[r]) \in Actors /\ Tail(rdyQ[r]) \in Seq(Actors)
    BY <1>8, HeadAndTail DEF Fetch
  <2> QED BY <1>8, <2>1 DEF Fetch, At, Goto, history
<1>9. ASSUME NEW r \in RdyQsAndLoop, RunActor(r) PROVE Typed'
  <2>1. cur[r] \in Actors /\ pc[r] = "run"
    BY <1>9 DEF RunActor, At
  <2>2. ticker' \in [Actors -> Int] /\ loopActQ' \in Seq(Actors)
        /\ tickActQ' \in Seq(Actors \ LoopActors)
    <3>1. CASE Submit(cur[r])
      BY <2>1, <3>1, SubmitTypes DEF Submit
    <3>2. CASE cur[r] \notin LoopActors /\ GetTick(cur[r])
      BY <2>1, <3>2 DEF GetTick
    <3> QED BY <1>9, <3>1, <3>2 DEF RunActor
  <2> QED BY <1>9, <2>1, <2>2 DEF RunActor, Goto, history
<1>10. ASSUME NEW r \in RdyQs, Leave(r) PROVE Typed'
  BY <1>10 DEF history, Leave, At, Goto, queues
<1>11. ASSUME StartOver PROVE Typed'
  BY <1>11 DEF StartOver, At, Goto, queues
<1>12. ASSUME WFI PROVE Typed'
  BY <1>12 DEF history, WFI, At, Goto, queues
<1>13. ASSUME TestTick PROVE Typed'
  BY <1>13 DEF history, TestTick, At, Goto, queues
<1>14. HeadOf(loopActQ) \in Actors \cup {NIL} /\ TailOf(loopActQ) \in Seq(Actors)
       /\ (HeadOf(loopActQ) = NIL <=> loopActQ = <<>>)
  BY HeadAndTail DEF HeadOf, TailOf
<1>15. ASSUME TakeFirst PROVE Typed'
  <2>1. Range(loopActQ) \subseteq Actors
    BY DEF Range
  <2> QED BY <1>14, <1>15, <2>1 DEF TakeFirst, At, Goto
<1>16. ASSUME ReadTail PROVE Typed'
  BY <1>16 DEF history, ReadTail, At, Goto, queues
<1>17. ASSUME CountDown PROVE Typed'
  <2>1. cur[LOOP] \in Actors /\ pc[LOOP] = "count"
    BY <1>17 DEF CountDown, At
  <2>2. ticker' \in [Actors -> Int]
    BY <1>17, <2>1 DEF CountDown
  <2>3. rdyQ' \in [RdyQsAndLoop -> Seq(Actors)] /\ loopActQ' \in Seq(Actors)
    <3>1. CASE PutToRdyQ(LOOP, cur[LOOP]) /\ UNCHANGED <<loopActQ, loopTail>>
      BY <2>1, <3>1, PutToRdyQTypes
    <3>2. CASE PutToLoopActQ(cur[LOOP]) /\ UNCHANGED <<rdyQ, pending>>
      BY <2>1, <3>2 DEF PutToLoopActQ
    <3> QED BY <1>17, <3>1, <3>2 DEF CountDown
  <2> QED BY <1>17, <2>1, <2>2, <2>3 DEF CountDown, Goto
<1>18. ASSUME TakeNext PROVE Typed'
  BY <1>14, <1>18 DEF TakeNext, At, Goto, history
<1>19. CASE UNCHANGED vars
  BY <1>19 DEF vars, queues, history
<1> QED
  BY <1>1, <1>2, <1>3, <1>4, <1>5, <1>6, <1>7, <1>8, <1>9, <1>10, <1>11, <1>12, <1>13,
     <1>15, <1>16, <1>17, <1>18, <1>19
  DEF Next, Setup, TickStep, RdyQStep, LoopStep, RunNext

-----------------------------------------------------------------------------
(* One actor moves to another place; all others stay where they are.       *)
LEMMA Moved ==
  ASSUME NEW spot, ActorsAt(spot), NEW a \in Actors, NEW t \in Spots,
         IsInjective(tickActQ'), IsInjective(loopActQ'),
         \A r \in RdyQsAndLoop : IsInjective(rdyQ'[r]),
         \A b \in Actors : b \in new' <=> IF b = a THEN t = <<"new", NIL>> ELSE b \in new,
         \A b \in Actors : b \in Range(tickActQ') <=>
           IF b = a THEN t = <<"tick", NIL>> ELSE b \in Range(tickActQ),
         \A b \in Actors : b \in Range(loopActQ') <=>
           IF b = a THEN t = <<"submitted", NIL>> ELSE b \in Range(loopActQ),
         \A r \in RdyQsAndLoop, b \in Actors : b \in Range(rdyQ'[r]) <=>
           IF b = a THEN t = <<"ready", r>> ELSE b \in Range(rdyQ[r]),
         \A c \in Contexts, b \in Actors : cur'[c] = b <=>
           IF b = a THEN t = <<"hand", c>> ELSE cur[c] = b
  PROVE  ActorsLocated'
<1>1. PICK to : to = [spot EXCEPT ![a] = t]
  OBVIOUS
<1>2. to \in [Actors -> Spots] /\ \A b \in Actors : to[b] = IF b = a THEN t ELSE spot[b]
  BY <1>1 DEF ActorsAt
<1>3. \A b \in Actors : b \in new' <=> to[b] = <<"new", NIL>>
  BY <1>2 DEF ActorsAt
<1>4. \A b \in Actors : b \in Range(tickActQ') <=> to[b] = <<"tick", NIL>>
  BY <1>2 DEF ActorsAt
<1>5. \A b \in Actors : b \in Range(loopActQ') <=> to[b] = <<"submitted", NIL>>
  BY <1>2 DEF ActorsAt
<1>6. \A r \in RdyQsAndLoop, b \in Actors : b \in Range(rdyQ'[r]) <=> to[b] = <<"ready", r>>
  <2> TAKE r \in RdyQsAndLoop, b \in Actors
  <2>1. CASE b = a
    BY <1>2, <2>1
  <2>2. CASE b # a
    <3>1. b \in Range(rdyQ[r]) <=> spot[b] = <<"ready", r>>
      BY DEF ActorsAt
    <3> QED BY <1>2, <2>2, <3>1
  <2> QED BY <2>1, <2>2
<1>7. \A c \in Contexts, b \in Actors : cur'[c] = b <=> to[b] = <<"hand", c>>
  <2> TAKE c \in Contexts, b \in Actors
  <2>1. CASE b = a
    BY <1>2, <2>1
  <2>2. CASE b # a
    <3>1. cur[c] = b <=> spot[b] = <<"hand", c>>
      BY DEF ActorsAt
    <3> QED BY <1>2, <2>2, <3>1
  <2> QED BY <2>1, <2>2
<1>8. ActorsAt(to)'
  BY <1>2, <1>3, <1>4, <1>5, <1>6, <1>7 DEF ActorsAt
<1> QED BY <1>8 DEF ActorsLocated

(* A step that changes neither a queue nor what a context holds.           *)
LEMMA Stays ==
  ASSUME ActorsLocated, UNCHANGED <<new, rdyQ, tickActQ, loopActQ, cur>>
  PROVE  ActorsLocated'
<1>1. PICK spot : ActorsAt(spot)
  BY DEF ActorsLocated
<1>2. ActorsAt(spot)'
  BY <1>1 DEF ActorsAt
<1> QED BY <1>2 DEF ActorsLocated

LEMMA ActorsInit == Init => ActorsLocated
<1> SUFFICES ASSUME Init PROVE ActorsLocated
  OBVIOUS
<1> DEFINE spot == [a \in Actors |-> <<"new", NIL>>]
<1>1. spot \in [Actors -> Spots] /\ \A a \in Actors : spot[a] = <<"new", NIL>>
  BY DEF Spots
<1>2. \A q \in {<<>>} : IsInjective(q) /\ Range(q) = {}
  BY DEF IsInjective, Range
<1> HIDE DEF spot
<1>3. ActorsAt(spot)
  BY <1>1, <1>2, TicksAssumption DEF Init, ActorsAt, Contexts, Handlers, RdyQsAndLoop
<1> QED BY <1>3 DEF ActorsLocated

(* An actor that is not in a ready queue is put to one.                    *)
LEMMA PutReady ==
  ASSUME TypeOK, NEW spot, ActorsAt(spot), NEW a \in Actors, NEW r \in RdyQsAndLoop,
         spot[a][1] # "ready", PutToRdyQ(r, a)
  PROVE  /\ \A q \in RdyQsAndLoop : IsInjective(rdyQ'[q])
         /\ \A q \in RdyQsAndLoop, b \in Actors : b \in Range(rdyQ'[q]) <=>
              IF b = a THEN q = r ELSE b \in Range(rdyQ[q])
<1>1. rdyQ \in [RdyQsAndLoop -> Seq(Actors)] /\ \A q \in RdyQsAndLoop : IsInjective(rdyQ[q])
  BY DEF TypeOK, ActorsAt
<1>2. \A q \in RdyQsAndLoop : a \notin Range(rdyQ[q])
  BY DEF ActorsAt
<1>3. rdyQ' = [rdyQ EXCEPT ![r] = Append(@, a)]
  BY DEF PutToRdyQ
<1>4. /\ \A q \in RdyQsAndLoop : IsInjective(rdyQ'[q])
      /\ \A q \in RdyQsAndLoop, b \in Actors :
           b \in Range(rdyQ'[q]) <=> b \in Range(rdyQ[q]) \/ (q = r /\ b = a)
  BY <1>1, <1>2, <1>3, PutLast, SMTT(30)
<1> QED BY <1>2, <1>4

(* The same for the queue of the loop.                                     *)
LEMMA PutSubmitted ==
  ASSUME TypeOK, NEW spot, ActorsAt(spot), NEW a \in Actors, spot[a][1] # "submitted",
         PutToLoopActQ(a)
  PROVE  /\ IsInjective(loopActQ')
         /\ \A b \in Actors : b \in Range(loopActQ') <=> b = a \/ b \in Range(loopActQ)
<1>1. loopActQ \in Seq(Actors) /\ IsInjective(loopActQ) /\ a \notin Range(loopActQ)
  BY DEF TypeOK, ActorsAt
<1>2. loopActQ' = Append(loopActQ, a)
  BY DEF PutToLoopActQ
<1> QED BY <1>1, <1>2, AppendRange

(* The main program moves an actor from new to a queue.                    *)
LEMMA RunActMoves ==
  ASSUME Typed, ActorsLocated, NEW a \in Actors, RunAct(a)
  PROVE  ActorsLocated'
<1>1. PICK spot : ActorsAt(spot)
  BY DEF ActorsLocated
<1>2. PICK r \in RdyQs : r = RdyQOf[a]
  BY TicksAssumption DEF RunAct
<1>3. <<"ready", r>> \in Spots /\ spot[a] = <<"new", NIL>>
  BY <1>1 DEF Spots, RdyQsAndLoop, RunAct, ActorsAt
<1>4. /\ \A q \in RdyQsAndLoop : IsInjective(rdyQ'[q])
      /\ \A q \in RdyQsAndLoop, b \in Actors : b \in Range(rdyQ'[q]) <=>
           IF b = a THEN q = r ELSE b \in Range(rdyQ[q])
  BY <1>1, <1>2, <1>3, PutReady DEF RunAct, Typed, RdyQsAndLoop
<1>5. new' = new \ {a} /\ UNCHANGED <<tickActQ, loopActQ, cur>>
  BY DEF RunAct
<1>6. /\ a \notin Range(tickActQ) /\ a \notin Range(loopActQ) /\ \A c \in Contexts : cur[c] # a
      /\ IsInjective(tickActQ) /\ IsInjective(loopActQ)
  BY <1>1, <1>3 DEF ActorsAt
<1> QED BY <1>1, <1>3, <1>4, <1>5, <1>6, Moved

LEMMA SubmitFirstMoves ==
  ASSUME Typed, ActorsLocated, NEW a \in Actors, SubmitFirst(a)
  PROVE  ActorsLocated'
<1>1. PICK spot : ActorsAt(spot)
  BY DEF ActorsLocated
<1>2. <<"submitted", NIL>> \in Spots /\ spot[a] = <<"new", NIL>>
  BY <1>1 DEF Spots, SubmitFirst, ActorsAt
<1>3. /\ IsInjective(loopActQ')
      /\ \A b \in Actors : b \in Range(loopActQ') <=> b = a \/ b \in Range(loopActQ)
  BY <1>1, <1>2, PutSubmitted DEF SubmitFirst, Submit, Typed
<1>4. new' = new \ {a} /\ UNCHANGED <<tickActQ, rdyQ, cur>>
  BY DEF SubmitFirst, Submit
<1>5. /\ a \notin Range(tickActQ) /\ \A r \in RdyQsAndLoop : a \notin Range(rdyQ[r])
      /\ \A c \in Contexts : cur[c] # a
      /\ IsInjective(tickActQ) /\ \A r \in RdyQsAndLoop : IsInjective(rdyQ[r])
  BY <1>1, <1>2 DEF ActorsAt
<1> QED BY <1>1, <1>2, <1>3, <1>4, <1>5, Moved

(* RunQueue takes the first actor of its ready queue.                      *)
LEMMA FetchMoves ==
  ASSUME Typed, ActorsLocated, NEW r \in RdyQsAndLoop, Fetch(r)
  PROVE  ActorsLocated'
<1>1. PICK spot : ActorsAt(spot)
  BY DEF ActorsLocated
<1>2. /\ rdyQ \in [RdyQsAndLoop -> Seq(Actors)] /\ rdyQ[r] # <<>>
      /\ rdyQ' = [rdyQ EXCEPT ![r] = Tail(@)]
      /\ \A q \in RdyQsAndLoop : IsInjective(rdyQ[q])
  BY <1>1 DEF Fetch, Typed, TypeOK, ActorsAt
<1>3. PICK a \in Actors : a = Head(rdyQ[r])
  BY <1>2, HeadAndTail
<1>4. /\ a \in Range(rdyQ[r])
      /\ \A q \in RdyQsAndLoop : IsInjective(rdyQ'[q])
      /\ \A q \in RdyQsAndLoop, b \in Actors :
           b \in Range(rdyQ'[q]) <=> b \in Range(rdyQ[q]) /\ ~(q = r /\ b = a)
  <2> HIDE DEF ActorsAt
  <2>1. /\ Head(rdyQ[r]) \in Range(rdyQ[r])
        /\ \A q \in RdyQsAndLoop : IsInjective(rdyQ'[q])
        /\ \A q \in RdyQsAndLoop, b \in Actors :
             b \in Range(rdyQ'[q]) <=> b \in Range(rdyQ[q]) /\ ~(q = r /\ b = Head(rdyQ[r]))
    BY <1>2, TakeHead
  <2> QED BY <1>3, <2>1
<1>5. spot[a] = <<"ready", r>>
  BY <1>1, <1>4 DEF ActorsAt
<1>6. \A q \in RdyQsAndLoop, b \in Actors : b \in Range(rdyQ'[q]) <=>
        IF b = a THEN FALSE ELSE b \in Range(rdyQ[q])
  BY <1>1, <1>4, <1>5 DEF ActorsAt
<1>7. /\ r \in Contexts /\ cur[r] = NIL /\ cur' = [cur EXCEPT ![r] = a] /\ NIL \notin Actors
      /\ cur \in [Contexts -> Actors \cup {NIL}]
  BY <1>3, TicksAssumption
  DEF Fetch, At, Typed, TypeOK, Locals, RdyQsAndLoop, Contexts, Handlers
<1>8. <<"hand", r>> \in Spots
  BY <1>7 DEF Spots
<1>9. UNCHANGED <<new, tickActQ, loopActQ>>
  BY DEF Fetch
<1>10. \A c \in Contexts, b \in Actors : cur'[c] = b <=>
         IF b = a THEN c = r ELSE cur[c] = b
  BY <1>1, <1>5, <1>7 DEF ActorsAt
<1>11. a \notin new /\ a \notin Range(tickActQ) /\ a \notin Range(loopActQ)
       /\ IsInjective(tickActQ) /\ IsInjective(loopActQ)
  BY <1>1, <1>5 DEF ActorsAt
<1> QED BY <1>1, <1>4, <1>6, <1>8, <1>9, <1>10, <1>11, Moved

(* What a context holds when it lets its actor go.                         *)
LEMMA Released ==
  ASSUME NEW spot, ActorsAt(spot), NEW c \in Contexts, NEW a \in Actors, cur[c] = a,
         \A d \in Contexts : cur'[d] = IF d = c THEN NIL ELSE cur[d]
  PROVE  /\ spot[a] = <<"hand", c>>
         /\ \A d \in Contexts, b \in Actors : cur'[d] = b <=> b # a /\ cur[d] = b
BY TicksAssumption DEF ActorsAt

(* The actor that has run waits for the tick, or is submitted.             *)
LEMMA RunActorMoves ==
  ASSUME Typed, ActorsLocated, NEW r \in RdyQsAndLoop, RunActor(r)
  PROVE  ActorsLocated'
<1>1. PICK spot : ActorsAt(spot)
  BY DEF ActorsLocated
<1>2. r \in Contexts /\ cur[r] \in Actors
  BY TicksAssumption
  DEF RunActor, At, Typed, TypeOK, Locals, RdyQsAndLoop, Contexts, Handlers
<1>3. PICK a \in Actors : cur[r] = a
  BY <1>2
<1>4. /\ \A d \in Contexts : cur'[d] = IF d = r THEN NIL ELSE cur[d]
      /\ UNCHANGED <<new, rdyQ>>
  BY DEF RunActor, Typed, TypeOK
<1>5. /\ spot[a] = <<"hand", r>>
      /\ \A d \in Contexts, b \in Actors : cur'[d] = b <=> b # a /\ cur[d] = b
  BY <1>1, <1>2, <1>3, <1>4, Released
<1>6. /\ a \notin new /\ a \notin Range(tickActQ) /\ a \notin Range(loopActQ)
      /\ \A q \in RdyQsAndLoop : a \notin Range(rdyQ[q]) /\ IsInjective(rdyQ[q])
      /\ IsInjective(tickActQ) /\ IsInjective(loopActQ)
  BY <1>1, <1>5 DEF ActorsAt
<1>7. {<<"submitted", NIL>>, <<"tick", NIL>>} \subseteq Spots
  BY DEF Spots
<1>8. CASE Submit(a)
  <2>1. /\ IsInjective(loopActQ') /\ tickActQ' = tickActQ
        /\ \A b \in Actors : b \in Range(loopActQ') <=> b = a \/ b \in Range(loopActQ)
    BY <1>1, <1>5, <1>8, PutSubmitted DEF Submit, Typed
  <2> QED BY <1>1, <1>4, <1>5, <1>6, <1>7, <2>1, Moved
<1>9. CASE a \notin LoopActors /\ GetTick(a)
  <2>1. tickActQ \in Seq(Actors) /\ tickActQ' = Append(tickActQ, a) /\ loopActQ' = loopActQ
    BY <1>9 DEF GetTick, Typed, TypeOK
  <2>2. IsInjective(tickActQ') /\ Range(tickActQ') = Range(tickActQ) \cup {a}
    BY <1>6, <2>1, AppendRange
  <2> QED BY <1>1, <1>4, <1>5, <1>6, <1>7, <2>1, <2>2, Moved
<1> QED BY <1>3, <1>8, <1>9 DEF RunActor

(* tickHandler takes the first actor that waits for the tick,              *)
LEMMA TickGetMoves ==
  ASSUME Typed, ActorsLocated, TickGet
  PROVE  ActorsLocated'
<1>1. CASE tickActQ = <<>>
  <2>1. UNCHANGED <<new, rdyQ, tickActQ, loopActQ, cur>>
    BY <1>1 DEF TickGet
  <2> QED BY <2>1, Stays
<1>2. CASE tickActQ # <<>>
  <2>1. PICK spot : ActorsAt(spot)
    BY DEF ActorsLocated
  <2>2. /\ tickActQ \in Seq(Actors) /\ IsInjective(tickActQ) /\ tickActQ' = Tail(tickActQ)
        /\ UNCHANGED <<new, rdyQ, loopActQ>>
    BY <1>2, <2>1 DEF TickGet, Typed, TypeOK, ActorsAt
  <2>3. PICK a \in Actors : a = Head(tickActQ)
    BY <1>2, <2>2, HeadAndTail
  <2>4. /\ IsInjective(tickActQ') /\ a \in Range(tickActQ) /\ a \notin Range(tickActQ')
        /\ Range(tickActQ) = {a} \cup Range(tickActQ')
    <3>1. /\ Range(tickActQ) = {Head(tickActQ)} \cup Range(Tail(tickActQ))
          /\ IsInjective(Tail(tickActQ)) /\ Head(tickActQ) \notin Range(Tail(tickActQ))
      BY <1>2, <2>2, HeadAndTail
    <3>2. /\ Range(tickActQ) = {a} \cup Range(tickActQ')
          /\ IsInjective(tickActQ') /\ a \notin Range(tickActQ')
      BY ONLY <2>2, <2>3, <3>1
    <3> QED BY ONLY <3>2
  <2>5. spot[a] = <<"tick", NIL>>
    BY <2>1, <2>4 DEF ActorsAt
  <2>6. /\ TICK \in Contexts /\ cur[TICK] = NIL /\ cur' = [cur EXCEPT ![TICK] = a]
        /\ NIL \notin Actors /\ cur \in [Contexts -> Actors \cup {NIL}]
    BY <1>2, <2>3, TicksAssumption DEF TickGet, At, Typed, TypeOK, Locals, Contexts, Handlers
  <2>7. <<"hand", TICK>> \in Spots
    BY <2>6 DEF Spots
  <2>8. \A c \in Contexts, b \in Actors : cur'[c] = b <=>
          IF b = a THEN c = TICK ELSE cur[c] = b
    BY <2>1, <2>5, <2>6 DEF ActorsAt
  <2>9. /\ a \notin new /\ a \notin Range(loopActQ) /\ IsInjective(loopActQ)
        /\ \A q \in RdyQsAndLoop : a \notin Range(rdyQ[q]) /\ IsInjective(rdyQ[q])
    BY <2>1, <2>5 DEF ActorsAt
  <2> QED BY <2>1, <2>2, <2>4, <2>7, <2>8, <2>9, Moved
<1> QED BY <1>1, <1>2

(* and puts it to its ready queue.                                         *)
LEMMA TickPutMoves ==
  ASSUME Typed, ActorsLocated, TickPut
  PROVE  ActorsLocated'
<1>1. PICK spot : ActorsAt(spot)
  BY DEF ActorsLocated
<1>2. TICK \in Contexts /\ cur[TICK] \in Actors \ LoopActors
  BY TicksAssumption DEF TickPut, At, Typed, TypeOK, Locals, Contexts, Handlers
<1>3. PICK a \in Actors \ LoopActors : cur[TICK] = a
  BY <1>2
<1>4. PICK r \in RdyQs : r = RdyQOf[a]
  BY TicksAssumption
<1>5. /\ PutToRdyQ(r, a) /\ UNCHANGED <<new, tickActQ, loopActQ>>
      /\ \A d \in Contexts : cur'[d] = IF d = TICK THEN NIL ELSE cur[d]
  BY <1>3, <1>4 DEF TickPut, Typed, TypeOK
<1>6. /\ spot[a] = <<"hand", TICK>>
      /\ \A d \in Contexts, b \in Actors : cur'[d] = b <=> b # a /\ cur[d] = b
  BY <1>1, <1>2, <1>3, <1>5, Released
<1>7. /\ \A q \in RdyQsAndLoop : IsInjective(rdyQ'[q])
      /\ \A q \in RdyQsAndLoop, b \in Actors : b \in Range(rdyQ'[q]) <=>
           IF b = a THEN q = r ELSE b \in Range(rdyQ[q])
  BY <1>1, <1>4, <1>5, <1>6, PutReady DEF RdyQsAndLoop, Typed
<1>8. <<"ready", r>> \in Spots
  BY <1>4 DEF Spots, RdyQsAndLoop
<1>9. /\ a \notin new /\ a \notin Range(tickActQ) /\ a \notin Range(loopActQ)
      /\ IsInjective(tickActQ) /\ IsInjective(loopActQ)
  BY <1>1, <1>6 DEF ActorsAt
<1> QED BY <1>1, <1>3, <1>5, <1>6, <1>7, <1>8, <1>9, Moved

(* The loop takes the first actor that was submitted, if there is one.     *)
LEMMA TakeMoves ==
  ASSUME Typed, ActorsLocated, cur[LOOP] = NIL,
         cur' = [cur EXCEPT ![LOOP] = HeadOf(loopActQ)], loopActQ' = TailOf(loopActQ),
         UNCHANGED <<new, rdyQ, tickActQ>>
  PROVE  ActorsLocated'
<1>1. LOOP \in Contexts /\ NIL \notin Actors /\ cur \in [Contexts -> Actors \cup {NIL}]
  BY TicksAssumption DEF Typed, TypeOK, Contexts
<1>2. CASE loopActQ = <<>>
  <2>1. UNCHANGED <<new, rdyQ, tickActQ, loopActQ, cur>>
    BY <1>1, <1>2 DEF HeadOf, TailOf
  <2> QED BY <2>1, Stays
<1>3. CASE loopActQ # <<>>
  <2>1. PICK spot : ActorsAt(spot)
    BY DEF ActorsLocated
  <2>2. loopActQ \in Seq(Actors) /\ IsInjective(loopActQ) /\ loopActQ' = Tail(loopActQ)
    BY <1>3, <2>1 DEF Typed, TypeOK, ActorsAt, TailOf
  <2>3. PICK a \in Actors : a = Head(loopActQ)
    BY <1>3, <2>2, HeadAndTail
  <2>4. /\ IsInjective(loopActQ') /\ a \in Range(loopActQ) /\ a \notin Range(loopActQ')
        /\ Range(loopActQ) = {a} \cup Range(loopActQ')
    <3>1. /\ Range(loopActQ) = {Head(loopActQ)} \cup Range(Tail(loopActQ))
          /\ IsInjective(Tail(loopActQ)) /\ Head(loopActQ) \notin Range(Tail(loopActQ))
      BY <1>3, <2>2, HeadAndTail
    <3>2. /\ Range(loopActQ) = {a} \cup Range(loopActQ')
          /\ IsInjective(loopActQ') /\ a \notin Range(loopActQ')
      BY ONLY <2>2, <2>3, <3>1
    <3> QED BY ONLY <3>2
  <2>5. spot[a] = <<"submitted", NIL>> /\ cur' = [cur EXCEPT ![LOOP] = a]
    BY <1>3, <2>1, <2>3, <2>4 DEF ActorsAt, HeadOf
  <2>6. <<"hand", LOOP>> \in Spots
    BY <1>1 DEF Spots
  <2>7. \A c \in Contexts, b \in Actors : cur'[c] = b <=>
          IF b = a THEN c = LOOP ELSE cur[c] = b
    BY <1>1, <2>1, <2>5 DEF ActorsAt
  <2>8. /\ a \notin new /\ a \notin Range(tickActQ) /\ IsInjective(tickActQ)
        /\ \A q \in RdyQsAndLoop : a \notin Range(rdyQ[q]) /\ IsInjective(rdyQ[q])
    BY <2>1, <2>5 DEF ActorsAt
  <2> QED BY <2>1, <2>4, <2>6, <2>7, <2>8, Moved
<1> QED BY <1>2, <1>3

(* The loop makes the actor it has counted down ready, or submits it again. *)
LEMMA CountDownMoves ==
  ASSUME Typed, ActorsLocated, CountDown
  PROVE  ActorsLocated'
<1>1. PICK spot : ActorsAt(spot)
  BY DEF ActorsLocated
<1>2. LOOP \in Contexts /\ LOOP \in RdyQsAndLoop /\ cur[LOOP] \in Actors
  BY TicksAssumption DEF CountDown, At, Typed, TypeOK, Locals, Contexts, RdyQsAndLoop
<1>3. PICK a \in Actors : cur[LOOP] = a
  BY <1>2
<1>4. /\ \A d \in Contexts : cur'[d] = IF d = LOOP THEN NIL ELSE cur[d]
      /\ UNCHANGED <<new, tickActQ>>
  BY DEF CountDown, Typed, TypeOK
<1>5. /\ spot[a] = <<"hand", LOOP>>
      /\ \A d \in Contexts, b \in Actors : cur'[d] = b <=> b # a /\ cur[d] = b
  BY <1>1, <1>2, <1>3, <1>4, Released
<1>6. /\ a \notin new /\ a \notin Range(tickActQ) /\ a \notin Range(loopActQ)
      /\ \A q \in RdyQsAndLoop : a \notin Range(rdyQ[q]) /\ IsInjective(rdyQ[q])
      /\ IsInjective(tickActQ) /\ IsInjective(loopActQ)
  BY <1>1, <1>5 DEF ActorsAt
<1>7. <<"submitted", NIL>> \in Spots /\ <<"ready", LOOP>> \in Spots
  BY <1>2 DEF Spots
<1>8. CASE PutToRdyQ(LOOP, a) /\ loopActQ' = loopActQ
  <2>1. /\ \A q \in RdyQsAndLoop : IsInjective(rdyQ'[q])
        /\ \A q \in RdyQsAndLoop, b \in Actors : b \in Range(rdyQ'[q]) <=>
             IF b = a THEN q = LOOP ELSE b \in Range(rdyQ[q])
    BY <1>1, <1>2, <1>5, <1>8, PutReady DEF Typed
  <2> QED BY <1>1, <1>4, <1>5, <1>6, <1>7, <1>8, <2>1, Moved
<1>9. CASE PutToLoopActQ(a) /\ rdyQ' = rdyQ
  <2>1. /\ IsInjective(loopActQ')
        /\ \A b \in Actors : b \in Range(loopActQ') <=> b = a \/ b \in Range(loopActQ)
    BY <1>1, <1>5, <1>9, PutSubmitted DEF Typed
  <2> QED BY <1>1, <1>4, <1>5, <1>6, <1>7, <1>9, <2>1, Moved
<1> QED BY <1>3, <1>8, <1>9 DEF CountDown

LEMMA ActorsStep == Typed /\ ActorsLocated /\ [Next]_vars => ActorsLocated'
<1> SUFFICES ASSUME Typed, ActorsLocated, [Next]_vars PROVE ActorsLocated'
  OBVIOUS
<1>1. CASE Setup
  <2>1. Run => UNCHANGED <<new, rdyQ, tickActQ, loopActQ, cur>>
    BY DEF Run, queues
  <2> QED BY <1>1, <2>1, RunActMoves, SubmitFirstMoves, Stays DEF Setup
<1>2. CASE SysTickZero \/ UNCHANGED vars
  <2>1. UNCHANGED <<new, rdyQ, tickActQ, loopActQ, cur>>
    BY <1>2 DEF SysTickZero, vars, queues
  <2> QED BY <2>1, Stays
<1>3. CASE TickStep
  <2>1. TakeInterrupt(TICK) => UNCHANGED <<new, rdyQ, tickActQ, loopActQ, cur>>
    BY DEF TakeInterrupt, queues
  <2> QED BY <1>3, <2>1, TickGetMoves, TickPutMoves, Stays DEF TickStep
<1>4. ASSUME NEW r \in RdyQs, RdyQStep(r) PROVE ActorsLocated'
  <2>1. TakeInterrupt(r) \/ Leave(r) => UNCHANGED <<new, rdyQ, tickActQ, loopActQ, cur>>
    BY DEF TakeInterrupt, Leave, queues
  <2> QED BY <1>4, <2>1, FetchMoves, RunActorMoves, Stays DEF RdyQStep, RunNext, RdyQsAndLoop
<1>5. CASE LoopStep
  <2>1. WFI \/ TestTick \/ ReadTail \/ StartOver => UNCHANGED <<new, rdyQ, tickActQ, loopActQ, cur>>
    BY DEF WFI, TestTick, ReadTail, StartOver, queues
  <2>2. TakeFirst \/ TakeNext =>
          /\ cur[LOOP] = NIL /\ cur' = [cur EXCEPT ![LOOP] = HeadOf(loopActQ)]
          /\ loopActQ' = TailOf(loopActQ) /\ UNCHANGED <<new, rdyQ, tickActQ>>
    BY DEF TakeFirst, TakeNext, At, Typed, Locals
  <2> QED
    BY <1>5, <2>1, <2>2, TakeMoves, CountDownMoves, FetchMoves, RunActorMoves, Stays
    DEF LoopStep, RunNext, RdyQsAndLoop
<1> QED BY <1>1, <1>2, <1>3, <1>4, <1>5 DEF Next

-----------------------------------------------------------------------------
(* What is at one spot, at one position of a queue, is in one place.       *)
LEMMA OnePosition ==
  ASSUME NEW q, NEW x, IsInjective(q)
  PROVE  /\ x \notin Range(q) => Positions(q, x) = {}
         /\ x \in Range(q) => \E i : Positions(q, x) = {i}
BY DEF Positions, Range, IsInjective

LEMMA PlacesAre ==
  ASSUME NEW a, NEW x
  PROVE  x \in Places(a) <=>
           \/ a \in new /\ x = <<"new", LOOP, 1>>
           \/ \E r \in RdyQsAndLoop : \E i \in Positions(rdyQ[r], a) : x = <<"ready", r, i>>
           \/ \E i \in Positions(tickActQ, a) : x = <<"tick", TICK, i>>
           \/ \E i \in Positions(loopActQ, a) : x = <<"submitted", LOOP, i>>
           \/ \E c \in Contexts : cur[c] = a /\ x = <<"hand", c, 1>>
<1> DEFINE New == {"new"} \X {LOOP} \X (IF a \in new THEN {1} ELSE {})
           Ready == UNION {{"ready"} \X {r} \X Positions(rdyQ[r], a) : r \in RdyQs \cup {LOOP}}
           Tick == {"tick"} \X {TICK} \X Positions(tickActQ, a)
           Submitted == {"submitted"} \X {LOOP} \X Positions(loopActQ, a)
           InHand == {"hand"} \X {c \in Contexts : cur[c] = a} \X {1}
<1>1. \A k, S, T : x \in {k} \X S \X T <=> \E s \in S, t \in T : x = <<k, s, t>>
  OBVIOUS
<1>2. x \in New <=> a \in new /\ x = <<"new", LOOP, 1>>
  BY <1>1
<1>3. x \in Ready <=>
        \E r \in RdyQsAndLoop : \E i \in Positions(rdyQ[r], a) : x = <<"ready", r, i>>
  <2>1. x \in Ready <=> \E r \in RdyQsAndLoop : x \in {"ready"} \X {r} \X Positions(rdyQ[r], a)
    BY DEF RdyQsAndLoop
  <2> QED BY <1>1, <2>1
<1>4. x \in Tick <=> \E i \in Positions(tickActQ, a) : x = <<"tick", TICK, i>>
  BY <1>1
<1>5. x \in Submitted <=> \E i \in Positions(loopActQ, a) : x = <<"submitted", LOOP, i>>
  BY <1>1
<1>6. x \in InHand <=> \E c \in Contexts : cur[c] = a /\ x = <<"hand", c, 1>>
  BY <1>1
<1>7. Places(a) = New \cup Ready \cup Tick \cup Submitted \cup InHand
  BY Zenon DEF Places
<1> HIDE DEF New, Ready, Tick, Submitted, InHand
<1> QED BY <1>2, <1>3, <1>4, <1>5, <1>6, <1>7

LEMMA LocatedOnce == ActorsLocated => OnePlace
<1> SUFFICES ASSUME ActorsLocated, NEW a \in Actors
             PROVE  \E p \in Places(a) : Places(a) = {p}
  BY DEF OnePlace
<1> DEFINE Once == \E p \in Places(a) : Places(a) = {p}
<1>1. PICK spot : ActorsAt(spot)
  BY DEF ActorsLocated
<1>2. /\ a \in new <=> spot[a] = <<"new", NIL>>
      /\ \A r \in RdyQsAndLoop : IF spot[a] = <<"ready", r>> THEN \E i : Positions(rdyQ[r], a) = {i}
                                  ELSE Positions(rdyQ[r], a) = {}
      /\ IF spot[a] = <<"tick", NIL>> THEN \E i : Positions(tickActQ, a) = {i}
         ELSE Positions(tickActQ, a) = {}
      /\ IF spot[a] = <<"submitted", NIL>> THEN \E i : Positions(loopActQ, a) = {i}
         ELSE Positions(loopActQ, a) = {}
      /\ \A c \in Contexts : cur[c] = a <=> spot[a] = <<"hand", c>>
  BY <1>1, OnePosition DEF ActorsAt
<1>3. spot[a] \in Spots
  BY <1>1 DEF ActorsAt
<1>4. ASSUME spot[a] = <<"new", NIL>> PROVE Once
  <2>1. Places(a) = {<<"new", LOOP, 1>>}
    BY <1>2, <1>4, PlacesAre
  <2> QED BY <2>1
<1>5. ASSUME NEW r \in RdyQsAndLoop, spot[a] = <<"ready", r>> PROVE Once
  <2>1. PICK i : Positions(rdyQ[r], a) = {i}
    BY <1>2, <1>5
  <2>2. Places(a) = {<<"ready", r, i>>}
    BY <1>2, <1>5, <2>1, PlacesAre
  <2> QED BY <2>2
<1>6. ASSUME spot[a] = <<"tick", NIL>> PROVE Once
  <2>1. PICK i : Positions(tickActQ, a) = {i}
    BY <1>2, <1>6
  <2>2. Places(a) = {<<"tick", TICK, i>>}
    BY <1>2, <1>6, <2>1, PlacesAre
  <2> QED BY <2>2
<1>7. ASSUME spot[a] = <<"submitted", NIL>> PROVE Once
  <2>1. PICK i : Positions(loopActQ, a) = {i}
    BY <1>2, <1>7
  <2>2. Places(a) = {<<"submitted", LOOP, i>>}
    BY <1>2, <1>7, <2>1, PlacesAre
  <2> QED BY <2>2
<1>8. ASSUME NEW c \in Contexts, spot[a] = <<"hand", c>> PROVE Once
  <2>1. Places(a) = {<<"hand", c, 1>>}
    BY <1>2, <1>8, PlacesAre
  <2> QED BY <2>1
<1> HIDE DEF Once
<1>9. Once
  BY <1>3, <1>4, <1>5, <1>6, <1>7, <1>8 DEF Spots
<1> QED BY <1>9 DEF Once

-----------------------------------------------------------------------------
(* What the loop counts.                                                   *)
LEMMA CountingInit == Init => Counting
BY TicksAssumption DEF Init, Counting, TailIsLast, Contexts, Handlers

(* Nothing that the loop counts by changes.                                *)
LEMMA CountingStays ==
  ASSUME Counting, UNCHANGED <<loopActQ, loopTail, tail, due, counted>>,
         pc'[LOOP] = pc[LOOP], cur'[LOOP] = cur[LOOP]
  PROVE  Counting'
BY DEF Counting, TailIsLast, DueUpTo

(* What others submit meanwhile comes behind the tail.                     *)
LEMMA CountingAppends ==
  ASSUME Typed, Counting, NEW a \in Actors, PutToLoopActQ(a), UNCHANGED <<tail, due, counted>>,
         pc'[LOOP] = pc[LOOP], cur'[LOOP] = cur[LOOP]
  PROVE  Counting'
<1>1. /\ loopActQ \in Seq(Actors) /\ loopActQ' = Append(loopActQ, a) /\ loopTail' = a
  BY DEF Typed, TypeOK, PutToLoopActQ
<1>2. /\ Len(loopActQ) \in Nat /\ Len(loopActQ') = Len(loopActQ) + 1 /\ loopActQ' # <<>>
      /\ \A i \in 1..Len(loopActQ) : loopActQ'[i] = loopActQ[i]
      /\ loopActQ'[Len(loopActQ')] = a
  BY <1>1
<1>3. Range(loopActQ) \subseteq Range(loopActQ')
  BY <1>1, AppendRange
<1>4. \A k \in 0..Len(loopActQ) :
        /\ k \in 0..Len(loopActQ') /\ (k > 0 => k \in 1..Len(loopActQ'))
        /\ \A i \in 1..k : loopActQ'[i] = loopActQ[i]
        /\ k > 0 => loopActQ'[k] = loopActQ[k]
  BY <1>2
<1>5. \A k \in 0..Len(loopActQ) : DueUpTo(k) => DueUpTo(k)'
  BY <1>4 DEF DueUpTo
<1>6. TailIsLast'
  BY <1>1, <1>2 DEF TailIsLast
<1>7. pc[LOOP] = "tail" =>
        /\ counted' = {}
        /\ due' \subseteq Range(loopActQ') \cup {cur'[LOOP]}
        /\ cur'[LOOP] = NIL => due' = {}
        /\ loopActQ' = <<>> /\ cur'[LOOP] # NIL => loopTail' = cur'[LOOP]
  BY <1>2, <1>3 DEF Counting
<1>8. pc[LOOP] = "count" =>
        /\ cur'[LOOP] \notin counted'
        /\ \E k \in 0..Len(loopActQ') :
             tail' = (IF k = 0 THEN cur'[LOOP] ELSE loopActQ'[k]) /\ DueUpTo(k)'
  <2> SUFFICES ASSUME pc[LOOP] = "count"
               PROVE  /\ cur'[LOOP] \notin counted'
                      /\ \E k \in 0..Len(loopActQ') :
                           tail' = (IF k = 0 THEN cur'[LOOP] ELSE loopActQ'[k]) /\ DueUpTo(k)'
    OBVIOUS
  <2>1. PICK k \in 0..Len(loopActQ) :
          tail = (IF k = 0 THEN cur[LOOP] ELSE loopActQ[k]) /\ DueUpTo(k)
    BY DEF Counting
  <2>2. tail' = (IF k = 0 THEN cur'[LOOP] ELSE loopActQ'[k]) /\ DueUpTo(k)'
    BY <1>2, <1>4, <1>5, <2>1
  <2> QED BY <1>4, <2>2 DEF Counting
<1>9. pc[LOOP] = "next" => \E k \in 1..Len(loopActQ') : tail' = loopActQ'[k] /\ DueUpTo(k)'
  <2> SUFFICES ASSUME pc[LOOP] = "next"
               PROVE  \E k \in 1..Len(loopActQ') : tail' = loopActQ'[k] /\ DueUpTo(k)'
    OBVIOUS
  <2>1. PICK k \in 1..Len(loopActQ) : tail = loopActQ[k] /\ DueUpTo(k)
    BY DEF Counting
  <2>2. k \in 0..Len(loopActQ)
    BY <1>2
  <2> QED BY <1>2, <1>4, <1>5, <2>1, <2>2
<1> QED BY <1>6, <1>7, <1>8, <1>9 DEF Counting

LEMMA TakeFirstCounts ==
  ASSUME Typed, Counting, TakeFirst
  PROVE  Counting'
<1>1. /\ pc[LOOP] = "head" /\ counted' = {} /\ due' = Range(loopActQ) /\ loopTail' = loopTail
      /\ pc'[LOOP] = "tail" /\ cur'[LOOP] = HeadOf(loopActQ) /\ loopActQ' = TailOf(loopActQ)
      /\ loopActQ \in Seq(Actors)
  BY TicksAssumption DEF TakeFirst, At, Goto, Counting, Typed, TypeOK, Contexts
<1>2. CASE loopActQ = <<>>
  <2>1. Range(loopActQ) = {} /\ cur'[LOOP] = NIL /\ loopActQ' = <<>>
    BY <1>1, <1>2 DEF Range, HeadOf, TailOf
  <2> QED BY <1>1, <2>1 DEF Counting, TailIsLast
<1>3. CASE loopActQ # <<>>
  <2>1. /\ cur'[LOOP] = Head(loopActQ) /\ loopActQ' = Tail(loopActQ)
        /\ Range(loopActQ) = {Head(loopActQ)} \cup Range(Tail(loopActQ))
        /\ Head(loopActQ) \in Actors /\ NIL \notin Actors
    BY <1>1, <1>3, HeadAndTail, TicksAssumption DEF HeadOf, TailOf
  <2>2. loopTail = loopActQ[Len(loopActQ)]
    BY <1>3 DEF Counting, TailIsLast
  <2>3. /\ Tail(loopActQ) = <<>> => loopActQ[Len(loopActQ)] = Head(loopActQ)
        /\ Tail(loopActQ) # <<>> =>
             loopActQ[Len(loopActQ)] = Tail(loopActQ)[Len(Tail(loopActQ))]
    BY <1>1, <1>3
  <2> QED BY <1>1, <2>1, <2>2, <2>3 DEF Counting, TailIsLast
<1> QED BY <1>2, <1>3

LEMMA ReadTailCounts ==
  ASSUME Typed, Counting, ReadTail
  PROVE  Counting'
<1>1. /\ pc[LOOP] = "tail" /\ tail' = loopTail
      /\ UNCHANGED <<loopActQ, loopTail, cur, due, counted>>
      /\ pc'[LOOP] = IF cur[LOOP] = NIL THEN "fetch" ELSE "count"
      /\ loopActQ \in Seq(Actors)
  BY TicksAssumption
  DEF ReadTail, At, Goto, queues, history, Typed, TypeOK, Contexts
<1>2. counted = {} /\ due \subseteq Range(loopActQ) \cup {cur[LOOP]} /\ TailIsLast
      /\ (cur[LOOP] = NIL => due = {}) /\ (loopActQ = <<>> /\ cur[LOOP] # NIL => loopTail = cur[LOOP])
  BY <1>1 DEF Counting
<1>3. TailIsLast'
  BY <1>1, <1>2 DEF TailIsLast
<1>4. CASE cur[LOOP] = NIL
  BY <1>1, <1>2, <1>3, <1>4 DEF Counting
<1>5. CASE cur[LOOP] # NIL
  <2>1. PICK k \in Nat : k = Len(loopActQ)
    BY <1>1
  <2>2. k \in 0..Len(loopActQ') /\ (k = 0 <=> loopActQ = <<>>) /\ DOMAIN loopActQ = 1..k
    BY <1>1, <2>1
  <2>3. tail' = IF k = 0 THEN cur'[LOOP] ELSE loopActQ'[k]
    BY <1>1, <1>2, <1>5, <2>1, <2>2 DEF TailIsLast
  <2>4. DueUpTo(k)'
    BY <1>1, <1>2, <2>2 DEF DueUpTo, Range
  <2> QED BY <1>1, <1>2, <1>3, <1>5, <2>2, <2>3, <2>4 DEF Counting
<1> QED BY <1>4, <1>5

LEMMA CountDownCounts ==
  ASSUME Typed, ActorsLocated, Counting, CountDown
  PROVE  Counting'
<1>1. PICK act \in Actors : act = cur[LOOP]
  BY TicksAssumption DEF CountDown, At, Typed, TypeOK, Locals, Contexts
<1>2. /\ pc[LOOP] = "count" /\ counted' = counted \cup {act} /\ UNCHANGED <<tail, due>>
      /\ pc'[LOOP] = (IF act # tail THEN "next" ELSE "fetch")
      /\ loopActQ \in Seq(Actors)
  BY <1>1, TicksAssumption DEF CountDown, At, Goto, Typed, TypeOK, Contexts
<1>3. act \notin Range(loopActQ)
  BY <1>1, TicksAssumption DEF ActorsLocated, ActorsAt, Contexts
<1>4. PICK k \in 0..Len(loopActQ) :
        tail = (IF k = 0 THEN act ELSE loopActQ[k]) /\ DueUpTo(k)
  BY <1>1, <1>2 DEF Counting
<1>5. \A i \in 1..k : loopActQ[i] # act /\ i \in DOMAIN loopActQ
  BY <1>2, <1>3, <1>4 DEF Range
<1>6. act # tail <=> k # 0
  BY <1>4, <1>5
<1>7. /\ \A i \in 1..k : loopActQ[i] \notin counted'
      /\ \A a \in due : a \in counted' \/ \E i \in 1..k : loopActQ[i] = a
  BY <1>1, <1>2, <1>4, <1>5 DEF DueUpTo
<1>8. /\ TailIsLast'
      /\ k \in 0..Len(loopActQ')
      /\ \A i \in 1..k : loopActQ'[i] = loopActQ[i]
  <2>1. CASE UNCHANGED <<loopActQ, loopTail>>
    BY <1>4, <2>1 DEF Counting, TailIsLast
  <2>2. CASE PutToLoopActQ(act)
    BY <1>2, <1>4, <2>2 DEF PutToLoopActQ, TailIsLast
  <2> QED BY <1>1, <2>1, <2>2 DEF CountDown
<1>9. CASE k = 0
  <2>1. pc'[LOOP] = "fetch" /\ due' \subseteq counted'
    BY <1>2, <1>6, <1>7, <1>9
  <2> QED BY <1>8, <2>1 DEF Counting
<1>10. CASE k # 0
  <2>1. pc'[LOOP] = "next" /\ k \in 1..Len(loopActQ') /\ tail' = loopActQ'[k]
    BY <1>2, <1>4, <1>6, <1>8, <1>10
  <2>2. DueUpTo(k)'
    BY <1>2, <1>7, <1>8 DEF DueUpTo
  <2> QED BY <1>8, <2>1, <2>2 DEF Counting
<1> QED BY <1>9, <1>10

LEMMA TakeNextCounts ==
  ASSUME Typed, Counting, TakeNext
  PROVE  Counting'
<1>1. pc[LOOP] = "next" /\ UNCHANGED <<loopTail, tail, due, counted>> /\ loopActQ \in Seq(Actors)
      /\ cur[LOOP] = NIL
  BY DEF TakeNext, At, history, Typed, TypeOK, Locals
<1>2. PICK k \in 1..Len(loopActQ) : tail = loopActQ[k] /\ DueUpTo(k)
  BY <1>1 DEF Counting
<1>3. loopActQ # <<>>
  BY <1>1, <1>2
<1>4. /\ pc'[LOOP] = "count" /\ cur'[LOOP] = loopActQ[1] /\ loopActQ' = Tail(loopActQ)
  BY <1>1, <1>3, TicksAssumption
  DEF TakeNext, Goto, HeadOf, TailOf, Typed, TypeOK, Contexts
<1>5. /\ Len(loopActQ) \in Nat /\ Len(loopActQ') = Len(loopActQ) - 1
      /\ \A i \in 1..(Len(loopActQ) - 1) : loopActQ'[i] = loopActQ[i + 1]
  BY <1>1, <1>3, <1>4
<1>6. PICK j \in 0..Len(loopActQ') : j = k - 1
  BY <1>2, <1>5
<1>7. \A i \in 1..j : loopActQ'[i] = loopActQ[i + 1] /\ i + 1 \in 1..k
  BY <1>2, <1>5, <1>6
<1>8. \A i \in 2..k : i - 1 \in 1..j /\ loopActQ[i] = loopActQ'[i - 1]
  BY <1>2, <1>5, <1>6
<1>9. tail' = IF j = 0 THEN cur'[LOOP] ELSE loopActQ'[j]
  BY <1>1, <1>2, <1>4, <1>6, <1>7
<1>10. cur'[LOOP] \notin counted'
  BY <1>1, <1>2, <1>4 DEF DueUpTo
<1>11. DueUpTo(j)'
  <2>1. \A i \in 1..j : loopActQ'[i] \notin counted'
    BY <1>1, <1>2, <1>7 DEF DueUpTo
  <2>2. ASSUME NEW a \in due', a \notin counted', a # cur'[LOOP]
        PROVE  \E i \in 1..j : loopActQ'[i] = a
    <3>1. a # NIL /\ a \in due
      BY <1>1, <2>2, TicksAssumption DEF Typed, TypeOK
    <3>2. \E i \in 1..k : loopActQ[i] = a
      BY <1>1, <1>2, <2>2, <3>1 DEF DueUpTo
    <3> QED BY <1>1, <1>2, <1>4, <1>8, <2>2, <3>2
  <2> QED BY <2>1, <2>2 DEF DueUpTo
<1>12. TailIsLast'
  <2>1. loopTail = loopActQ[Len(loopActQ)]
    BY <1>3 DEF Counting, TailIsLast
  <2>2. Tail(loopActQ) # <<>> =>
          loopActQ[Len(loopActQ)] = Tail(loopActQ)[Len(Tail(loopActQ))]
    BY <1>1, <1>3
  <2> QED BY <1>1, <1>4, <2>1, <2>2 DEF TailIsLast
<1> QED BY <1>4, <1>9, <1>10, <1>11, <1>12 DEF Counting

LEMMA CountingStep == Typed /\ ActorsLocated /\ Counting /\ [Next]_vars => Counting'
<1> SUFFICES ASSUME Typed, ActorsLocated, Counting, [Next]_vars PROVE Counting'
  OBVIOUS
<1> USE TicksAssumption DEF Contexts, Handlers
<1>1. /\ pc \in [Contexts -> LoopPlaces \cup {"off", "get", "put"}]
      /\ cur \in [Contexts -> Actors \cup {NIL}]
  BY DEF Typed, TypeOK
<1>2. ASSUME NEW a \in Actors, RunAct(a) PROVE Counting'
  BY <1>2, CountingStays DEF RunAct, history
<1>3. ASSUME NEW a \in Actors, SubmitFirst(a) PROVE Counting'
  BY <1>3, CountingAppends DEF SubmitFirst, Submit, history
<1>4. ASSUME Run PROVE Counting'
  <2>1. /\ pc[LOOP] = "setup" /\ pc'[LOOP] = "wfi"
        /\ UNCHANGED <<loopActQ, loopTail, cur, due, counted>>
    BY <1>1, <1>4 DEF Run, At, Goto, queues, history
  <2> QED BY <2>1 DEF Counting, TailIsLast
<1>5. ASSUME SysTickZero PROVE Counting'
  BY <1>5, CountingStays DEF SysTickZero, queues, history
<1>6. ASSUME NEW h \in Handlers, TakeInterrupt(h) PROVE Counting'
  <2>1. /\ pc'[LOOP] = IF pc[LOOP] = "asleep" THEN "test" ELSE pc[LOOP]
        /\ UNCHANGED <<loopActQ, loopTail, cur, tail, due, counted>>
    BY <1>1, <1>6 DEF TakeInterrupt, queues, history
  <2>2. CASE pc[LOOP] = "asleep"
    BY <2>1, <2>2 DEF Counting, TailIsLast
  <2>3. CASE pc[LOOP] # "asleep"
    BY <2>1, <2>3, CountingStays
  <2> QED BY <2>2, <2>3
<1>7. ASSUME TickGet PROVE Counting'
  <2>1. pc'[LOOP] = pc[LOOP] /\ cur'[LOOP] = cur[LOOP]
    BY <1>1, <1>7 DEF TickGet, Goto
  <2> QED BY <1>7, <2>1, CountingStays DEF TickGet
<1>8. ASSUME TickPut PROVE Counting'
  <2>1. pc'[LOOP] = pc[LOOP] /\ cur'[LOOP] = cur[LOOP]
    BY <1>1, <1>8 DEF TickPut, Goto
  <2> QED BY <1>8, <2>1, CountingStays DEF TickPut
<1>9. ASSUME NEW r \in RdyQs, Fetch(r) \/ Leave(r) PROVE Counting'
  <2>1. pc'[LOOP] = pc[LOOP] /\ cur'[LOOP] = cur[LOOP]
    BY <1>1, <1>9 DEF Fetch, Leave, Goto
  <2> QED BY <1>9, <2>1, CountingStays DEF Fetch, Leave, queues, history
<1>10. ASSUME NEW r \in RdyQs, RunActor(r) PROVE Counting'
  <2>1. /\ pc'[LOOP] = pc[LOOP] /\ cur'[LOOP] = cur[LOOP] /\ cur[r] \in Actors
        /\ UNCHANGED <<tail, due, counted>>
    BY <1>1, <1>10 DEF RunActor, Goto, At, history, Typed, Locals
  <2>2. PutToLoopActQ(cur[r]) \/ UNCHANGED <<loopActQ, loopTail>>
    BY <1>10 DEF RunActor, Submit, GetTick
  <2> QED BY <2>1, <2>2, CountingAppends, CountingStays
<1>11. ASSUME Fetch(LOOP) \/ StartOver \/ WFI \/ TestTick PROVE Counting'
  <2>1. UNCHANGED <<loopActQ, loopTail>> /\ TailIsLast'
    BY <1>11 DEF Fetch, StartOver, WFI, TestTick, queues, Counting, TailIsLast
  <2>2. ASSUME Fetch(LOOP) PROVE Counting'
    <3>1. pc[LOOP] = "fetch" /\ pc'[LOOP] = "run" /\ UNCHANGED <<due, counted>>
      BY <1>1, <2>2 DEF Fetch, At, Goto, history
    <3> QED BY <2>1, <3>1 DEF Counting
  <2>3. ASSUME StartOver PROVE Counting'
    <3>1. pc'[LOOP] = "wfi" /\ due' = {} /\ counted' = {}
      BY <1>1, <2>3 DEF StartOver, Goto
    <3> QED BY <2>1, <3>1 DEF Counting
  <2>4. ASSUME WFI \/ TestTick PROVE Counting'
    <3>1. /\ pc[LOOP] \in {"wfi", "test"} /\ pc'[LOOP] \in {"wfi", "asleep", "test", "head"}
          /\ UNCHANGED <<due, counted>>
      BY <1>1, <2>4 DEF WFI, TestTick, At, Goto, history
    <3> QED BY <2>1, <3>1 DEF Counting
  <2> QED BY <1>11, <2>2, <2>3, <2>4
<1>12. ASSUME RunActor(LOOP) PROVE Counting'
  <2>1. /\ pc[LOOP] = "run" /\ pc'[LOOP] = "fetch" /\ cur[LOOP] \in Actors
        /\ UNCHANGED <<due, counted>>
    BY <1>1, <1>12 DEF RunActor, Goto, At, history, Typed, Locals
  <2>2. TailIsLast'
    <3>1. CASE PutToLoopActQ(cur[LOOP])
      BY <2>1, <3>1 DEF PutToLoopActQ, TailIsLast, Typed, TypeOK
    <3>2. CASE UNCHANGED <<loopActQ, loopTail>>
      BY <3>2 DEF Counting, TailIsLast
    <3> QED BY <1>12, <3>1, <3>2 DEF RunActor, Submit, GetTick
  <2> QED BY <2>1, <2>2 DEF Counting
<1>13. CASE UNCHANGED vars
  BY <1>13, CountingStays DEF vars, queues, history
<1> QED
  BY <1>2, <1>3, <1>4, <1>5, <1>6, <1>7, <1>8, <1>9, <1>10, <1>11, <1>12, <1>13,
     TakeFirstCounts, ReadTailCounts, CountDownCounts, TakeNextCounts
  DEF Next, Setup, TickStep, RdyQStep, LoopStep, RunNext

(* An actor, and the loop with the actors submitted to it, keep their      *)
(* accounts for every set of actors and every interleaving: nothing is     *)
(* lost or in two places when handlers submit while the loop takes actors  *)
(* from the same queue, and with each tick the loop counts what was        *)
(* submitted before it began, each once, up to the tail it has read.       *)
THEOREM LoopIsSound == Spec => []LoopSound
<1>1. Typed /\ ActorsLocated /\ Counting => LoopSound
  <2>1. Typed /\ Counting => CountsOnce
    BY DEF Counting, CountsOnce
  <2> QED BY <2>1, LocatedOnce DEF LoopSound
<1>2. QED
  BY <1>1, TypedInit, TypedStep, ActorsInit, ActorsStep, CountingInit, CountingStep, PTL DEF Spec

-----------------------------------------------------------------------------
(* One run of tickHandler.                                                 *)

\* While tickHandler runs no handler of a queue below it and no actor does
LEMMA TickRunsAlone ==
  ASSUME RdyQsBelowTick, pc[TICK] # "off", NEW c \in RdyQsAndLoop
  PROVE  ~MostUrgent(c)
BY TicksAssumption DEF RdyQsBelowTick, MostUrgent, RdyQsAndLoop, Contexts, Handlers

LEMMA ServedStep ==
  ASSUME RdyQsBelowTick
  PROVE  Typed /\ ActorsLocated /\ ServedOnce /\ [Next]_vars => ServedOnce'
<1> SUFFICES ASSUME Typed, ActorsLocated, ServedOnce, [Next]_vars PROVE ServedOnce'
  OBVIOUS
<1> USE TicksAssumption DEF Contexts, Handlers
<1>1. /\ pc \in [Contexts -> LoopPlaces \cup {"off", "get", "put"}]
      /\ cur \in [Contexts -> Actors \cup {NIL}]
      /\ tickActQ \in Seq(Actors)
  BY DEF Typed, TypeOK
<1>2. ASSUME pc'[TICK] = pc[TICK], cur'[TICK] = cur[TICK], UNCHANGED <<served, tickActQ>>
      PROVE  ServedOnce'
  BY <1>2 DEF ServedOnce
<1>3. ASSUME NEW a \in Actors, RunAct(a) \/ SubmitFirst(a) PROVE ServedOnce'
  BY <1>2, <1>3 DEF RunAct, SubmitFirst, Submit, history
<1>4. ASSUME Run \/ SysTickZero PROVE ServedOnce'
  <2>1. pc'[TICK] = pc[TICK]
    BY <1>1, <1>4 DEF Run, SysTickZero, Goto
  <2> QED BY <1>2, <1>4, <2>1 DEF Run, SysTickZero, queues, history
<1>5. ASSUME NEW h \in Handlers, TakeInterrupt(h) PROVE ServedOnce'
  <2>1. /\ UNCHANGED <<served, tickActQ, cur>>
        /\ pc'[TICK] = "off" => pc[TICK] = "off"
    BY <1>1, <1>5 DEF TakeInterrupt, queues, history
  <2> QED BY <2>1 DEF ServedOnce
<1>6. ASSUME TickGet PROVE ServedOnce'
  <2>1. CASE tickActQ = <<>>
    BY <1>6, <2>1 DEF TickGet, ServedOnce
  <2>2. CASE tickActQ # <<>>
    <3>1. /\ tickActQ' = Tail(tickActQ) /\ served' = served /\ pc'[TICK] = "put"
          /\ cur'[TICK] = Head(tickActQ)
      BY <1>1, <1>6, <2>2 DEF TickGet, Goto
    <3>2. Range(tickActQ) = {Head(tickActQ)} \cup Range(Tail(tickActQ))
      BY <1>1, <2>2, HeadAndTail
    <3> QED BY <3>1, <3>2 DEF ServedOnce
  <2> QED BY <2>1, <2>2
<1>7. ASSUME TickPut PROVE ServedOnce'
  <2>1. /\ pc'[TICK] = "get" /\ cur'[TICK] = NIL /\ tickActQ' = tickActQ
        /\ served' = served \cup {cur[TICK]} /\ cur[TICK] \in Actors
    BY <1>1, <1>7 DEF TickPut, At, Goto, Typed, Locals
  <2>2. cur[TICK] \notin Range(tickActQ)
    BY <2>1 DEF ActorsLocated, ActorsAt
  <2> QED BY <2>1, <2>2 DEF ServedOnce
<1>8. ASSUME NEW r \in RdyQsAndLoop, RunActor(r) PROVE ServedOnce'
  <2>1. pc[TICK] = "off" /\ served' = served
    BY <1>8, TickRunsAlone DEF RunActor, At, history
  <2> QED BY <2>1 DEF ServedOnce
<1>9. ASSUME NEW r \in RdyQsAndLoop, Fetch(r) \/ (r \in RdyQs /\ Leave(r)) PROVE ServedOnce'
  <2>1. pc'[TICK] = pc[TICK] /\ cur'[TICK] = cur[TICK]
    BY <1>1, <1>9 DEF Fetch, Leave, Goto, RdyQsAndLoop
  <2> QED BY <1>2, <1>9, <2>1 DEF Fetch, Leave, queues, history
<1>10. ASSUME WFI \/ TestTick \/ TakeFirst \/ ReadTail \/ CountDown \/ TakeNext \/ StartOver
       PROVE  ServedOnce'
  <2>1. pc'[TICK] = pc[TICK] /\ cur'[TICK] = cur[TICK]
    BY <1>1, <1>10
    DEF WFI, TestTick, TakeFirst, ReadTail, CountDown, TakeNext, StartOver, Goto
  <2>2. UNCHANGED <<served, tickActQ>>
    BY <1>10
    DEF WFI, TestTick, TakeFirst, ReadTail, CountDown, TakeNext, StartOver, queues, history
  <2> QED BY <1>2, <2>1, <2>2
<1>11. CASE UNCHANGED vars
  BY <1>2, <1>11 DEF vars, queues, history
<1> QED
  BY <1>3, <1>4, <1>5, <1>6, <1>7, <1>8, <1>9, <1>10, <1>11
  DEF Next, Setup, TickStep, RdyQStep, LoopStep, RunNext, RdyQsAndLoop

(* GetTick waits for the next tick wherever no ready queue is above the    *)
(* tick: one run of tickHandler makes no actor ready twice, since no actor *)
(* runs, and calls GetTick again, until it returns.  (With a ready queue   *)
(* above the tick the run on ticksv4_above finds the opposite.)            *)
THEOREM TicksAreApart ==
  ASSUME RdyQsBelowTick
  PROVE  Spec => []NextTick
<1>1. Init => ServedOnce
  BY DEF Init, ServedOnce
<1>2. Typed /\ ServedOnce => NextTick
  BY DEF ServedOnce, NextTick
<1>3. QED
  BY <1>1, <1>2, TypedInit, TypedStep, ActorsInit, ActorsStep, ServedStep, PTL DEF Spec
=============================================================================
