------------------------------ MODULE KernelV4 ------------------------------
(***************************************************************************)
(* Message passing of kernel-v4 (kernel-v4/Kernel.mod): event queues,      *)
(* ready queues with their software interrupts, a message pool, and the    *)
(* pre-emption between the interrupt handlers that use them.               *)
(*                                                                         *)
(* A ready queue is bound to a software interrupt whose handler calls      *)
(* RunQueue; RunQueue runs the actors of the queue one after the other.    *)
(* An actor's run procedure may put pooled messages to event queues and    *)
(* ends with GetMsg on the event queue it serves.  Producers are the       *)
(* device interrupt handlers and thread-mode code that take a message from *)
(* the pool and put it to an event queue.                                  *)
(*                                                                         *)
(* Each Put.../Get... primitive of the code runs with BASEPRI raised to    *)
(* ExcPrioHigh, so one primitive is one atomic step here: every context is *)
(* taken to have a priority that BASEPRI masks.  PutMsg, GetMsg,           *)
(* PutMsgAwaited and RunQueue are several primitives each, and a more      *)
(* urgent context may run between any two of them.                         *)
(***************************************************************************)
EXTENDS Integers, Sequences, Functions

CONSTANTS
  Actors,    \* the actors, each started with RunAct
  PoolOrder, \* the messages made by NewMsgPool, from head to last
  RdyQs,     \* ready queues, each installed with InstallRdyQ
  Producers, \* other contexts that put messages: device handlers, thread mode
  EvQs,      \* event queues
  Prio,      \* priority of each context; a higher number is more urgent
  RdyQOf,    \* the ready queue given to RunAct
  Serves,    \* the event queue from which an actor gets its messages
  Forwards,  \* the event queues to which an actor's run procedure puts messages
  Feeds,     \* the event queue to which a producer puts its messages
  Awaited,   \* the producers that use PutMsgAwaited instead of PutMsg
  MaxLoad,   \* bound: how often each producer is activated
  NIL        \* the null pointer

Contexts == RdyQs \cup Producers
Msgs == Range(PoolOrder)

ASSUME ConfigAssumption ==
  /\ RdyQs \cap Producers = {}
  /\ Prio \in [Contexts -> Nat]
  /\ RdyQOf \in [Actors -> RdyQs]
  /\ Serves \in [Actors -> EvQs]
  /\ Forwards \in [Actors -> SUBSET EvQs]
  /\ Feeds \in [Producers -> EvQs]
  /\ Awaited \subseteq Producers
  /\ MaxLoad \in Nat

ASSUME PoolAssumption ==
  /\ PoolOrder \in Seq(Msgs)
  /\ IsInjective(PoolOrder)

ASSUME NilAssumption == NIL \notin Actors \cup Msgs \cup EvQs

VARIABLES
  new,     \* actors not yet started
  pool,    \* the free messages, head first (MessagePoolDesc.head)
  msgQ,    \* msgQ of each event queue
  actQ,    \* actQ of each event queue
  rdyQ,    \* the actors in each ready queue
  pending, \* the ready queues whose interrupt is pending in the NVIC
  actMsg,  \* act.msg
  pc,      \* where each context is
  cur,     \* local act of RunQueue, until the actor has queued itself
  held,    \* local msg of RunQueue
  todo,    \* event queues the run procedure may still put a message to
  evq,     \* event queue of the PutMsg or GetMsg in progress
  arg,     \* message of the PutMsg or GetMsg in progress
  got,     \* local act of PutMsg, the result of its GetFromActQ
  load     \* activations a producer has left

vars == <<new, pool, msgQ, actQ, rdyQ, pending, actMsg,
          pc, cur, held, todo, evq, arg, got, load>>

-----------------------------------------------------------------------------
(* Pre-emption: the NVIC runs the most urgent active context; an interrupt *)
(* is taken only when it is more urgent than everything active.            *)

Active(c) == pc[c] # "off"

MostUrgent(c) == \A d \in Contexts \ {c} : Active(d) => Prio[d] < Prio[c]

At(c, l) == pc[c] = l /\ MostUrgent(c)

Goto(c, l) == pc' = [pc EXCEPT ![c] = l]

-----------------------------------------------------------------------------
(* The primitives on the queues, one critical section each.                *)

\* Mutant of PutToRdyQ: only an actor that finds others triggers the interrupt
PutToRdyQ_LateTrigger(r, a) ==
  /\ rdyQ' = [rdyQ EXCEPT ![r] = Append(@, a)]
  /\ pending' = IF rdyQ[r] = <<>> THEN pending ELSE pending \cup {r}

PutToRdyQ(r, a) ==
  /\ rdyQ' = [rdyQ EXCEPT ![r] = Append(@, a)]
  /\ pending' = pending \cup {r}

PutToActQ(e, a) == actQ' = [actQ EXCEPT ![e] = Append(@, a)]

\* Mutant of PutToMsgQ: the message is linked in at the head
PutToMsgQ_AtHead(e, m) == msgQ' = [msgQ EXCEPT ![e] = <<m>> \o @]

PutToMsgQ(e, m) == msgQ' = [msgQ EXCEPT ![e] = Append(@, m)]

\* The count that a pool keeps is read nowhere and left out, as is the case of a
\* message without a pool, which goes nowhere
PutToMsgPool(m) == pool' = <<m>> \o pool

GetFromMsgPool(m) ==
  /\ pool # <<>>
  /\ m = Head(pool)
  /\ pool' = Tail(pool)

\* A message is handed to an actor that is in no queue: act.msg := msg, PutToRdyQ
HandOver(a, m) ==
  /\ actMsg' = [actMsg EXCEPT ![a] = m]
  /\ PutToRdyQ(RdyQOf[a], a)

-----------------------------------------------------------------------------
(* Set-up: NewRdyQ, NewEvQ and NewMsgPool leave empty queues and a full     *)
(* pool; InitAct has set act.msg to NIL.                                    *)

Init ==
  /\ new = Actors
  /\ pool = PoolOrder
  /\ msgQ = [e \in EvQs |-> <<>>]
  /\ actQ = [e \in EvQs |-> <<>>]
  /\ rdyQ = [r \in RdyQs |-> <<>>]
  /\ pending = {}
  /\ actMsg = [a \in Actors |-> NIL]
  /\ pc = [c \in Contexts |-> "off"]
  /\ cur = [c \in Contexts |-> NIL]
  /\ held = [c \in Contexts |-> NIL]
  /\ todo = [c \in Contexts |-> {}]
  /\ evq = [c \in Contexts |-> NIL]
  /\ arg = [c \in Contexts |-> NIL]
  /\ got = [c \in Contexts |-> NIL]
  /\ load = [p \in Producers |-> MaxLoad]

\* The main program starts an actor from thread mode, below every interrupt
RunAct(a) ==
  /\ a \in new
  /\ \A c \in Contexts : ~Active(c)
  /\ new' = new \ {a}
  /\ PutToRdyQ(RdyQOf[a], a)
  /\ UNCHANGED <<pool, msgQ, actQ, actMsg, pc, cur, held, todo, evq, arg, got, load>>

-----------------------------------------------------------------------------
(* RunQueue, called by the interrupt handler of a ready queue.             *)

TakeInterrupt(r) ==
  /\ r \in pending
  /\ At(r, "off")
  /\ pending' = pending \ {r}
  /\ Goto(r, "fetch")
  /\ UNCHANGED <<new, pool, msgQ, actQ, rdyQ, actMsg, cur, held, todo, evq, arg,
                 got, load>>

\* GetFromRdyQ found an actor: msg := act.msg, then act.run(act)
FetchActor(r) ==
  /\ At(r, "fetch")
  /\ rdyQ[r] # <<>>
  /\ rdyQ' = [rdyQ EXCEPT ![r] = Tail(@)]
  /\ cur' = [cur EXCEPT ![r] = Head(rdyQ[r])]
  /\ held' = [held EXCEPT ![r] = actMsg[Head(rdyQ[r])]]
  /\ todo' = [todo EXCEPT ![r] = Forwards[Head(rdyQ[r])]]
  /\ Goto(r, "run")
  /\ UNCHANGED <<new, pool, msgQ, actQ, pending, actMsg, evq, arg, got, load>>

\* GetFromRdyQ found nothing: the handler returns.  Look and return are one step;
\* what is queued in between has set the interrupt pending, as it does after it
LeaveHandler(r) ==
  /\ At(r, "fetch")
  /\ rdyQ[r] = <<>>
  /\ Goto(r, "off")
  /\ UNCHANGED <<new, pool, msgQ, actQ, rdyQ, pending, actMsg, cur, held, todo, evq,
                 arg, got, load>>

\* Mutant of Recycle: msg # NIL not tested
Recycle_AnyMsg(r) ==
  /\ At(r, "recycle")
  /\ PutToMsgPool(held[r])
  /\ held' = [held EXCEPT ![r] = NIL]
  /\ Goto(r, "fetch")
  /\ UNCHANGED <<new, msgQ, actQ, rdyQ, pending, actMsg, cur, todo, evq, arg, got, load>>

\* The message that the run procedure was given goes back to the pool
Recycle(r) ==
  /\ At(r, "recycle")
  /\ \/ held[r] # NIL /\ PutToMsgPool(held[r])
     \/ held[r] = NIL /\ UNCHANGED pool
  /\ held' = [held EXCEPT ![r] = NIL]
  /\ Goto(r, "fetch")
  /\ UNCHANGED <<new, msgQ, actQ, rdyQ, pending, actMsg, cur, todo, evq, arg, got, load>>

-----------------------------------------------------------------------------
(* PutMsg and PutMsgAwaited, called from a run procedure or by a producer. *)

\* A run procedure takes a message from the pool and calls PutMsg
BeginForward(r, e) ==
  /\ At(r, "run")
  /\ e \in todo[r]
  /\ todo' = [todo EXCEPT ![r] = @ \ {e}]
  /\ \E m \in Msgs : GetFromMsgPool(m) /\ arg' = [arg EXCEPT ![r] = m]
  /\ evq' = [evq EXCEPT ![r] = e]
  /\ Goto(r, "put")
  /\ UNCHANGED <<new, msgQ, actQ, rdyQ, pending, actMsg, cur, held, got, load>>

\* A producer is activated and takes a message; with the pool empty it gives up
BeginProduce(p) ==
  /\ At(p, "off")
  /\ load[p] > 0
  /\ load' = [load EXCEPT ![p] = @ - 1]
  /\ \/ pool = <<>> /\ UNCHANGED <<pool, arg, evq, pc>>
     \/ /\ \E m \in Msgs : GetFromMsgPool(m) /\ arg' = [arg EXCEPT ![p] = m]
        /\ evq' = [evq EXCEPT ![p] = Feeds[p]]
        /\ Goto(p, "put")
  /\ UNCHANGED <<new, msgQ, actQ, rdyQ, pending, actMsg, cur, held, todo, got>>

\* Mutant of TakeWaiting: PutMsg does not look for a waiting actor
TakeWaiting_None(c) ==
  /\ At(c, "put")
  /\ Goto(c, "hand")
  /\ UNCHANGED <<new, pool, msgQ, actQ, rdyQ, pending, actMsg, cur, held, todo, evq,
                 arg, got, load>>

\* GetFromActQ
TakeWaiting(c) ==
  /\ At(c, "put")
  /\ \/ actQ[evq[c]] = <<>> /\ UNCHANGED <<actQ, got>>
     \/ /\ actQ[evq[c]] # <<>>
        /\ actQ' = [actQ EXCEPT ![evq[c]] = Tail(@)]
        /\ got' = [got EXCEPT ![c] = Head(actQ[evq[c]])]
  /\ Goto(c, "hand")
  /\ UNCHANGED <<new, pool, msgQ, rdyQ, pending, actMsg, cur, held, todo, evq, arg, load>>

\* What PutMsg does without a waiting actor
Deposit(c) == PutToMsgQ(evq[c], arg[c]) /\ UNCHANGED pool

\* Mutant of Drop: PutMsgAwaited forgets the message nobody waits for
Drop_Leaks(c) == UNCHANGED <<pool, msgQ>>

\* What PutMsgAwaited does without a waiting actor
Drop(c) == PutToMsgPool(arg[c]) /\ UNCHANGED msgQ

\* Back to the caller of PutMsg: a run procedure goes on, a producer is done
PutReturn(c) ==
  /\ Goto(c, IF c \in RdyQs THEN "run" ELSE "off")
  /\ evq' = [evq EXCEPT ![c] = NIL]
  /\ arg' = [arg EXCEPT ![c] = NIL]
  /\ got' = [got EXCEPT ![c] = NIL]

FinishPut(c) ==
  /\ At(c, "hand")
  /\ \/ got[c] # NIL /\ HandOver(got[c], arg[c]) /\ UNCHANGED <<msgQ, pool>>
     \/ /\ got[c] = NIL
        /\ IF c \in Awaited THEN Drop(c) ELSE Deposit(c)
        /\ UNCHANGED <<actMsg, rdyQ, pending>>
  /\ PutReturn(c)
  /\ UNCHANGED <<new, actQ, cur, held, todo, load>>

-----------------------------------------------------------------------------
(* GetMsg, the last call of a run procedure.                               *)

\* Mutant of TakeMsg: the head of msgQ is read, not removed
TakeMsg_Keeps(r) ==
  /\ At(r, "run")
  /\ evq' = [evq EXCEPT ![r] = Serves[cur[r]]]
  /\ IF msgQ[Serves[cur[r]]] = <<>> THEN UNCHANGED arg
     ELSE arg' = [arg EXCEPT ![r] = Head(msgQ[Serves[cur[r]]])]
  /\ Goto(r, "get")
  /\ UNCHANGED <<new, pool, msgQ, actQ, rdyQ, pending, actMsg, cur, held, todo, got,
                 load>>

\* GetFromMsgQ
TakeMsg(r) ==
  /\ At(r, "run")
  /\ \E e \in EvQs :
       /\ e = Serves[cur[r]]
       /\ evq' = [evq EXCEPT ![r] = e]
       /\ \/ msgQ[e] = <<>> /\ UNCHANGED <<msgQ, arg>>
          \/ /\ msgQ[e] # <<>>
             /\ msgQ' = [msgQ EXCEPT ![e] = Tail(@)]
             /\ arg' = [arg EXCEPT ![r] = Head(msgQ[e])]
  /\ Goto(r, "get")
  /\ UNCHANGED <<new, pool, actQ, rdyQ, pending, actMsg, cur, held, todo, got, load>>

FinishGet(r) ==
  /\ At(r, "get")
  /\ \/ arg[r] # NIL /\ HandOver(cur[r], arg[r]) /\ UNCHANGED actQ
     \/ arg[r] = NIL /\ PutToActQ(evq[r], cur[r]) /\ UNCHANGED <<actMsg, rdyQ, pending>>
  /\ evq' = [evq EXCEPT ![r] = NIL]
  /\ arg' = [arg EXCEPT ![r] = NIL]
  /\ cur' = [cur EXCEPT ![r] = NIL]
  /\ Goto(r, "recycle")
  /\ UNCHANGED <<new, pool, msgQ, held, todo, got, load>>

-----------------------------------------------------------------------------
RunQueueStep(r) ==
  \/ TakeInterrupt(r)
  \/ FetchActor(r)
  \/ LeaveHandler(r)
  \/ Recycle(r)
  \/ TakeMsg(r)
  \/ FinishGet(r)

PutStep(c) == TakeWaiting(c) \/ FinishPut(c)

Next ==
  \/ \E a \in Actors : RunAct(a)
  \/ \E r \in RdyQs : RunQueueStep(r)
  \/ \E r \in RdyQs, e \in EvQs : BeginForward(r, e)
  \/ \E p \in Producers : BeginProduce(p)
  \/ \E c \in Contexts : PutStep(c)

Spec == Init /\ [][Next]_vars

(* The processor does not stop: the most urgent active context makes its   *)
(* next step, a pending interrupt that may be taken is taken, and the main *)
(* program gets to start its actors.  Producers are activated from outside *)
(* and nothing is promised about them.                                     *)
Fairness ==
  /\ \A a \in Actors : WF_vars(RunAct(a))
  /\ \A r \in RdyQs : WF_vars(RunQueueStep(r))
  /\ \A c \in Contexts : WF_vars(PutStep(c))

FairSpec == Spec /\ Fairness

-----------------------------------------------------------------------------
TypeOK ==
  /\ new \subseteq Actors
  /\ pool \in Seq(Msgs)
  /\ msgQ \in [EvQs -> Seq(Msgs)]
  /\ actQ \in [EvQs -> Seq(Actors)]
  /\ rdyQ \in [RdyQs -> Seq(Actors)]
  /\ pending \subseteq RdyQs
  /\ actMsg \in [Actors -> Msgs \cup {NIL}]
  /\ pc \in [Contexts -> {"off", "fetch", "run", "put", "hand", "get", "recycle"}]
  /\ cur \in [Contexts -> Actors \cup {NIL}]
  /\ held \in [Contexts -> Msgs \cup {NIL}]
  /\ todo \in [Contexts -> SUBSET EvQs]
  /\ evq \in [Contexts -> EvQs \cup {NIL}]
  /\ arg \in [Contexts -> Msgs \cup {NIL}]
  /\ got \in [Contexts -> Actors \cup {NIL}]
  /\ load \in [Producers -> 0..MaxLoad]

-----------------------------------------------------------------------------
(* Conservation                                                            *)

Positions(q, x) == {i \in DOMAIN q : q[i] = x}

\* Every place from which the kernel can reach message m
MsgPlaces(m) ==
  ({"pool"} \X {NIL} \X Positions(pool, m))
  \cup (UNION {{"queued"} \X {e} \X Positions(msgQ[e], m) : e \in EvQs})
  \cup (UNION {{"ready"} \X {r} \X {i \in DOMAIN rdyQ[r] : actMsg[rdyQ[r][i]] = m} :
                 r \in RdyQs})
  \cup ({"held"} \X {c \in Contexts : held[c] = m} \X {1})
  \cup ({"arg"} \X {c \in Contexts : arg[c] = m} \X {1})

\* Every place from which the kernel can reach actor a
ActorPlaces(a) ==
  ({"new"} \X {a} \X (IF a \in new THEN {1} ELSE {}))
  \cup (UNION {{"waiting"} \X {e} \X Positions(actQ[e], a) : e \in EvQs})
  \cup (UNION {{"ready"} \X {r} \X Positions(rdyQ[r], a) : r \in RdyQs})
  \cup ({"running"} \X {c \in Contexts : cur[c] = a} \X {1})
  \cup ({"got"} \X {c \in Contexts : got[c] = a} \X {1})

IsSingleton(S) == \E x \in S : S = {x}

(* A message is always in exactly one place: the pool, one message queue,  *)
(* a ready actor, or a call in progress.  It is neither lost, nor free for *)
(* reuse while an actor has it, whatever the priorities and interleavings. *)
(* An actor, too, is always in exactly one place, so that no two contexts  *)
(* run it at a time and its one link field, next, serves one queue.        *)
Conserved ==
  /\ \A m \in Msgs : IsSingleton(MsgPlaces(m))
  /\ \A a \in Actors : IsSingleton(ActorPlaces(a))

(* An actor put to a ready queue is run: the interrupt of a ready queue    *)
(* that holds actors is pending, or its handler has yet to look again.     *)
ReadyIsServed ==
  \A r \in RdyQs : rdyQ[r] # <<>> => r \in pending \/ Active(r)

-----------------------------------------------------------------------------
(* Lost wake-ups                                                           *)

\* The contexts that ever call PutMsg or GetMsg on event queue e
Users(e) ==
  {p \in Producers : Feeds[p] = e}
  \cup {RdyQOf[a] : a \in {b \in Actors : Serves[b] = e \/ e \in Forwards[b]}}

\* No user of e can pre-empt another
OnePriority(e) == \A c, d \in Users(e) : Prio[c] = Prio[d]

(* A message and an actor never wait for each other in the same event      *)
(* queue, provided that its users have one priority.  PutMsg and GetMsg    *)
(* look at one of the two queues and then add to the other; a user that    *)
(* runs in between leaves both non-empty, with nobody to wake the actor.   *)
NoLostWakeup ==
  \A e \in EvQs : OnePriority(e) => msgQ[e] = <<>> \/ actQ[e] = <<>>

(* Every message taken from the pool is back in the pool some time later:  *)
(* with a finite load each message reaches an actor, and is recycled.      *)
MsgReturns == \A m \in Msgs : (m \notin Range(pool)) ~> (m \in Range(pool))

-----------------------------------------------------------------------------
(* The inductive strengthening of NoLostWakeup: its parts say what the     *)
(* locals of a call in progress mean.                                      *)

InCall(c) == pc[c] \in {"put", "hand", "get"}

\* An actor is queued at, and run by the handler of, its ready queue; its
\* calls use only the event queues it serves or forwards to
QueuedAtHome == \A r \in RdyQs : \A i \in DOMAIN rdyQ[r] : RdyQOf[rdyQ[r][i]] = r

RunAtHome ==
  \A r \in RdyQs : cur[r] # NIL =>
    RdyQOf[cur[r]] = r /\ todo[r] \subseteq Forwards[cur[r]]

HasActor ==
  /\ \A r \in RdyQs : pc[r] \in {"run", "put", "hand", "get"} => cur[r] # NIL
  /\ \A p \in Producers : pc[p] \in {"off", "put", "hand"}

ActorsAtHome == QueuedAtHome /\ RunAtHome /\ HasActor

\* A call knows its event queue, and PutMsg its message
CallsAreUsers ==
  \A c \in Contexts :
    /\ InCall(c) => evq[c] \in EvQs /\ c \in Users(evq[c])
    /\ pc[c] \in {"put", "hand"} => arg[c] # NIL

\* PutMsg has found no actor, GetMsg no message: that is still so
StillEmpty ==
  \A c \in Contexts : InCall(c) /\ OnePriority(evq[c]) =>
    /\ pc[c] = "hand" /\ got[c] = NIL => actQ[evq[c]] = <<>>
    /\ pc[c] = "get" /\ arg[c] = NIL => msgQ[evq[c]] = <<>>

WakeupInv == TypeOK /\ ActorsAtHome /\ CallsAreUsers /\ StillEmpty /\ NoLostWakeup

-----------------------------------------------------------------------------
(* Event queues whose users have one priority implement Mailboxes.  A call *)
(* in progress has not happened yet: what GetMsg or PutMsg has taken out   *)
(* of a queue is still at its head.                                        *)

InGetMsg(e) == {c \in Contexts : evq[c] = e /\ pc[c] = "get" /\ arg[c] # NIL}
InPutMsg(e) == {c \in Contexts : evq[c] = e /\ got[c] # NIL}

InHand(S, local) == IF S = {} THEN <<>> ELSE <<local[CHOOSE c \in S : TRUE]>>

Mailbox == INSTANCE Mailboxes WITH
  box <- [e \in EvQs |-> InHand(InGetMsg(e), arg) \o msgQ[e]],
  waiting <- [e \in EvQs |-> InHand(InPutMsg(e), got) \o actQ[e]],
  inbox <- [a \in Actors |->
              IF a \in Range(rdyQ[RdyQOf[a]]) THEN actMsg[a] ELSE NIL]

(* With one priority for the users of each event queue, every step of      *)
(* PutMsg, PutMsgAwaited, GetMsg and RunQueue is a step of Mailboxes or    *)
(* none: first-in first-out, one receiver per message, no lost wake-up.    *)
ImplementsMailboxes == Mailbox!Spec
=============================================================================
