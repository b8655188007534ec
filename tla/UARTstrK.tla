------------------------------ MODULE UARTstrK ------------------------------
(***************************************************************************)
(* The string output drivers of kernel-v4: UARTstrKint, which sends one    *)
(* character per transmit interrupt, and UARTstrKbw, which waits for room  *)
(* in the transmit FIFO.  PutString cuts a string into chunks that fit a   *)
(* PrintMsg; the driver actor gets the messages one by one.                *)
(*                                                                         *)
(* The ready queue of the driver and the UART interrupt have one priority, *)
(* so the handlers are one step each, one actor run at a time.  Strings    *)
(* are put from one context, of the same priority or of a lower one.       *)
(*                                                                         *)
(* A chunk is known by its number, a character by its chunk and its index. *)
(***************************************************************************)
EXTENDS Integers, Sequences, FiniteSets

CONSTANTS
  PoolOrder,   \* the print messages, as linked by NewMsgPool
  ChunkLen,    \* the length of each chunk ever put
  MaxParts,    \* bound: chunks of a string
  MaxCalls,    \* bound: calls of PutString
  Drivers,     \* which drivers to look at: "int" and "bw"
  CallersBelow,\* if PutString may be called below the priority of the driver
  DevMsg,      \* ux.devMsg, a message without a pool
  NIL          \* the null pointer

Chunks == DOMAIN ChunkLen
Msgs == {PoolOrder[i] : i \in DOMAIN PoolOrder}

ASSUME UARTAssumption ==
  /\ PoolOrder \in Seq(Msgs)
  /\ \A i, j \in DOMAIN PoolOrder : i # j => PoolOrder[i] # PoolOrder[j]
  /\ ChunkLen \in Seq(Nat \ {0})
  /\ MaxParts \in Nat
  /\ MaxCalls \in Nat
  /\ MaxCalls * MaxParts <= Len(ChunkLen)
  /\ Drivers \subseteq {"int", "bw"}
  /\ CallersBelow \subseteq BOOLEAN
  /\ DevMsg \notin Msgs \cup {NIL}
  /\ NIL \notin Msgs

VARIABLES
  drv,   \* the driver in use, chosen at the start
  below, \* PutString is called below its priority, chosen at the start
  pool,  \* free messages, head first
  str,   \* the chunk in msg.str and msg.numChar, 0 before first use
  printQ,\* msgQ of printEvQ
  where, \* the driver actor: "ready", waiting in the actQ of "print" or "dev", or
         \* in the "hand" of PutMsg
  run,   \* act.run
  msg,   \* act.msg
  uxMsg, \* ux.msg
  ix,    \* ux.ix
  txInt, \* the transmit interrupt is asserted
  drain, \* characters have been written that may yet raise the interrupt
  out,   \* the characters written to TDR
  pc,    \* where PutString is, "idle" outside
  left,  \* chunks of the string not yet put
  m,     \* local msg of PutString
  made,  \* number of chunks made so far
  calls  \* number of calls of PutString so far

driver == <<drv, below, run, uxMsg, ix, txInt, drain, out>>
caller == <<pc, left, m, made, calls>>
vars == <<pool, str, printQ, where, msg, driver, caller>>

\* Install, up to RunAct
Init ==
  /\ drv \in Drivers
  /\ below \in CallersBelow
  /\ pool = PoolOrder
  /\ str = [x \in Msgs |-> 0]
  /\ printQ = <<>>
  /\ where = "ready"
  /\ run = "init"
  /\ msg = NIL
  /\ uxMsg = NIL
  /\ ix = 0
  /\ txInt = FALSE
  /\ drain = FALSE
  /\ out = <<>>
  /\ pc = "idle"
  /\ left = 0
  /\ m = NIL
  /\ made = 0
  /\ calls = 0

HandlerPending == where = "ready" \/ txInt

\* The handlers pre-empt a caller of lower priority, and wait for any other
HandlerMayRun == below \/ pc = "idle"
CallerMayRun == below => ~HandlerPending

-----------------------------------------------------------------------------
(* PutString                                                               *)

Call(parts) ==
  /\ CallerMayRun
  /\ pc = "idle"
  /\ calls < MaxCalls
  /\ calls' = calls + 1
  /\ pc' = "next"
  /\ left' = parts
  /\ UNCHANGED <<pool, str, printQ, where, msg, driver, m, made>>

\* GetFromMsgPool; with the pool empty the rest of the string is dropped
TakeMsg ==
  /\ CallerMayRun
  /\ pc = "next" /\ left > 0
  /\ \/ pool = <<>> /\ left' = 0 /\ UNCHANGED <<pool, pc, m>>
     \/ /\ pool # <<>>
        /\ m' = Head(pool)
        /\ pool' = Tail(pool)
        /\ pc' = "fill"
        /\ UNCHANGED left
  /\ UNCHANGED <<str, printQ, where, msg, driver, made, calls>>

\* The text of the next chunk goes into the message
FillMsg ==
  /\ CallerMayRun
  /\ pc = "fill"
  /\ made' = made + 1
  /\ str' = [str EXCEPT ![m] = made']
  /\ pc' = "put"
  /\ UNCHANGED <<pool, printQ, where, msg, driver, left, m, calls>>

Return ==
  /\ CallerMayRun
  /\ pc = "next" /\ left = 0
  /\ pc' = "idle"
  /\ UNCHANGED <<pool, str, printQ, where, msg, driver, left, m, made, calls>>

\* PutMsg, GetFromActQ: with the actor in hand, or without
FindActor ==
  /\ CallerMayRun
  /\ pc = "put"
  /\ \/ where = "print" /\ where' = "hand"
     \/ where # "print" /\ UNCHANGED where
  /\ pc' = "hand"
  /\ UNCHANGED <<pool, str, printQ, msg, driver, left, m, made, calls>>

\* Mutant of HandMsg: the message is queued before those that wait
HandMsg_AtHead ==
  /\ CallerMayRun
  /\ pc = "hand"
  /\ IF where = "hand" THEN where' = "ready" /\ msg' = m /\ UNCHANGED printQ
     ELSE printQ' = <<m>> \o printQ /\ UNCHANGED <<where, msg>>
  /\ pc' = "next"
  /\ left' = left - 1
  /\ m' = NIL
  /\ UNCHANGED <<pool, str, driver, made, calls>>

\* PutMsg, the rest
HandMsg ==
  /\ CallerMayRun
  /\ pc = "hand"
  /\ \/ where = "hand" /\ where' = "ready" /\ msg' = m /\ UNCHANGED printQ
     \/ where # "hand" /\ printQ' = Append(printQ, m) /\ UNCHANGED <<where, msg>>
  /\ pc' = "next"
  /\ left' = left - 1
  /\ m' = NIL
  /\ UNCHANGED <<pool, str, driver, made, calls>>

-----------------------------------------------------------------------------
(* The driver actor, run by RunQueue; its old message goes back to the     *)
(* pool at the end of each run.                                            *)

\* GetMsg(printEvQ)
GetPrintMsg ==
  \/ printQ = <<>> /\ where' = "print" /\ UNCHANGED <<printQ, msg>>
  \/ printQ # <<>> /\ msg' = Head(printQ) /\ printQ' = Tail(printQ) /\ UNCHANGED where

\* GetMsg(devEvQ): devMsg is put only to a waiting actor, so the queue is empty
GetDevMsg == where' = "dev" /\ UNCHANGED <<printQ, msg>>

Recycle == pool' = IF msg \in Msgs THEN <<msg>> \o pool ELSE pool

RunInit ==
  /\ HandlerMayRun
  /\ where = "ready" /\ run = "init"
  /\ run' = "writeUART"
  /\ GetPrintMsg
  /\ Recycle
  /\ UNCHANGED <<drv, below, str, uxMsg, ix, txInt, drain, out, caller>>

\* UARTstrKint: the first character, the others follow by interrupt
WriteFirst ==
  /\ HandlerMayRun
  /\ drv = "int"
  /\ where = "ready" /\ run = "writeUART"
  /\ uxMsg' = msg
  /\ ix' = 1
  /\ out' = Append(out, <<str[msg], 0>>)
  /\ drain' = TRUE
  /\ run' = "awaitDevInt"
  /\ GetDevMsg
  /\ Recycle
  /\ UNCHANGED <<drv, below, str, txInt, caller>>

AwaitDevInt ==
  /\ HandlerMayRun
  /\ where = "ready" /\ run = "awaitDevInt"
  /\ run' = "writeUART"
  /\ GetPrintMsg
  /\ Recycle
  /\ UNCHANGED <<drv, below, str, uxMsg, ix, txInt, drain, out, caller>>

\* UARTstrKbw: all characters
WriteAll ==
  /\ HandlerMayRun
  /\ drv = "bw"
  /\ where = "ready" /\ run = "writeUART"
  /\ out' = out \o [i \in 1..ChunkLen[str[msg]] |-> <<str[msg], i - 1>>]
  /\ GetPrintMsg
  /\ Recycle
  /\ UNCHANGED <<drv, below, str, run, uxMsg, ix, txInt, drain, caller>>

-----------------------------------------------------------------------------
(* The transmit interrupt: raised some time after characters have been     *)
(* written, deasserted by software or, maybe, by more characters.          *)

RaiseTxInt ==
  /\ drain /\ ~txInt
  /\ txInt' = TRUE
  /\ drain' = FALSE
  /\ UNCHANGED <<drv, below, pool, str, printQ, where, msg, run, uxMsg, ix, out, caller>>

HandleDev ==
  /\ HandlerMayRun
  /\ txInt
  /\ \/ /\ ix < ChunkLen[str[uxMsg]]
        /\ out' = Append(out, <<str[uxMsg], ix>>)
        /\ ix' = ix + 1
        /\ drain' = TRUE
        /\ txInt' \in BOOLEAN
        /\ UNCHANGED <<where, msg>>
     \/ /\ ix >= ChunkLen[str[uxMsg]]
        /\ txInt' = FALSE
        /\ \/ where = "dev" /\ where' = "ready" /\ msg' = DevMsg
           \/ where # "dev" /\ UNCHANGED <<where, msg>>
        /\ UNCHANGED <<out, ix, drain>>
  /\ UNCHANGED <<drv, below, pool, str, printQ, run, uxMsg, caller>>

-----------------------------------------------------------------------------
PutStringStep == TakeMsg \/ FillMsg \/ Return \/ FindActor \/ HandMsg
RunDriver == RunInit \/ WriteFirst \/ AwaitDevInt \/ WriteAll

Next ==
  \/ \E parts \in 1..MaxParts : Call(parts)
  \/ PutStringStep
  \/ RunDriver
  \/ RaiseTxInt
  \/ HandleDev

Spec == Init /\ [][Next]_vars

(* The processor does not stop, and the UART sends what is written.        *)
Fairness ==
  /\ WF_vars(PutStringStep)
  /\ WF_vars(RunDriver)
  /\ WF_vars(RaiseTxInt)
  /\ WF_vars(HandleDev)

FairSpec == Spec /\ Fairness

-----------------------------------------------------------------------------
(* A chunk is sent whole and uninterrupted: each character is followed by  *)
(* the next one of its chunk, if there is one.                             *)
StringIntact ==
  \A k \in 1..(Len(out) - 1) :
    LET c == out[k][1] i == out[k][2] IN
      IF i + 1 < ChunkLen[c] THEN out[k + 1] = <<c, i + 1>>
      ELSE out[k + 1][2] = 0

(* The busy-waiting driver sends each chunk whole, whoever calls PutString.*)
(* The other one does not keep the promise, as its message is back in the  *)
(* pool too early.                                                         *)
BwStringIntact == drv = "bw" => StringIntact

(* PutMsg and GetMsg of the print queue are not called at two priorities.  *)
(* The busy-waiting driver is ready or in GetMsg for as long as its        *)
(* handler runs, so a caller of lower priority always finds it waiting;    *)
(* the other one waits for its interrupt meanwhile, and may come to wait   *)
(* for a message between the halves of PutMsg.                             *)
OnePrio == drv = "bw" \/ ~below

(* Chunks are sent in the order in which they are put, none is skipped and *)
(* none is sent twice: the first character of the n-th is the n-th first   *)
(* character.                                                              *)
Starts == {k \in DOMAIN out : out[k][2] = 0}
ChunksInOrder == \A k \in Starts : out[k][1] = Cardinality({j \in Starts : j <= k})

(* What has been put gets sent: from the first string on, the queue of     *)
(* print messages is always emptied again, and the driver comes back to    *)
(* wait for messages.                                                      *)
QueueEmpties ==
  OnePrio /\ calls > 0 /\ (printQ # <<>> \/ where # "print") ~> (printQ = <<>> /\ where = "print")
=============================================================================
