------------------------------- MODULE UARTkstr -------------------------------
(***************************************************************************)
(* Lines for threads of kernel-v1 (kernel-v1/UARTkstr.mod): GetString      *)
(* waits until the interrupt handler has read a line from the receive FIFO *)
(* into the buffer of the thread.                                          *)
(*                                                                         *)
(* A terminal sends a line at once, without pauses, and the next one when  *)
(* the thread has got this one, which may not have asked for it yet.  What *)
(* arrives while the FIFO is full is lost.  A printable character is its   *)
(* number in the line.                                                     *)
(***************************************************************************)
EXTENDS Integers, Sequences

CONSTANTS
  BufLens,  \* LEN(s), with room for 0X
  RxLevel,  \* characters in the FIFO that raise the receive interrupt
  RxDepth,  \* of the FIFO
  LineSizes \* printable characters in a line

ASSUME LineAssumption ==
  /\ BufLens \subseteq Nat \ {0} /\ LineSizes \subseteq Nat
  /\ RxLevel \in 1..RxDepth /\ RxDepth \in Nat

VARIABLES
  typed,    \* printable characters in this line
  sent,     \* characters of this line that have arrived
  rxFifo,
  lost,     \* characters of this line have been lost
  enabled,  \* RXIM and RTIM in IMSC
  reader,   \* the thread: "out", or in "GetString"
  bufLen, buf, cnt, res, \* of uartInt; buf is what is in the buffer
  rxInt,    \* the handler: "off", or which interrupt it has found
  ch, overflow \* locals of the handler

lineVars == <<typed, sent, rxFifo, lost, enabled, reader, bufLen, buf, cnt, res, rxInt, ch, overflow>>
uartInt == <<bufLen, buf, cnt, res>>

EolChar == -1 \* EOL
ZeroChar == 0 \* 0X

LineInit ==
  /\ typed \in LineSizes /\ sent = 0 /\ rxFifo = <<>> /\ lost = FALSE
  /\ enabled = FALSE /\ reader = "out"
  /\ bufLen \in BufLens /\ buf = <<>> /\ cnt = 0 /\ res = "NoError"
  /\ rxInt = "off" /\ ch = ZeroChar /\ overflow = FALSE

-----------------------------------------------------------------------------
LineSent == sent = typed + 1

\* A character arrives, in the FIFO if there is room
TypeChar ==
  /\ ~LineSent
  /\ sent' = sent + 1
  /\ \/ /\ Len(rxFifo) < RxDepth
        /\ rxFifo' = Append(rxFifo, IF sent < typed THEN sent + 1 ELSE EolChar)
        /\ UNCHANGED lost
     \/ /\ Len(rxFifo) = RxDepth
        /\ lost' = TRUE
        /\ UNCHANGED rxFifo
  /\ UNCHANGED <<typed, enabled, reader, uartInt, rxInt, ch, overflow>>

BeginGetString ==
  /\ reader = "out"
  /\ reader' = "GetString"
  /\ \E n \in BufLens : bufLen' = n
  /\ buf' = <<>> /\ cnt' = 0 /\ res' = "NoError"
  /\ enabled' = TRUE
  /\ UNCHANGED <<typed, sent, rxFifo, lost, rxInt, ch, overflow>>

\* AwaitDeviceFlags has found the interrupts disabled; the terminal goes on
EndGetString ==
  /\ reader = "GetString" /\ ~enabled /\ rxInt = "off"
  /\ reader' = "out"
  /\ typed' \in LineSizes
  /\ sent' = 0 /\ lost' = FALSE
  /\ UNCHANGED <<rxFifo, enabled, uartInt, rxInt, ch, overflow>>

\* The FIFO has as many characters as raise the interrupt, or no more
\* characters come and it has some
EnterRxHandler ==
  /\ enabled /\ rxInt = "off"
  /\ \/ Len(rxFifo) >= RxLevel /\ rxInt' = "level"
     \/ Len(rxFifo) \in 1..(RxLevel - 1) /\ LineSent /\ rxInt' = "timeout"
  /\ overflow' = FALSE
  /\ UNCHANGED <<typed, sent, rxFifo, lost, enabled, reader, uartInt, ch>>

\* readFifo: control characters are left out, and so is what has no room
ReadFifo ==
  /\ rxInt # "off" /\ rxFifo # <<>>
  /\ ch' = Head(rxFifo)
  /\ rxFifo' = Tail(rxFifo)
  /\ IF ch' > ZeroChar
     THEN /\ overflow' = (cnt = bufLen)
          /\ IF overflow' THEN UNCHANGED <<buf, cnt>> ELSE buf' = Append(buf, ch') /\ cnt' = cnt + 1
     ELSE UNCHANGED <<buf, cnt, overflow>>
  /\ UNCHANGED <<typed, sent, lost, enabled, reader, bufLen, res, rxInt>>

\* Mutant of LineEnds: the end of a line that leaves no timeout is not looked for
LineEnds_Timeout == rxInt = "timeout"

LineEnds == rxInt = "timeout" \/ ch = EolChar

\* The FIFO is empty: the line is complete, or more is to come
LeaveRxHandler ==
  /\ rxInt # "off" /\ rxFifo = <<>>
  /\ \/ /\ LineEnds
        /\ buf' = Append(buf, ZeroChar)
        /\ res' = IF overflow THEN "BufferOverflow" ELSE res
        /\ enabled' = FALSE
     \/ ~LineEnds /\ UNCHANGED <<buf, res, enabled>>
  /\ rxInt' = "off"
  /\ UNCHANGED <<typed, sent, rxFifo, lost, reader, bufLen, cnt, ch, overflow>>

RxHandler == EnterRxHandler \/ ReadFifo \/ LeaveRxHandler
LineNext == TypeChar \/ BeginGetString \/ EndGetString \/ RxHandler
LineSpec == LineInit /\ [][LineNext]_lineVars

\* What has been begun is sent, the processor does not stop, and the thread
\* runs again after its flags
FairLineSpec ==
  LineSpec /\ WF_lineVars(TypeChar) /\ WF_lineVars(RxHandler) /\ WF_lineVars(EndGetString)

-----------------------------------------------------------------------------
Received == reader = "GetString" /\ ~enabled /\ rxInt = "off"
Typed(n) == [i \in 1..n |-> i]

(* However its characters fall to interrupts, a line of which none is lost *)
(* arrives whole if it leaves room for 0X: with 0X behind it, both in the  *)
(* buffer, and reported without error.  Of a longer one as many characters *)
(* arrive as the buffer has room for; what becomes of its 0X and of the    *)
(* report is for the next two properties.                                  *)
LineReceived ==
  Received =>
    /\ LineSent /\ rxFifo = <<>>
    /\ ~lost /\ typed < bufLen =>
         cnt = typed /\ buf = Typed(typed) \o <<ZeroChar>> /\ Len(buf) <= bufLen /\ res = "NoError"
    /\ ~lost /\ typed >= bufLen => cnt = bufLen /\ SubSeq(buf, 1, bufLen) = Typed(bufLen)

(* The string is cut to the length of the buffer, 0X at its end included,  *)
(* as Texts.ReadString has it.  The code does not keep this: 0X goes       *)
(* behind the buffer that a line has filled.                               *)
ZeroInBuffer == Received => Len(buf) <= bufLen

(* A line that has more characters than the buffer is reported as such.    *)
(* The code does not keep this: of the interrupts that bring the line, only *)
(* the last one tells, and only of the last printable character it reads.  *)
OverflowReported == Received /\ ~lost /\ typed > bufLen => res = "BufferOverflow"

(* GetString returns when a line has been sent, whatever its length, if    *)
(* none of it is lost: it waits for the end of the line.                   *)
GetStringReturns == (reader = "GetString" /\ enabled) ~> (reader = "out" \/ lost)
=============================================================================
