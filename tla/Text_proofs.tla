----------------------------- MODULE Text_proofs ------------------------------
(***************************************************************************)
(* Proofs about the text that the UART drivers send and receive: the lines *)
(* of GetString of kernel-v1 (UARTkstr) and the strings of PutString of    *)
(* kernel-v4 (UARTstrK), for lines, strings, buffers and FIFOs of any      *)
(* length, and for the two side by side with the other devices.            *)
(***************************************************************************)
EXTENDS MC_Devices, QueueLemmas, FiniteSetTheorems

-----------------------------------------------------------------------------
(* Lines.                                                                  *)

\* The i-th character of this line, and how many of it have left the FIFO
CharOfLine(i) == IF i <= typed THEN i ELSE EolChar
Taken == sent - Len(rxFifo)

LineTypes ==
  /\ typed \in Nat /\ sent \in 0..(typed + 1)
  /\ rxFifo \in Seq(Int) /\ Len(rxFifo) <= sent /\ lost \in BOOLEAN
  /\ reader \in {"out", "GetString"} /\ enabled \in BOOLEAN
  /\ bufLen \in Nat \ {0} /\ cnt \in Nat /\ buf \in Seq(Nat)
  /\ ch \in Int /\ overflow \in BOOLEAN

\* The handler runs for a thread in GetString; nobody else takes characters
LineStages ==
  /\ rxInt # "off" => enabled
  /\ enabled => reader = "GetString"
  /\ reader = "out" /\ ~lost => Taken = 0

\* The FIFO has the rest of what has arrived, with the end of the line last
FifoInOrder == ~lost => \A i \in 1..Len(rxFifo) : rxFifo[i] = CharOfLine(Taken + i)
EndIsLast == \A i \in 1..Len(rxFifo) : rxFifo[i] = EolChar => LineSent

\* What has been taken is in the buffer, as far as there is room
Filled ==
  enabled /\ ~lost =>
    /\ \/ cnt = Taken /\ cnt <= typed /\ cnt <= bufLen
       \/ cnt < Taken /\ cnt = typed /\ cnt <= bufLen
       \/ cnt < Taken /\ cnt = bufLen /\ cnt <= typed
    /\ buf = [i \in 1..cnt |-> i]
    /\ res = "NoError"

\* What the handler knows when it has emptied the FIFO: the last character is
\* of this line, and with a timeout nothing more comes
HandlerKnows ==
  rxInt # "off" =>
    /\ rxFifo = <<>> => /\ ch = EolChar => LineSent
                        /\ ~lost => Taken >= 1 /\ ch = CharOfLine(Taken)
    /\ rxInt = "timeout" => LineSent
    /\ overflow /\ ~lost => typed > bufLen

LineInv ==
  LineTypes /\ LineStages /\ FifoInOrder /\ EndIsLast /\ Filled /\ HandlerKnows /\ LineReceived

(* An empty sequence, by its name.                                         *)
LEMMA EmptyHasNone == \A q : q = <<>> => Len(q) = 0 /\ q \in Seq(Int) /\ q \in Seq(Nat)
<1>1. Len(<<>>) = 0 /\ <<>> \in Seq(Int) /\ <<>> \in Seq(Nat)
  OBVIOUS
<1> QED BY ONLY <1>1, Zenon

LEMMA LineInitially == LineInit => LineInv
<1> SUFFICES ASSUME LineInit PROVE LineInv
  OBVIOUS
<1> USE LineAssumption DEF LineInit
<1>0. Len(rxFifo) = 0 /\ rxFifo \in Seq(Int) /\ buf \in Seq(Nat)
  BY EmptyHasNone, Zenon
<1>1. LineTypes /\ Taken = 0
  <2>1. typed \in Nat /\ bufLen \in Nat \ {0} /\ sent = 0 /\ rxFifo = <<>> /\ buf = <<>>
    OBVIOUS
  <2>2. /\ sent \in 0..(typed + 1) /\ Len(rxFifo) <= sent /\ rxFifo \in Seq(Int) /\ buf \in Seq(Nat)
        /\ Taken = 0
    BY ONLY <1>0, <2>1 DEF Taken
  <2>3. lost \in BOOLEAN /\ reader \in {"out", "GetString"} /\ enabled \in BOOLEAN /\ overflow \in BOOLEAN
    OBVIOUS
  <2>4. cnt \in Nat /\ ch \in Int
    BY DEF ZeroChar
  <2> HIDE DEF LineInit
  <2> QED BY <2>1, <2>2, <2>3, <2>4 DEF LineTypes
<1>2. LineStages /\ FifoInOrder /\ EndIsLast /\ Filled /\ HandlerKnows /\ LineReceived
  BY <1>0, <1>1 DEF LineStages, FifoInOrder, EndIsLast, Filled, HandlerKnows, LineReceived, Received
<1> QED BY <1>1, <1>2 DEF LineInv

(* A character that arrives goes to the end of the FIFO, if there is room.  *)
LEMMA LineArrives == LineInv /\ TypeChar => LineInv'
<1> SUFFICES ASSUME LineInv, TypeChar PROVE LineInv'
  OBVIOUS
<1> DEFINE c == IF sent < typed THEN sent + 1 ELSE EolChar
<1> USE DEF LineInv, LineTypes
<1>0. /\ sent' = sent + 1 /\ sent' \in 0..(typed + 1)
      /\ UNCHANGED <<typed, enabled, reader, uartInt, rxInt, ch, overflow>> /\ ~LineSent
  BY DEF TypeChar, LineSent
<1>1. c \in Int /\ c = CharOfLine(sent + 1) /\ (c = EolChar => LineSent')
  BY <1>0 DEF CharOfLine, EolChar, LineSent
<1> HIDE DEF c
<1>2. LineReceived'
  BY <1>0 DEF LineReceived, Received, uartInt
<1>3. CASE rxFifo' = Append(rxFifo, c) /\ lost' = lost
  <2>2. /\ rxFifo' \in Seq(Int) /\ Len(rxFifo') = Len(rxFifo) + 1
        /\ rxFifo'[Len(rxFifo) + 1] = c /\ rxFifo' # <<>>
        /\ \A i \in 1..Len(rxFifo) : rxFifo'[i] = rxFifo[i]
    BY <1>1, <1>3, SMTT(30)
  <2>4. Taken' = Taken /\ Taken \in Nat /\ Len(rxFifo') <= sent'
    BY <2>2, <1>0 DEF Taken
  <2>5. LineTypes' /\ LineStages'
    BY <1>0, <1>3, <2>2, <2>4 DEF LineStages, uartInt
  <2>6. \A i \in 1..(Len(rxFifo) + 1) : i \in 1..Len(rxFifo) \/ i = Len(rxFifo) + 1
    OBVIOUS
  <2>7. FifoInOrder'
    <3>1. Taken + (Len(rxFifo) + 1) = sent + 1
      BY DEF Taken
    <3> QED BY <1>0, <1>1, <1>3, <2>2, <2>4, <2>6, <3>1 DEF FifoInOrder, CharOfLine
  <2>8. EndIsLast'
    BY <1>0, <1>1, <2>2, <2>6 DEF EndIsLast
  <2>9. Filled' /\ HandlerKnows'
    BY <1>0, <1>3, <2>2, <2>4 DEF Filled, HandlerKnows, LineSent, uartInt
  <2> QED BY <1>2, <2>5, <2>7, <2>8, <2>9
<1>4. CASE Len(rxFifo) = RxDepth /\ rxFifo' = rxFifo /\ lost' = TRUE
  <2>1. rxFifo' # <<>>
    BY <1>4, LineAssumption, EmptyHasNone
  <2>2. LineTypes' /\ LineStages' /\ FifoInOrder'
    BY <1>0, <1>4 DEF LineStages, FifoInOrder, uartInt
  <2>3. EndIsLast'
    BY <1>0, <1>4 DEF EndIsLast
  <2>4. Filled' /\ HandlerKnows'
    BY <1>0, <1>4, <2>1 DEF Filled, HandlerKnows, LineSent, uartInt
  <2> QED BY <1>2, <2>2, <2>3, <2>4
<1> QED BY <1>3, <1>4 DEF TypeChar, c

(* The thread comes in, and goes out with its line.                        *)
LEMMA LineCalls == LineInv /\ (BeginGetString \/ EndGetString) => LineInv'
<1> USE LineAssumption DEF LineInv, LineTypes
<1>1. ASSUME LineInv, BeginGetString PROVE LineInv'
  <2>1. /\ Taken' = Taken /\ (~lost => Taken = 0) /\ rxInt = "off" /\ rxInt' = "off"
        /\ reader' = "GetString" /\ lost' = lost
    BY <1>1 DEF BeginGetString, Taken, LineStages
  <2>2. LineTypes' /\ LineStages'
    BY <1>1, <2>1 DEF BeginGetString, LineStages
  <2>3. FifoInOrder' /\ EndIsLast'
    BY <1>1, <2>1 DEF BeginGetString, FifoInOrder, CharOfLine, EndIsLast, LineSent
  <2>4. Filled' /\ HandlerKnows' /\ LineReceived'
    BY <1>1, <2>1 DEF BeginGetString, Filled, HandlerKnows, LineReceived, Received
  <2> QED BY <2>2, <2>3, <2>4
<1>2. ASSUME LineInv, EndGetString PROVE LineInv'
  <2>1. rxFifo = <<>> /\ rxFifo' = <<>> /\ ~enabled' /\ rxInt' = "off" /\ reader' = "out" /\ lost' = FALSE
    BY <1>2 DEF EndGetString, LineReceived, Received
  <2>0. Len(rxFifo') = 0
    BY ONLY <2>1, EmptyHasNone, Zenon
  <2>2. typed' \in Nat /\ sent' = 0 /\ Taken' = 0
    <3>1. typed' \in LineSizes /\ sent' = 0 /\ Len(rxFifo') = 0
      BY <1>2, <2>0 DEF EndGetString
    <3> QED BY <3>1 DEF Taken
  <2>3. LineTypes'
    <3>1. UNCHANGED <<enabled, bufLen, buf, cnt, ch, overflow>> /\ Len(rxFifo') = 0
      BY <1>2, <2>0 DEF EndGetString, uartInt
    <3>2. rxFifo' \in Seq(Int)
      BY <2>1
    <3>3. sent' \in 0..(typed' + 1) /\ Len(rxFifo') <= sent'
      <4>1. \A x \in Nat, y \in {0} : y \in 0..(x + 1) /\ y <= y
        OBVIOUS
      <4> QED BY <2>2, <2>0, <4>1, Zenon
    <3>5. lost' \in BOOLEAN /\ reader' \in {"out", "GetString"} /\ enabled' \in BOOLEAN
      BY <1>2, <2>1, <3>1
    <3>4. /\ bufLen' \in Nat \ {0} /\ cnt' \in Nat /\ buf' \in Seq(Nat)
          /\ ch' \in Int /\ overflow' \in BOOLEAN
      BY <1>2, <3>1
    <3> QED BY <2>2, <3>2, <3>3, <3>4, <3>5
  <2>6. LineStages'
    BY <2>1, <2>2 DEF LineStages
  <2>4. FifoInOrder' /\ EndIsLast' /\ Filled' /\ HandlerKnows' /\ LineReceived'
    BY <2>0, <2>1 DEF FifoInOrder, EndIsLast, Filled, HandlerKnows, LineReceived, Received
  <2> QED BY <2>3, <2>4, <2>6
<1> QED BY <1>1, <1>2

(* The handler takes a character from the FIFO.                            *)
LEMMA LineIsRead == LineInv /\ ReadFifo => LineInv'
<1> SUFFICES ASSUME LineInv, ReadFifo PROVE LineInv'
  OBVIOUS
<1> USE DEF LineInv, LineTypes
<1>1. /\ Len(rxFifo) \in Nat \ {0} /\ ch' = rxFifo[1]
      /\ rxFifo' \in Seq(Int) /\ Len(rxFifo') = Len(rxFifo) - 1
      /\ \A i \in 1..(Len(rxFifo) - 1) : rxFifo'[i] = rxFifo[i + 1]
      /\ rxFifo' = <<>> => Len(rxFifo) = 1
  <2>1. rxFifo # <<>> /\ ch' = Head(rxFifo) /\ rxFifo' = Tail(rxFifo) /\ rxFifo \in Seq(Int)
    BY DEF ReadFifo
  <2>2. Len(rxFifo) \in Nat \ {0} /\ Head(rxFifo) = rxFifo[1]
    BY <2>1
  <2>3. /\ Tail(rxFifo) \in Seq(Int) /\ Len(Tail(rxFifo)) = Len(rxFifo) - 1
        /\ \A i \in 1..(Len(rxFifo) - 1) : Tail(rxFifo)[i] = rxFifo[i + 1]
    BY <2>1, <2>2
  <2>4. Tail(rxFifo) = <<>> => Len(rxFifo) = 1
    <3>1. Tail(rxFifo) = <<>> => Len(Tail(rxFifo)) = 0
      BY ONLY EmptyHasNone, Zenon
    <3> QED BY <2>2, <2>3, <3>1
  <2> QED BY <2>1, <2>2, <2>3, <2>4
<1>2. UNCHANGED <<typed, sent, lost, enabled, reader, bufLen, res, rxInt>> /\ rxInt # "off"
  BY DEF ReadFifo
<1>3. Taken' = Taken + 1 /\ Taken \in Nat /\ enabled /\ reader = "GetString"
  BY <1>1, <1>2 DEF Taken, LineStages
<1>4. /\ ~lost => ch' = CharOfLine(Taken + 1)
      /\ ch' \in Int /\ (ch' = EolChar => LineSent)
  BY <1>1 DEF FifoInOrder, EndIsLast
<1>5. FifoInOrder'
  <2> SUFFICES ASSUME ~lost, NEW i \in 1..(Len(rxFifo) - 1)
               PROVE  rxFifo'[i] = CharOfLine(Taken + 1 + i)
    BY <1>1, <1>2, <1>3 DEF FifoInOrder, CharOfLine
  <2>1. rxFifo'[i] = rxFifo[i + 1] /\ i + 1 \in 1..Len(rxFifo) /\ Taken + (i + 1) = Taken + 1 + i
    BY <1>1, <1>3
  <2> QED BY <2>1 DEF FifoInOrder
<1>10. EndIsLast'
  <2> SUFFICES ASSUME NEW i \in 1..(Len(rxFifo) - 1), rxFifo'[i] = EolChar PROVE LineSent
    BY <1>1, <1>2 DEF EndIsLast, LineSent
  <2>1. rxFifo'[i] = rxFifo[i + 1] /\ i + 1 \in 1..Len(rxFifo)
    BY <1>1
  <2> QED BY <2>1 DEF EndIsLast
<1>6. LineStages' /\ LineReceived'
  BY <1>2, <1>3 DEF LineStages, LineReceived, Received
<1>11. cnt' \in Nat /\ buf' \in Seq(Nat) /\ overflow' \in BOOLEAN
  <2>1. CASE ch' > ZeroChar
    <3>1. /\ overflow' = (cnt = bufLen) /\ ch' \in Nat
          /\ \/ UNCHANGED <<buf, cnt>>
             \/ buf' = Append(buf, ch') /\ cnt' = cnt + 1
      BY <1>4, <2>1 DEF ReadFifo, ZeroChar
    <3>2. overflow' \in BOOLEAN
      BY <3>1
    <3>3. buf \in Seq(Nat) /\ cnt \in Nat
      OBVIOUS
    <3>4. \A q \in Seq(Nat), x \in Nat : Append(q, x) \in Seq(Nat)
      OBVIOUS
    <3>5. cnt' \in Nat /\ buf' \in Seq(Nat)
      BY ONLY <3>1, <3>3, <3>4
    <3> QED BY <3>2, <3>5
  <2>2. CASE ~(ch' > ZeroChar)
    <3>1. UNCHANGED <<buf, cnt, overflow>>
      BY <2>2 DEF ReadFifo
    <3> QED BY <3>1
  <2> QED BY <2>1, <2>2
<1>7. ASSUME ~lost PROVE Filled' /\ (overflow' => typed > bufLen)
  <2> USE <1>7
  <2>0. overflow => typed > bufLen
    BY <1>2 DEF HandlerKnows
  <2>1. CASE Taken + 1 > typed
    <3>1. ~(ch' > ZeroChar)
      BY <1>3, <1>4, <2>1 DEF CharOfLine, ZeroChar, EolChar
    <3>2. UNCHANGED <<buf, cnt, overflow>>
      BY <3>1 DEF ReadFifo
    <3>3. Filled'
      BY <1>2, <1>3, <2>1, <3>2 DEF Filled
    <3> QED BY <1>2, <2>0, <3>2, <3>3
  <2>2. CASE Taken + 1 <= typed /\ cnt = bufLen
    <3>1. ch' > ZeroChar
      BY <1>3, <1>4, <2>2 DEF CharOfLine, ZeroChar
    <3>2. UNCHANGED <<buf, cnt>> /\ overflow' = TRUE
      BY <3>1, <2>2 DEF ReadFifo
    <3>3. Filled' /\ cnt <= Taken
      BY <1>2, <1>3, <2>2, <3>2 DEF Filled
    <3> QED BY <1>2, <1>3, <2>2, <3>2, <3>3
  <2>3. CASE Taken + 1 <= typed /\ cnt # bufLen
    <3>1. ch' > ZeroChar /\ ch' = Taken + 1 /\ cnt = Taken
      BY <1>3, <1>4, <2>3 DEF CharOfLine, ZeroChar, Filled
    <3>2. buf' = Append(buf, cnt + 1) /\ cnt' = cnt + 1 /\ overflow' = FALSE
      BY <3>1, <2>3 DEF ReadFifo
    <3>3. buf = [i \in 1..cnt |-> i]
      BY <1>3 DEF Filled
    <3>4. buf' = [i \in 1..(cnt + 1) |-> i]
      BY <3>2, <3>3
    <3>5. cnt' = Taken' /\ cnt' <= typed' /\ cnt' <= bufLen'
      BY <1>2, <1>3, <2>3, <3>1, <3>2 DEF Filled
    <3>6. Filled'
      BY <1>2, <1>3, <3>2, <3>4, <3>5 DEF Filled
    <3> QED BY <3>2, <3>6
  <2> QED BY <1>3, <2>1, <2>2, <2>3
<1>8. LineTypes'
  BY <1>1, <1>2, <1>4, <1>11
<1>12. Filled'
  BY <1>2, <1>7 DEF Filled
<1>9. HandlerKnows'
  BY <1>2, <1>3, <1>4, <1>7 DEF HandlerKnows, LineSent, CharOfLine
<1> QED BY <1>5, <1>6, <1>8, <1>9, <1>10, <1>12

(* The handler begins, and ends with the line or waits for more of it.     *)
LEMMA LineHandled == LineInv /\ (EnterRxHandler \/ LeaveRxHandler) => LineInv'
<1> USE DEF LineInv, LineTypes
<1>1. ASSUME LineInv, EnterRxHandler PROVE LineInv'
  <2>1. /\ UNCHANGED <<typed, sent, rxFifo, lost, enabled, reader, uartInt, ch>>
        /\ enabled /\ overflow' = FALSE /\ Taken' = Taken
        /\ rxInt' = "timeout" => LineSent
    BY <1>1 DEF EnterRxHandler, Taken
  <2>2. rxFifo # <<>>
    BY <1>1, LineAssumption DEF EnterRxHandler
  <2>3. LineTypes' /\ LineStages' /\ FifoInOrder' /\ EndIsLast'
    BY <1>1, <2>1 DEF LineStages, FifoInOrder, EndIsLast, LineSent, CharOfLine, uartInt
  <2>4. Filled' /\ HandlerKnows' /\ LineReceived'
    BY <1>1, <2>1, <2>2 DEF Filled, HandlerKnows, LineSent, LineReceived, Received, uartInt
  <2> QED BY <2>3, <2>4
<1>2. ASSUME LineInv, LeaveRxHandler, LineEnds PROVE LineInv'
  <2>1. /\ UNCHANGED <<typed, sent, rxFifo, lost, reader, bufLen, cnt, ch, overflow>>
        /\ rxInt # "off" /\ rxInt' = "off" /\ rxFifo = <<>>
        /\ buf' = Append(buf, ZeroChar) /\ ~enabled' /\ enabled' \in BOOLEAN
        /\ res' = IF overflow THEN "BufferOverflow" ELSE res
    BY <1>2 DEF LeaveRxHandler
  <2>2. Taken' = Taken /\ Taken = sent /\ sent \in Nat
    BY <1>2, <2>1 DEF Taken
  <2>3. LineSent
    BY <1>2, <2>1 DEF LineEnds, HandlerKnows
  <2>4. ~lost => /\ cnt = (IF typed < bufLen THEN typed ELSE bufLen)
                 /\ buf = [i \in 1..cnt |-> i] /\ res = "NoError"
    BY <1>2, <2>1, <2>2, <2>3 DEF Filled, LineStages, LineSent
  <2>5. ~lost /\ typed < bufLen => ~overflow
    BY <1>2, <2>1 DEF HandlerKnows
  <2>6. ASSUME ~lost
        PROVE  /\ buf' = Typed(cnt) \o <<ZeroChar>> /\ Len(buf') = cnt + 1
               /\ SubSeq(buf', 1, cnt) = Typed(cnt)
    <3>1. buf = Typed(cnt) /\ buf \in Seq(Nat) /\ Len(buf) = cnt /\ cnt \in Nat
      BY <1>2, <2>4, <2>6 DEF Typed
    <3>2. buf' = buf \o <<ZeroChar>> /\ Len(buf') = cnt + 1
      BY <2>1, <3>1 DEF ZeroChar
    <3>3. \A i \in 1..cnt : buf'[i] = i
      BY <2>1, <3>1 DEF Typed, ZeroChar
    <3>4. SubSeq(buf', 1, cnt) = Typed(cnt)
      BY <3>1, <3>2, <3>3 DEF Typed
    <3> QED BY <3>1, <3>2, <3>4
  <2>7. LineReceived'
    <3>1. CASE lost
      BY <2>1, <2>3, <3>1 DEF LineReceived, LineSent
    <3>2. CASE ~lost /\ typed < bufLen
      BY <1>2, <2>1, <2>3, <2>4, <2>5, <2>6, <3>2 DEF LineReceived, LineSent
    <3>3. CASE ~lost /\ typed >= bufLen
      <4>1. cnt = bufLen /\ SubSeq(buf', 1, bufLen) = Typed(bufLen)
        BY <1>2, <2>4, <2>6, <3>3
      <4>2. ~(typed' < bufLen') /\ cnt' = bufLen' /\ SubSeq(buf', 1, bufLen') = Typed(bufLen')
        <5>1. typed' = typed /\ bufLen' = bufLen /\ cnt' = cnt
          BY <2>1
        <5>2. ~(typed < bufLen)
          BY <1>2, <3>3
        <5> QED BY ONLY <4>1, <5>1, <5>2, Zenon
      <4>3. LineSent' /\ rxFifo' = <<>>
        BY <2>1, <2>3 DEF LineSent
      <4> QED BY ONLY <4>2, <4>3, SMT DEF LineReceived, Typed
    <3> QED BY <1>2, <3>1, <3>2, <3>3
  <2>8. LineTypes' /\ LineStages' /\ FifoInOrder' /\ EndIsLast'
    BY <1>2, <2>1, <2>2 DEF LineStages, FifoInOrder, CharOfLine, EndIsLast, LineSent, ZeroChar
  <2>9. Filled' /\ HandlerKnows'
    BY <2>1 DEF Filled, HandlerKnows
  <2> QED BY <2>7, <2>8, <2>9
<1>3. ASSUME LineInv, LeaveRxHandler, ~LineEnds PROVE LineInv'
  <2>1. /\ UNCHANGED <<typed, sent, rxFifo, lost, reader, bufLen, cnt, ch, overflow, buf, res, enabled>>
        /\ rxInt # "off" /\ rxInt' = "off"
    BY <1>3 DEF LeaveRxHandler
  <2>2. Taken' = Taken /\ enabled
    BY <1>3, <2>1 DEF Taken, LineStages
  <2>3. LineTypes' /\ LineStages' /\ FifoInOrder' /\ EndIsLast'
    BY <1>3, <2>1, <2>2 DEF LineStages, FifoInOrder, EndIsLast, LineSent, CharOfLine
  <2>4. Filled' /\ HandlerKnows' /\ LineReceived'
    BY <1>3, <2>1, <2>2 DEF Filled, HandlerKnows, LineReceived, Received
  <2> QED BY <2>3, <2>4
<1> QED BY <1>1, <1>2, <1>3 DEF LeaveRxHandler

LEMMA LineStep == LineInv /\ [LineNext]_lineVars => LineInv'
<1> SUFFICES ASSUME LineInv, [LineNext]_lineVars PROVE LineInv'
  OBVIOUS
<1>1. CASE UNCHANGED lineVars
  <2>1. LineTypes' /\ LineStages' /\ FifoInOrder' /\ EndIsLast'
    BY <1>1 DEF LineInv, LineTypes, LineStages, FifoInOrder, EndIsLast, LineSent, CharOfLine, Taken,
                lineVars
  <2>2. Filled' /\ HandlerKnows' /\ LineReceived'
    BY <1>1 DEF LineInv, Filled, HandlerKnows, LineReceived, Received, LineSent, CharOfLine,
                Taken, lineVars
  <2> QED BY <2>1, <2>2 DEF LineInv
<1>2. CASE LineNext
  BY <1>2, LineArrives, LineCalls, LineIsRead, LineHandled DEF LineNext, RxHandler
<1> QED BY <1>1, <1>2

(* GetString returns with the line that was typed, whole if there is room  *)
(* for 0X, and else as much of it as fits the buffer, however its          *)
(* characters have arrived, if none is lost.                               *)
THEOREM LineIsReceived == LineSpec => []LineReceived
<1>1. LineInv => LineReceived
  BY DEF LineInv
<1> QED BY <1>1, LineInitially, LineStep, PTL DEF LineSpec

-----------------------------------------------------------------------------
(* Strings, put at the priority of the driver, or below the one that waits *)
(* for room.                                                               *)

\* The driver has a message and has not begun to send it; PutString has one
Loaded == where = "ready" /\ run = "writeUART"
Holding == pc \in {"fill", "put", "hand"}
Putting == pc \in {"put", "hand"}

One(b) == IF b THEN 1 ELSE 0
Begun == Cardinality(Starts)

StringTypes ==
  /\ drv \in Drivers /\ below \in BOOLEAN
  /\ pool \in Seq(Msgs) /\ printQ \in Seq(Msgs) /\ str \in [Msgs -> Nat]
  /\ where \in {"ready", "print", "dev", "hand"}
  /\ run \in {"init", "writeUART", "awaitDevInt"}
  /\ ix \in Nat /\ txInt \in BOOLEAN /\ drain \in BOOLEAN /\ out \in Seq(Nat \X Nat)
  /\ pc \in {"idle", "next", "fill", "put", "hand"}
  /\ left \in Nat /\ made \in Nat /\ calls \in 0..MaxCalls

\* No more chunks than the calls may have
Counted ==
  /\ made + left <= (calls * MaxParts) + One(Putting)
  /\ pc = "idle" => left = 0
  /\ Holding => left >= 1

\* Where the driver waits tells what it does next; interrupts are for a
\* message whose first character is sent
DriverStages ==
  /\ where \in {"print", "hand"} => printQ = <<>> /\ run = "writeUART"
  /\ where = "print" => pc # "hand"
  /\ where = "hand" => pc = "hand"
  /\ below /\ pc = "hand" => where = "hand"
  /\ where = "dev" => run = "awaitDevInt"
  /\ where = "ready" /\ run = "awaitDevInt" => msg = DevMsg
  /\ run = "init" => where = "ready" /\ msg = NIL
  /\ drain \/ txInt => ix >= 1 /\ uxMsg \in Msgs
  /\ drv = "bw" => ~drain /\ ~txInt /\ run # "awaitDevInt"
  /\ drv = "bw" \/ ~below

\* What is in the pool is nowhere else
FreeInPool ==
  /\ IsInjective(pool)
  /\ \A i \in 1..Len(printQ) : printQ[i] \notin Range(pool)
  /\ Loaded => msg \in Msgs /\ msg \notin Range(pool)
  /\ Holding => /\ m \in Msgs /\ m \notin Range(pool) /\ (Loaded => msg # m)
                /\ \A i \in 1..Len(printQ) : printQ[i] # m

\* The chunks on their way have the numbers that follow those begun
Numbered ==
  /\ Loaded => str[msg] = Begun + 1
  /\ \A i \in 1..Len(printQ) : str[printQ[i]] = Begun + One(Loaded) + i
  /\ Putting => str[m] = made
  /\ made = Begun + One(Loaded) + Len(printQ) + One(Putting)

\* The busy-waiting driver stops at the end of a chunk
AtChunkEnd ==
  drv = "bw" /\ out # <<>> => out[Len(out)][2] + 1 = ChunkLen[out[Len(out)][1]]

StringInv ==
  /\ StringTypes /\ Counted /\ DriverStages /\ FreeInPool /\ Numbered
  /\ AtChunkEnd /\ BwStringIntact /\ ChunksInOrder

LEMMA OneIs == ASSUME NEW b PROVE (b => One(b) = 1) /\ (~b => One(b) = 0)
BY DEF One

LEMMA StartsCounted == StringTypes => IsFiniteSet(Starts) /\ Begun \in Nat
<1> SUFFICES ASSUME StringTypes PROVE IsFiniteSet(Starts) /\ Begun \in Nat
  OBVIOUS
<1>1. out \in Seq(Nat \X Nat) /\ Len(out) \in Nat /\ DOMAIN out = 1..Len(out)
  BY DEF StringTypes
<1>2. IsFiniteSet(1..Len(out)) /\ Starts \subseteq 1..Len(out)
  <2>1. IsFiniteSet(1..Len(out))
    BY <1>1, FS_Interval
  <2> QED BY <1>1, <2>1 DEF Starts
<1>3. IsFiniteSet(Starts)
  BY <1>2, FS_Subset
<1> QED BY <1>3, FS_CardinalityType DEF Begun

(* A chunk that is gone on with does not begin.                            *)
LEMMA GoesOn ==
  ASSUME StringTypes, out' \in Seq(Nat \X Nat), Len(out') = Len(out) + 1,
         \A i \in 1..Len(out) : out'[i] = out[i], out'[Len(out) + 1][2] # 0
  PROVE  Begun' = Begun /\ (ChunksInOrder => ChunksInOrder')
<1>1. /\ Len(out) \in Nat /\ DOMAIN out = 1..Len(out)
      /\ Len(out') \in Nat /\ DOMAIN out' = 1..(Len(out) + 1)
  BY DEF StringTypes
<1>2. \A i \in 1..(Len(out) + 1) : i \in 1..Len(out) \/ i = Len(out) + 1
  BY <1>1
<1>3. 1..Len(out) \subseteq 1..(Len(out) + 1)
  BY <1>1
<1>4. Starts' = Starts
  BY <1>1, <1>2, <1>3 DEF Starts
<1>5. \A k \in Starts : out'[k] = out[k]
  BY <1>1 DEF Starts
<1> QED BY <1>4, <1>5 DEF Begun, ChunksInOrder

(* The chunk after those begun begins.                                     *)
LEMMA GoesToNext ==
  ASSUME StringTypes, out' \in Seq(Nat \X Nat), Len(out') >= Len(out) + 1,
         \A i \in 1..Len(out) : out'[i] = out[i], out'[Len(out) + 1] = <<Begun + 1, 0>>,
         \A i \in (Len(out) + 2)..Len(out') : out'[i][2] # 0
  PROVE  Begun' = Begun + 1 /\ (ChunksInOrder => ChunksInOrder')
<1> DEFINE l == Len(out)
<1>1. /\ l \in Nat /\ DOMAIN out = 1..l
      /\ Len(out') \in Nat /\ DOMAIN out' = 1..Len(out')
  BY DEF StringTypes
<1>2. Starts \subseteq 1..l /\ l + 1 \notin Starts /\ \A k \in Starts : out[k][2] = 0
  BY <1>1 DEF Starts
<1>3. out'[l + 1][2] = 0 /\ out'[l + 1][1] = Begun + 1
  OBVIOUS
<1>4. Starts' = Starts \cup {l + 1}
  <2>1. \A i \in 1..Len(out') : i \in 1..l \/ i = l + 1 \/ i \in (l + 2)..Len(out')
    BY <1>1
  <2>2. \A i \in 1..l : i \in 1..Len(out')
    BY <1>1
  <2>3. \A i \in 1..Len(out') : out'[i][2] = 0 => i \in Starts \/ i = l + 1
    BY <1>1, <2>1 DEF Starts
  <2>4. \A i \in Starts \cup {l + 1} : i \in 1..Len(out') /\ out'[i][2] = 0
    BY <1>1, <1>2, <1>3, <2>2
  <2> QED BY <1>1, <2>3, <2>4 DEF Starts
<1>5. IsFiniteSet(Starts) /\ Begun \in Nat
  BY StartsCounted
<1>6. Begun' = Begun + 1
  BY <1>2, <1>4, <1>5, FS_AddElement DEF Begun
<1>7. ASSUME ChunksInOrder PROVE ChunksInOrder'
  <2>1. ASSUME NEW k \in Starts PROVE out'[k][1] = Cardinality({j \in Starts' : j <= k})
    <3>1. k \in 1..l /\ out'[k] = out[k]
      BY <1>2
    <3>2. {j \in Starts' : j <= k} = {j \in Starts : j <= k}
      BY <1>1, <1>4, <3>1
    <3> QED BY <1>7, <3>1, <3>2 DEF ChunksInOrder
  <2>2. {j \in Starts' : j <= l + 1} = Starts'
    <3>1. \A j \in Starts' : j <= l + 1
      BY <1>1, <1>2, <1>4
    <3> HIDE DEF l
    <3> QED BY ONLY <3>1
  <2>3. out'[l + 1][1] = Cardinality({j \in Starts' : j <= l + 1})
    BY <1>3, <1>6, <2>2 DEF Begun
  <2> QED BY <1>4, <2>1, <2>3 DEF ChunksInOrder
<1> QED BY <1>6, <1>7

(* No number is needed beyond those of ChunkLen.                           *)
LEMMA ChunksSuffice ==
  ASSUME StringInv PROVE made \in 0..Len(ChunkLen)
<1>1. made \in Nat /\ calls \in Nat /\ MaxParts \in Nat /\ MaxCalls \in Nat /\ calls <= MaxCalls
  BY UARTAssumption DEF StringInv, StringTypes
<1>2. Len(ChunkLen) \in Nat /\ MaxCalls * MaxParts <= Len(ChunkLen)
  BY UARTAssumption
<1>3. calls * MaxParts <= MaxCalls * MaxParts /\ calls * MaxParts \in Nat /\ MaxCalls * MaxParts \in Nat
  BY <1>1
<1>4. left \in Nat /\ One(Putting) \in 0..1 /\ (Putting => left >= 1) /\ (~Putting => One(Putting) = 0)
  BY OneIs DEF StringInv, StringTypes, Counted, Putting, Holding, One
<1>5. made <= calls * MaxParts
  BY <1>1, <1>3, <1>4 DEF StringInv, Counted
<1> QED BY <1>1, <1>2, <1>3, <1>5

(* PutString.                                                              *)
LEMMA StringBegins ==
  ASSUME StringInv, NEW parts \in 1..MaxParts, Call(parts) PROVE StringInv'
<1> USE DEF StringInv
<1>1. /\ pc = "idle" /\ pc' = "next" /\ left' = parts /\ calls' = calls + 1 /\ calls < MaxCalls
      /\ UNCHANGED <<pool, str, printQ, where, msg, driver, m, made>>
  BY DEF Call
<1>2. UNCHANGED <<drv, below, run, uxMsg, ix, txInt, drain, out>>
  BY <1>1 DEF driver
<1>3. /\ Starts' = Starts /\ Begun' = Begun /\ ~Putting /\ ~Putting' /\ Loaded' = Loaded
      /\ ~Holding /\ ~Holding'
  BY <1>1, <1>2 DEF Starts, Begun, Putting, Holding, Loaded
<1>4. parts \in Nat /\ parts <= MaxParts /\ MaxParts \in Nat /\ MaxCalls \in Nat
  BY UARTAssumption
<1>5. calls' \in 0..MaxCalls /\ left' \in Nat
  BY <1>1, <1>4 DEF StringTypes
<1>6. StringTypes'
  BY <1>1, <1>2, <1>5 DEF StringTypes
<1>7. Counted'
  <2>1. calls \in Nat /\ made \in Nat /\ left = 0 /\ One(Putting) = 0 /\ One(Putting') = 0
    BY <1>1, <1>3, OneIs DEF StringTypes, Counted
  <2>2. calls * MaxParts \in Nat /\ (calls + 1) * MaxParts = (calls * MaxParts) + MaxParts
    BY <1>4, <2>1
  <2>3. made <= calls * MaxParts
    BY <2>1, <2>2 DEF Counted
  <2>4. made + parts <= (calls + 1) * MaxParts
    BY <1>4, <2>1, <2>2, <2>3
  <2>5. One(Putting)' = 0
    BY <1>3, OneIs
  <2> QED BY <1>1, <1>3, <1>4, <2>1, <2>2, <2>4, <2>5 DEF Counted
<1>8. DriverStages' /\ FreeInPool' /\ Numbered'
  BY <1>1, <1>2, <1>3 DEF DriverStages, FreeInPool, Numbered, One
<1>9. AtChunkEnd' /\ BwStringIntact' /\ ChunksInOrder'
  BY <1>2, <1>3 DEF AtChunkEnd, BwStringIntact, StringIntact, ChunksInOrder
<1> QED BY <1>6, <1>7, <1>8, <1>9

(* A free message is taken; without one the rest of the string is dropped. *)
LEMMA StringTakes == StringInv /\ TakeMsg => StringInv'
<1> SUFFICES ASSUME StringInv, TakeMsg PROVE StringInv'
  OBVIOUS
<1> USE DEF StringInv
<1>1. /\ pc = "next" /\ left > 0 /\ UNCHANGED <<str, printQ, where, msg, made, calls>>
      /\ UNCHANGED <<drv, below, run, uxMsg, ix, txInt, drain, out>>
  BY DEF TakeMsg, driver
<1>2. Starts' = Starts /\ Begun' = Begun /\ ~Putting /\ ~Holding /\ Loaded' = Loaded
  BY <1>1 DEF Starts, Begun, Putting, Holding, Loaded
<1>3. AtChunkEnd' /\ BwStringIntact' /\ ChunksInOrder'
  BY <1>1, <1>2 DEF AtChunkEnd, BwStringIntact, StringIntact, ChunksInOrder
<1>4. made \in Nat /\ left \in Nat /\ calls * MaxParts \in Int /\ One(Putting) = 0
  BY <1>2, OneIs, UARTAssumption DEF StringTypes
<1>5. CASE pool = <<>> /\ left' = 0 /\ UNCHANGED <<pool, pc, m>>
  <2>1. Putting' = Putting /\ Holding' = Holding
    BY <1>5 DEF Putting, Holding
  <2>2. StringTypes' /\ DriverStages' /\ FreeInPool' /\ Numbered'
    BY <1>1, <1>2, <1>5, <2>1 DEF StringTypes, DriverStages, FreeInPool, Numbered, One
  <2>3. Counted'
    BY <1>1, <1>2, <1>4, <1>5, <2>1 DEF Counted, One
  <2> QED BY <1>3, <2>2, <2>3
<1>6. CASE pool # <<>> /\ m' = Head(pool) /\ pool' = Tail(pool) /\ pc' = "fill" /\ UNCHANGED left
  <2>1. /\ m' \in Msgs /\ pool' \in Seq(Msgs) /\ m' \in Range(pool) /\ Range(pool') \subseteq Range(pool)
        /\ IsInjective(pool') /\ m' \notin Range(pool')
    <3>1. pool \in Seq(Msgs) /\ pool # <<>> /\ IsInjective(pool)
      BY <1>6 DEF StringTypes, FreeInPool
    <3>2. PICK h, r : h = Head(pool) /\ r = Tail(pool)
      OBVIOUS
    <3>3. /\ h \in Msgs /\ r \in Seq(Msgs) /\ Range(pool) = {h} \cup Range(r)
          /\ IsInjective(r) /\ h \notin Range(r)
      BY <3>1, <3>2, HeadAndTail
    <3>4. m' = h /\ pool' = r
      BY <1>6, <3>2
    <3> QED BY <3>3, <3>4
  <2>2. Holding' /\ ~Putting' /\ One(Putting)' = 0
    BY <1>6 DEF Holding, Putting, One
  <2>3. StringTypes' /\ DriverStages'
    BY <1>1, <1>6, <2>1 DEF StringTypes, DriverStages
  <2>4. Counted'
    BY <1>1, <1>4, <1>6, <2>2 DEF Counted
  <2>5. FreeInPool'
    BY <1>1, <1>2, <2>1 DEF FreeInPool
  <2>6. Numbered'
    BY <1>1, <1>2, <1>4, <2>2 DEF Numbered, One
  <2> QED BY <1>3, <2>3, <2>4, <2>5, <2>6
<1> QED BY <1>5, <1>6 DEF TakeMsg

(* The message that has been taken gets the next chunk.                    *)
LEMMA StringIsCut == StringInv /\ FillMsg => StringInv'
<1> SUFFICES ASSUME StringInv, FillMsg PROVE StringInv'
  OBVIOUS
<1> USE DEF StringInv
<1>1. /\ pc = "fill" /\ pc' = "put" /\ made' = made + 1 /\ str' = [str EXCEPT ![m] = made']
      /\ UNCHANGED <<pool, printQ, where, msg, left, m, calls>>
      /\ UNCHANGED <<drv, below, run, uxMsg, ix, txInt, drain, out>>
  BY DEF FillMsg, driver
<1>2. /\ Starts' = Starts /\ Begun' = Begun /\ ~Putting /\ Putting' /\ Holding /\ Holding'
      /\ Loaded' = Loaded
  BY <1>1 DEF Starts, Begun, Putting, Holding, Loaded
<1>3. AtChunkEnd' /\ BwStringIntact' /\ ChunksInOrder'
  BY <1>1, <1>2 DEF AtChunkEnd, BwStringIntact, StringIntact, ChunksInOrder
<1>4. /\ Begun \in Nat /\ Len(printQ) \in Nat /\ made \in Nat /\ left \in Nat /\ left >= 1
      /\ calls * MaxParts \in Int /\ One(Putting) = 0 /\ One(Putting)' = 1
      /\ One(Loaded)' = One(Loaded) /\ One(Loaded) \in Nat
  BY <1>2, StartsCounted, UARTAssumption DEF StringTypes, Counted, One
<1>5. /\ m \in Msgs /\ str' \in [Msgs -> Nat] /\ str'[m] = made + 1
      /\ \A x \in Msgs : x # m => str'[x] = str[x]
  BY <1>1, <1>2, <1>4 DEF StringTypes, FreeInPool
<1>6. StringTypes' /\ DriverStages'
  <2>1. made' \in Nat
    BY <1>1, <1>4
  <2> QED BY <1>1, <1>5, <2>1 DEF StringTypes, DriverStages
<1>7. Counted'
  <2>1. made + left <= calls * MaxParts
    BY <1>4 DEF Counted
  <2>2. made' + left' <= (calls' * MaxParts) + One(Putting)'
    BY <1>1, <1>4, <2>1
  <2> QED BY <1>1, <1>4, <2>2 DEF Counted
<1>8. FreeInPool'
  BY <1>1, <1>2 DEF FreeInPool
<1>9. Numbered'
  <2>1. Loaded => msg \in Msgs /\ msg # m
    BY <1>2 DEF FreeInPool
  <2>2. \A i \in 1..Len(printQ) : printQ[i] \in Msgs /\ printQ[i] # m
    BY <1>2 DEF FreeInPool, StringTypes
  <2>3. made = Begun + One(Loaded) + Len(printQ)
    BY <1>4 DEF Numbered
  <2>4. Loaded' => str'[msg'] = Begun' + 1
    BY <1>1, <1>2, <1>5, <2>1 DEF Numbered
  <2>5. \A i \in 1..Len(printQ') : str'[printQ'[i]] = Begun' + One(Loaded)' + i
    BY <1>1, <1>2, <1>4, <1>5, <2>2 DEF Numbered
  <2>6. str'[m'] = made' /\ made' = Begun' + One(Loaded)' + Len(printQ') + One(Putting)'
    BY <1>1, <1>2, <1>4, <1>5, <2>3
  <2> QED BY <2>4, <2>5, <2>6 DEF Numbered
<1> QED BY <1>3, <1>6, <1>7, <1>8, <1>9

(* PutString has put all chunks, or PutMsg looks for the driver.           *)
LEMMA StringIsHanded == StringInv /\ (Return \/ FindActor) => StringInv'
<1> SUFFICES ASSUME StringInv, Return \/ FindActor PROVE StringInv'
  OBVIOUS
<1> USE DEF StringInv
<1>1. /\ UNCHANGED <<pool, str, printQ, msg, left, m, made, calls>>
      /\ UNCHANGED <<drv, below, run, uxMsg, ix, txInt, drain, out>>
  BY DEF Return, FindActor, driver
<1>2. \/ pc = "next" /\ pc' = "idle" /\ left = 0 /\ where' = where
      \/ pc = "put" /\ pc' = "hand" /\ where = "print" /\ where' = "hand"
      \/ pc = "put" /\ pc' = "hand" /\ where # "print" /\ where' = where /\ ~below
  <2>1. pc = "put" /\ where # "print" /\ below /\ where # "ready" => FALSE
    BY DEF DriverStages, StringTypes
  <2> QED BY <2>1 DEF Return, FindActor, CallerMayRun, HandlerPending
<1>3. /\ Starts' = Starts /\ Begun' = Begun /\ Putting' = Putting /\ Loaded' = Loaded
      /\ Holding' = Holding
  BY <1>1, <1>2 DEF Starts, Begun, Putting, Holding, Loaded
<1>4. StringTypes'
  BY <1>1, <1>2 DEF StringTypes
<1>5. Counted' /\ FreeInPool' /\ Numbered'
  BY <1>1, <1>2, <1>3 DEF Counted, FreeInPool, Numbered, One
<1>6. DriverStages'
  BY <1>1, <1>2 DEF DriverStages, StringTypes
<1>7. AtChunkEnd' /\ BwStringIntact' /\ ChunksInOrder'
  BY <1>1, <1>3 DEF AtChunkEnd, BwStringIntact, StringIntact, ChunksInOrder
<1> QED BY <1>4, <1>5, <1>6, <1>7

(* PutMsg gives the message to the driver that waits, or queues it.        *)
LEMMA StringIsPut == StringInv /\ HandMsg => StringInv'
<1> SUFFICES ASSUME StringInv, HandMsg PROVE StringInv'
  OBVIOUS
<1> USE DEF StringInv
<1>1. /\ pc = "hand" /\ pc' = "next" /\ left' = left - 1
      /\ UNCHANGED <<pool, str, made, calls>>
      /\ UNCHANGED <<drv, below, run, uxMsg, ix, txInt, drain, out>>
  BY DEF HandMsg, driver
<1>2. /\ Putting /\ ~Putting' /\ One(Putting) = 1 /\ One(Putting)' = 0 /\ Holding /\ ~Holding'
      /\ m \in Msgs /\ m \notin Range(pool) /\ str[m] = made /\ left \in Nat /\ left >= 1
  BY <1>1 DEF Putting, Holding, One, FreeInPool, Numbered, Counted, StringTypes
<1>3. Starts' = Starts /\ Begun' = Begun
  BY <1>1 DEF Starts, Begun
<1>4. AtChunkEnd' /\ BwStringIntact' /\ ChunksInOrder'
  BY <1>1, <1>3 DEF AtChunkEnd, BwStringIntact, StringIntact, ChunksInOrder
<1>5. Begun \in Nat /\ Len(printQ) \in Nat /\ made \in Nat /\ calls \in Nat /\ One(Loaded) \in Nat
  BY StartsCounted DEF StringTypes, One
<1>6. Counted'
  <2>1. calls * MaxParts \in Int
    BY <1>5, UARTAssumption
  <2>2. made + left <= (calls * MaxParts) + 1
    BY <1>2 DEF Counted
  <2>3. made' + left' <= (calls' * MaxParts) + One(Putting)'
    BY <1>1, <1>2, <1>5, <2>1, <2>2
  <2> QED BY <1>1, <1>2, <2>3 DEF Counted
<1>7. made = Begun + One(Loaded) + Len(printQ) + 1
  BY <1>2 DEF Numbered
<1>8. CASE where = "hand" /\ where' = "ready" /\ msg' = m /\ UNCHANGED printQ
  <2>1. printQ = <<>> /\ run = "writeUART" /\ ~Loaded /\ Loaded' /\ One(Loaded) = 0 /\ One(Loaded)' = 1
    BY <1>1, <1>8 DEF DriverStages, Loaded, One
  <2>2. StringTypes' /\ DriverStages'
    BY <1>1, <1>2, <1>8, <2>1 DEF StringTypes, DriverStages
  <2>3. FreeInPool'
    BY <1>1, <1>2, <1>8, <2>1 DEF FreeInPool
  <2>4. Len(printQ) = 0
    BY <2>1, EmptyHasNone, Zenon
  <2>5. Numbered'
    <3>1. Len(printQ') = 0 /\ ~Putting'
      BY <1>2, <1>8, <2>4
    <3>2. made = Begun + 1
      BY <1>5, <1>7, <2>1, <2>4
    <3>3. str'[msg'] = Begun' + 1 /\ made' = Begun' + 1 + 0 + 0
      BY <1>1, <1>2, <1>3, <1>5, <1>8, <3>2
    <3>4. \A i \in 1..Len(printQ') : FALSE
      BY <3>1
    <3> QED BY <1>2, <2>1, <3>1, <3>3, <3>4 DEF Numbered
  <2> QED BY <1>4, <1>6, <2>2, <2>3, <2>5
<1>9. CASE where # "hand" /\ printQ' = Append(printQ, m) /\ UNCHANGED <<where, msg>>
  <2>1. Loaded' = Loaded /\ One(Loaded)' = One(Loaded)
    BY <1>1, <1>9 DEF Loaded, One
  <2>2. /\ printQ' \in Seq(Msgs) /\ Len(printQ') = Len(printQ) + 1
        /\ printQ'[Len(printQ) + 1] = m /\ \A i \in 1..Len(printQ) : printQ'[i] = printQ[i]
    BY <1>2, <1>9 DEF StringTypes
  <2>3. \A i \in 1..(Len(printQ) + 1) : i \in 1..Len(printQ) \/ i = Len(printQ) + 1
    BY <1>5
  <2>4. StringTypes'
    BY <1>1, <1>2, <1>9, <2>2 DEF StringTypes
  <2>5. DriverStages'
    BY <1>1, <1>9 DEF DriverStages
  <2>6. FreeInPool'
    BY <1>1, <1>2, <1>9, <2>1, <2>2, <2>3 DEF FreeInPool
  <2>7. Numbered'
    <3>1. Loaded' => str'[msg'] = Begun' + 1
      BY <1>1, <1>3, <1>9, <2>1 DEF Numbered
    <3>2. \A i \in 1..Len(printQ) : str'[printQ'[i]] = Begun' + One(Loaded)' + i
      BY <1>1, <1>3, <2>1, <2>2 DEF Numbered
    <3>3. str'[printQ'[Len(printQ) + 1]] = Begun' + One(Loaded)' + (Len(printQ) + 1)
      BY <1>1, <1>2, <1>3, <1>5, <1>7, <2>1, <2>2
    <3>4. made' = Begun' + One(Loaded)' + Len(printQ') + One(Putting)'
      BY <1>1, <1>2, <1>3, <1>5, <1>7, <2>1, <2>2
    <3>5. \A i \in 1..Len(printQ') : str'[printQ'[i]] = Begun' + One(Loaded)' + i
      BY <2>2, <2>3, <3>2, <3>3
    <3> QED BY <1>2, <3>1, <3>4, <3>5 DEF Numbered
  <2> QED BY <1>4, <1>6, <2>4, <2>5, <2>6, <2>7
<1> QED BY <1>8, <1>9 DEF HandMsg

(* The message of a run goes back to the pool, in which it was not.        *)
LEMMA RunRecycles ==
  ASSUME StringInv, where = "ready", Recycle
  PROVE  /\ pool' \in Seq(Msgs) /\ IsInjective(pool')
         /\ \A i \in 1..Len(printQ) : printQ[i] \notin Range(pool')
         /\ Holding => m \notin Range(pool')
<1> USE DEF StringInv
<1>1. pool \in Seq(Msgs) /\ IsInjective(pool) /\ printQ \in Seq(Msgs)
  BY DEF StringTypes, FreeInPool
<1>2. CASE msg \in Msgs
  <2>1. Loaded
    <3>1. NIL \notin Msgs /\ DevMsg \notin Msgs
      BY UARTAssumption
    <3> QED BY <1>2, <3>1 DEF StringTypes, DriverStages, Loaded
  <2>2. msg \notin Range(pool)
    BY <2>1 DEF FreeInPool
  <2>3. PICK q : q = <<msg>> \o pool
    OBVIOUS
  <2>4. q \in Seq(Msgs) /\ Range(q) = {msg} \cup Range(pool) /\ IsInjective(q)
    <3>1. q \in Seq(Msgs)
      BY <1>1, <1>2, <2>3
    <3> QED BY <1>1, <1>2, <2>2, <2>3, <3>1, InFront
  <2>5. pool' = q
    BY <1>2, <2>3 DEF Recycle
  <2>6. \A i \in 1..Len(printQ) : printQ[i] # msg
    <3>1. Begun \in Nat /\ Len(printQ) \in Nat /\ One(Loaded) = 1
      BY <2>1, StartsCounted DEF StringTypes, One
    <3>2. str[msg] = Begun + 1 /\ \A i \in 1..Len(printQ) : str[printQ[i]] = Begun + 1 + i
      BY <2>1, <3>1 DEF Numbered
    <3>3. \A i \in 1..Len(printQ) : Begun + 1 + i # Begun + 1
      BY <3>1
    <3> QED BY <3>2, <3>3
  <2>7. /\ \A i \in 1..Len(printQ) : printQ[i] \notin Range(q)
        /\ Holding => m \notin Range(q)
    BY <2>1, <2>4, <2>6 DEF FreeInPool
  <2> QED BY <2>4, <2>5, <2>7
<1>3. CASE msg \notin Msgs
  BY <1>1, <1>3 DEF Recycle, FreeInPool
<1> QED BY <1>2, <1>3

(* GetMsg: the driver has the next message, or waits.                      *)
LEMMA NextIsGot ==
  ASSUME StringInv, where = "ready", GetPrintMsg, Recycle, run' = "writeUART",
         UNCHANGED <<str, pc, m, made>>, Begun' = Begun + One(Loaded)
  PROVE  /\ printQ' \in Seq(Msgs) /\ where' \in {"ready", "print"}
         /\ where' = "print" => printQ' = <<>>
         /\ FreeInPool' /\ Numbered'
<1> USE DEF StringInv
<1>1. /\ pool' \in Seq(Msgs) /\ IsInjective(pool')
      /\ \A i \in 1..Len(printQ) : printQ[i] \notin Range(pool')
      /\ Holding => m \notin Range(pool')
  BY RunRecycles
<1>2. Begun \in Nat /\ Len(printQ) \in Nat /\ One(Loaded) \in Nat /\ printQ \in Seq(Msgs) /\ made \in Nat
  BY StartsCounted DEF StringTypes, One
<1>3. Putting' = Putting /\ Holding' = Holding /\ One(Putting)' = One(Putting) /\ One(Putting) \in Nat
  BY DEF Putting, Holding, One
<1>4. /\ made = Begun + One(Loaded) + Len(printQ) + One(Putting)
      /\ Putting' => str'[m'] = made'
  BY <1>2, <1>3 DEF Numbered
<1>5. CASE printQ = <<>> /\ where' = "print" /\ UNCHANGED <<printQ, msg>>
  <2>1. ~Loaded' /\ One(Loaded)' = 0 /\ Len(printQ) = 0
    <3>1. Len(printQ) = 0
      BY <1>5, EmptyHasNone, Zenon
    <3> QED BY <1>5, <3>1 DEF Loaded, One
  <2>2. FreeInPool'
    BY <1>1, <1>3, <1>5, <2>1 DEF FreeInPool
  <2>3. Numbered'
    <3>1. Len(printQ') = 0 /\ made' = Begun' + 0 + 0 + One(Putting)'
      BY <1>2, <1>3, <1>4, <1>5, <2>1
    <3>2. \A i \in 1..Len(printQ') : FALSE
      BY <3>1
    <3> QED BY <1>3, <1>4, <2>1, <3>1, <3>2 DEF Numbered
  <2> QED BY <1>2, <1>5, <2>2, <2>3
<1>6. CASE printQ # <<>> /\ msg' = Head(printQ) /\ printQ' = Tail(printQ) /\ UNCHANGED where
  <2>1. Loaded' /\ One(Loaded)' = 1
    BY <1>6 DEF Loaded, One
  <2>2. /\ Len(printQ) >= 1 /\ msg' = printQ[1] /\ msg' \in Msgs
        /\ printQ' \in Seq(Msgs) /\ Len(printQ') = Len(printQ) - 1
        /\ \A i \in 1..(Len(printQ) - 1) : printQ'[i] = printQ[i + 1]
    <3>1. Len(printQ) >= 1 /\ Head(printQ) = printQ[1] /\ Head(printQ) \in Msgs
      BY <1>2, <1>6
    <3>2. /\ Tail(printQ) \in Seq(Msgs) /\ Len(Tail(printQ)) = Len(printQ) - 1
          /\ \A i \in 1..(Len(printQ) - 1) : Tail(printQ)[i] = printQ[i + 1]
      BY <1>2, <1>6, <3>1
    <3> QED BY <1>6, <3>1, <3>2
  <2>3. \A i \in 1..(Len(printQ) - 1) : i + 1 \in 1..Len(printQ)
    BY <1>2
  <2>4. FreeInPool'
    BY <1>1, <1>2, <1>3, <2>2, <2>3 DEF FreeInPool
  <2>5. Numbered'
    <3>1. str'[msg'] = Begun' + 1
      BY <1>2, <2>2 DEF Numbered
    <3>2. \A i \in 1..(Len(printQ) - 1) : str'[printQ'[i]] = Begun' + 1 + i
      <4> SUFFICES ASSUME NEW i \in 1..(Len(printQ) - 1)
                   PROVE  str'[printQ'[i]] = Begun' + 1 + i
        OBVIOUS
      <4>1. str[printQ[i + 1]] = Begun + One(Loaded) + (i + 1) /\ printQ'[i] = printQ[i + 1]
        BY <2>2, <2>3 DEF Numbered
      <4> QED BY <1>2, <4>1
    <3>3. made' = Begun' + 1 + Len(printQ') + One(Putting)
      BY <1>2, <1>3, <1>4, <2>2
    <3>4. made' = Begun' + One(Loaded)' + Len(printQ') + One(Putting)'
      BY ONLY <1>3, <2>1, <3>3, Zenon
    <3>5. \A i \in 1..Len(printQ') : str'[printQ'[i]] = Begun' + One(Loaded)' + i
      BY <2>1, <2>2, <3>2
    <3> QED BY <1>4, <3>1, <3>4, <3>5 DEF Numbered
  <2> QED BY <1>6, <2>2, <2>4, <2>5
<1> QED BY <1>5, <1>6 DEF GetPrintMsg

(* The driver begins, and comes back from the interrupt.                   *)
LEMMA DriverGets == StringInv /\ (RunInit \/ AwaitDevInt) => StringInv'
<1> SUFFICES ASSUME StringInv, RunInit \/ AwaitDevInt PROVE StringInv'
  OBVIOUS
<1> USE DEF StringInv
<1>1. /\ where = "ready" /\ pc # "hand" /\ run # "writeUART" /\ run' = "writeUART"
      /\ GetPrintMsg /\ Recycle
      /\ UNCHANGED <<drv, below, str, uxMsg, ix, txInt, drain, out, pc, left, m, made, calls>>
  BY DEF RunInit, AwaitDevInt, HandlerMayRun, caller, DriverStages
<1>2. /\ Starts' = Starts /\ Begun' = Begun /\ One(Loaded) = 0 /\ Putting' = Putting
      /\ Holding' = Holding /\ Begun \in Nat
  BY <1>1, StartsCounted DEF Starts, Begun, Loaded, One, Putting, Holding
<1>3. Begun' = Begun + One(Loaded)
  BY <1>2
<1>4. /\ printQ' \in Seq(Msgs) /\ where' \in {"ready", "print"}
      /\ where' = "print" => printQ' = <<>>
      /\ FreeInPool' /\ Numbered'
  BY <1>1, <1>3, NextIsGot
<1>5. StringTypes'
  BY <1>1, <1>4, RunRecycles DEF StringTypes
<1>6. Counted' /\ DriverStages'
  BY <1>1, <1>2, <1>4 DEF Counted, DriverStages, One
<1>7. AtChunkEnd' /\ BwStringIntact' /\ ChunksInOrder'
  BY <1>1, <1>2 DEF AtChunkEnd, BwStringIntact, StringIntact, ChunksInOrder
<1> QED BY <1>4, <1>5, <1>6, <1>7

(* The first character of a chunk, with the driver that uses interrupts.   *)
LEMMA ChunkBegins == StringInv /\ WriteFirst => StringInv'
<1> SUFFICES ASSUME StringInv, WriteFirst PROVE StringInv'
  OBVIOUS
<1> USE DEF StringInv
<1>1. /\ where = "ready" /\ where' = "dev" /\ pc = "idle" /\ run = "writeUART" /\ run' = "awaitDevInt"
      /\ drv = "int" /\ uxMsg' = msg /\ ix' = 1 /\ drain' = TRUE /\ Recycle
      /\ out' = Append(out, <<str[msg], 0>>)
      /\ UNCHANGED <<drv, below, str, printQ, msg, txInt, pc, left, m, made, calls>>
  BY DEF WriteFirst, HandlerMayRun, GetDevMsg, caller, DriverStages
<1>2. /\ Loaded /\ ~Loaded' /\ One(Loaded) = 1 /\ One(Loaded)' = 0 /\ ~Holding /\ ~Holding'
      /\ ~Putting /\ ~Putting' /\ One(Putting) = 0 /\ One(Putting)' = 0
  BY <1>1 DEF Loaded, Putting, Holding, One
<1>3. /\ msg \in Msgs /\ str[msg] = Begun + 1 /\ Begun \in Nat /\ made \in Nat
      /\ printQ \in Seq(Msgs) /\ Len(printQ) \in Nat /\ out \in Seq(Nat \X Nat) /\ Len(out) \in Nat
  <2>1. msg \in Msgs /\ str[msg] = Begun + 1
    BY <1>2 DEF FreeInPool, Numbered
  <2> QED BY <2>1, StartsCounted DEF StringTypes
<1>4. /\ out' \in Seq(Nat \X Nat) /\ Len(out') = Len(out) + 1
      /\ out'[Len(out) + 1] = <<Begun + 1, 0>> /\ \A i \in 1..Len(out) : out'[i] = out[i]
  <2>1. PICK c : c = <<Begun + 1, 0>>
    OBVIOUS
  <2>2. c \in Nat \X Nat /\ out' = Append(out, c)
    BY <1>1, <1>3, <2>1
  <2> QED BY <1>3, <2>1, <2>2
<1>5. Begun' = Begun + 1 /\ ChunksInOrder'
  <2>1. \A i \in (Len(out) + 2)..Len(out') : out'[i][2] # 0
    BY <1>3, <1>4
  <2>2. Len(out') >= Len(out) + 1
    BY <1>3, <1>4
  <2> QED BY <1>4, <2>1, <2>2, GoesToNext
<1>6. StringTypes'
  BY <1>1, <1>4, RunRecycles DEF StringTypes
<1>7. Counted' /\ DriverStages'
  BY <1>1, <1>2, <1>3 DEF Counted, DriverStages
<1>8. FreeInPool'
  BY <1>1, <1>2, RunRecycles DEF FreeInPool
<1>9. Numbered'
  <2>1. \A i \in 1..Len(printQ) : str[printQ[i]] = Begun + 1 + i
    BY <1>2 DEF Numbered
  <2>2. made = Begun + 1 + Len(printQ) + 0
    BY <1>2 DEF Numbered
  <2>3. \A i \in 1..Len(printQ') : str'[printQ'[i]] = Begun' + One(Loaded)' + i
    BY <1>1, <1>2, <1>3, <1>5, <2>1
  <2>4. made' = Begun' + One(Loaded)' + Len(printQ') + One(Putting)'
    BY <1>1, <1>2, <1>3, <1>5, <2>2
  <2> QED BY <1>2, <2>3, <2>4 DEF Numbered
<1>10. AtChunkEnd' /\ BwStringIntact'
  BY <1>1 DEF AtChunkEnd, BwStringIntact
<1> QED BY <1>5, <1>6, <1>7, <1>8, <1>9, <1>10

(* A whole chunk, with the driver that waits for room.                     *)
LEMMA ChunkIsWritten == StringInv /\ WriteAll => StringInv'
<1> SUFFICES ASSUME StringInv, WriteAll PROVE StringInv'
  OBVIOUS
<1> USE DEF StringInv
<1>1. /\ where = "ready" /\ pc # "hand" /\ run = "writeUART" /\ run' = "writeUART" /\ drv = "bw"
      /\ GetPrintMsg /\ Recycle
      /\ out' = out \o [i \in 1..ChunkLen[str[msg]] |-> <<str[msg], i - 1>>]
      /\ UNCHANGED <<drv, below, str, uxMsg, ix, txInt, drain, pc, left, m, made, calls>>
  BY DEF WriteAll, HandlerMayRun, caller, DriverStages
<1>2. /\ Loaded /\ One(Loaded) = 1 /\ Putting' = Putting /\ Holding' = Holding
      /\ One(Putting)' = One(Putting) /\ One(Putting) \in Nat
  BY <1>1 DEF Loaded, Putting, Holding, One
<1>3. /\ msg \in Msgs /\ str[msg] = Begun + 1 /\ Begun \in Nat
      /\ Len(printQ) \in Nat /\ made \in Nat /\ made = Begun + 1 + Len(printQ) + One(Putting)
      /\ out \in Seq(Nat \X Nat) /\ Len(out) \in Nat
  <2>1. msg \in Msgs /\ str[msg] = Begun + 1
    BY <1>2 DEF FreeInPool, Numbered
  <2>2. made = Begun + One(Loaded) + Len(printQ) + One(Putting)
    BY DEF Numbered
  <2>3. Begun \in Nat /\ Len(printQ) \in Nat /\ made \in Nat /\ out \in Seq(Nat \X Nat) /\ Len(out) \in Nat
    BY StartsCounted DEF StringTypes
  <2> QED BY <1>2, <2>1, <2>2, <2>3
<1>4. PICK c, l : c = Begun + 1 /\ l = ChunkLen[c]
  OBVIOUS
<1>5. c \in Nat /\ l \in Nat \ {0}
  <2>1. c \in 1..Len(ChunkLen)
    BY <1>2, <1>3, <1>4, ChunksSuffice, UARTAssumption
  <2> QED BY <1>3, <1>4, <2>1, UARTAssumption
<1>6. PICK w : w = [i \in 1..l |-> <<c, i - 1>>]
  OBVIOUS
<1>7. /\ w \in Seq(Nat \X Nat) /\ Len(w) = l /\ \A i \in 1..l : w[i] = <<c, i - 1>>
  <2>1. \A i \in 1..l : <<c, i - 1>> \in Nat \X Nat
    BY <1>5
  <2> QED BY <1>5, <1>6, <2>1
<1>8. /\ out' \in Seq(Nat \X Nat) /\ Len(out') = Len(out) + l
      /\ \A i \in 1..Len(out) : out'[i] = out[i]
      /\ \A i \in 1..l : out'[Len(out) + i] = <<c, i - 1>>
  <2>1. out' = out \o w
    BY <1>1, <1>3, <1>4, <1>6
  <2>2. PICK o : o = out \o w
    OBVIOUS
  <2>3. /\ o \in Seq(Nat \X Nat) /\ Len(o) = Len(out) + l
        /\ \A i \in 1..Len(out) : o[i] = out[i]
        /\ \A i \in 1..l : o[Len(out) + i] = w[i]
    <3>1. /\ o \in Seq(Nat \X Nat) /\ Len(o) = Len(out) + Len(w)
          /\ \A i \in 1..Len(out) : o[i] = out[i]
          /\ \A i \in 1..Len(w) : o[Len(out) + i] = w[i]
      <4>1. /\ out \o w \in Seq(Nat \X Nat) /\ Len(out \o w) = Len(out) + Len(w)
            /\ \A i \in 1..Len(out) : (out \o w)[i] = out[i]
            /\ \A i \in 1..Len(w) : (out \o w)[Len(out) + i] = w[i]
        <5> DEFINE S == Nat \X Nat
        <5>1. out \in Seq(S) /\ w \in Seq(S)
          BY <1>3, <1>7
        <5> HIDE DEF S
        <5>2. /\ out \o w \in Seq(S) /\ Len(out \o w) = Len(out) + Len(w)
              /\ \A i \in 1..Len(out) : (out \o w)[i] = out[i]
              /\ \A i \in 1..Len(w) : (out \o w)[Len(out) + i] = w[i]
          BY ONLY <5>1
        <5> QED BY <5>2 DEF S
      <4> QED BY ONLY <2>2, <4>1, Zenon
    <3> QED BY <1>7, <3>1
  <2> QED BY <1>7, <2>1, <2>2, <2>3
<1>9. \A i \in (Len(out) + 1)..(Len(out) + l) : out'[i] = <<c, i - Len(out) - 1>>
  <2> SUFFICES ASSUME NEW i \in (Len(out) + 1)..(Len(out) + l)
               PROVE  out'[i] = <<c, i - Len(out) - 1>>
    OBVIOUS
  <2>1. PICK j : j = i - Len(out)
    OBVIOUS
  <2>2. j \in 1..l /\ Len(out) + j = i
    BY <1>3, <1>5, <2>1
  <2> QED BY <1>8, <2>1, <2>2
<1>10. Begun' = Begun + 1 /\ ChunksInOrder'
  <2>1. out'[Len(out) + 1] = <<Begun + 1, 0>>
    <3>1. Len(out) + 1 \in (Len(out) + 1)..(Len(out) + l) /\ Len(out) + 1 - Len(out) - 1 = 0
      BY <1>3, <1>5
    <3> QED BY <1>4, <1>9, <3>1
  <2>2. Len(out') >= Len(out) + 1
    BY <1>3, <1>5, <1>8
  <2>3. \A i \in (Len(out) + 2)..Len(out') : out'[i][2] # 0
    <3> SUFFICES ASSUME NEW i \in (Len(out) + 2)..Len(out') PROVE out'[i][2] # 0
      OBVIOUS
    <3>0. i \in (Len(out) + 2)..(Len(out) + l)
      BY ONLY <1>8, Zenon
    <3>1. i \in (Len(out) + 1)..(Len(out) + l) /\ i - Len(out) - 1 # 0
      BY <1>3, <1>5, <3>0
    <3>2. out'[i] = <<c, i - Len(out) - 1>>
      BY <1>9, <3>1
    <3> QED BY <3>1, <3>2
  <2> QED BY <1>8, <2>1, <2>2, <2>3, GoesToNext
<1>11. /\ printQ' \in Seq(Msgs) /\ where' \in {"ready", "print"}
       /\ where' = "print" => printQ' = <<>>
       /\ FreeInPool' /\ Numbered'
  <2>1. Begun' = Begun + One(Loaded)
    BY <1>2, <1>10
  <2> QED BY <1>1, <2>1, NextIsGot
<1>12. StringTypes'
  BY <1>1, <1>8, <1>11, RunRecycles DEF StringTypes
<1>13. Counted' /\ DriverStages'
  BY <1>1, <1>2, <1>11 DEF Counted, DriverStages
<1>14. AtChunkEnd'
  <2>1. Len(out') \in (Len(out) + 1)..(Len(out) + l)
    BY <1>3, <1>5, <1>8
  <2>2. out'[Len(out')] = <<c, l - 1>>
    BY <1>3, <1>5, <1>8, <1>9, <2>1, SMTT(30)
  <2> QED BY <1>4, <1>5, <2>2 DEF AtChunkEnd
<1>15. BwStringIntact'
  <2>1. StringIntact /\ (out # <<>> => out[Len(out)][2] + 1 = ChunkLen[out[Len(out)][1]])
    BY <1>1 DEF BwStringIntact, AtChunkEnd
  <2> SUFFICES ASSUME NEW k \in 1..(Len(out') - 1)
               PROVE  IF out'[k][2] + 1 < ChunkLen[out'[k][1]]
                      THEN out'[k + 1] = <<out'[k][1], out'[k][2] + 1>>
                      ELSE out'[k + 1][2] = 0
    BY DEF BwStringIntact, StringIntact
  <2>2. CASE k \in 1..(Len(out) - 1)
    <3>1. k \in 1..Len(out) /\ k + 1 \in 1..Len(out)
      BY <1>3, <2>2
    <3>2. out'[k] = out[k] /\ out'[k + 1] = out[k + 1]
      BY <1>8, <3>1
    <3> QED BY <2>1, <2>2, <3>2 DEF StringIntact
  <2>3. CASE k = Len(out)
    <3>1. k \in 1..Len(out) /\ out # <<>>
      <4>1. k >= 1
        OBVIOUS
      <4> QED BY <1>3, <2>3, <4>1, EmptyHasNone
    <3>2. out'[k] = out[k] /\ out[k] \in Nat \X Nat
      BY <1>3, <1>8, <3>1
    <3>3. ~(out'[k][2] + 1 < ChunkLen[out'[k][1]])
      <4>1. out[k][2] + 1 = ChunkLen[out[k][1]] /\ out[k][2] \in Nat
        BY <2>1, <2>3, <3>1, <3>2
      <4> QED BY <3>2, <4>1
    <3>4. out'[k + 1] = <<c, k + 1 - Len(out) - 1>> /\ k + 1 - Len(out) - 1 = 0
      <4>1. k + 1 \in (Len(out) + 1)..(Len(out) + l) /\ k + 1 - Len(out) - 1 = 0
        BY <1>3, <1>5, <2>3
      <4> QED BY <1>9, <4>1
    <3>5. out'[k + 1][2] = 0
      BY <3>4
    <3> QED BY <3>3, <3>5
  <2>4. CASE k \in (Len(out) + 1)..(Len(out) + l - 1)
    <3>1. /\ k \in (Len(out) + 1)..(Len(out) + l) /\ k + 1 \in (Len(out) + 1)..(Len(out) + l)
          /\ k - Len(out) - 1 + 1 = k + 1 - Len(out) - 1 /\ k - Len(out) - 1 + 1 < l
      BY <1>3, <1>5, <2>4
    <3>2. out'[k] = <<c, k - Len(out) - 1>> /\ out'[k + 1] = <<c, k + 1 - Len(out) - 1>>
      BY <1>9, <3>1
    <3>3. out'[k][1] = c /\ out'[k][2] = k - Len(out) - 1
      BY <3>2
    <3>4. out'[k + 1] = <<c, k - Len(out) - 1 + 1>>
      BY <3>1, <3>2
    <3> QED BY <1>4, <3>1, <3>3, <3>4
  <2>5. \/ k \in 1..(Len(out) - 1) \/ k = Len(out) \/ k \in (Len(out) + 1)..(Len(out) + l - 1)
    BY <1>3, <1>5, <1>8
  <2> QED BY <2>2, <2>3, <2>4, <2>5
<1> QED BY <1>10, <1>11, <1>12, <1>13, <1>14, <1>15

(* The interrupt comes, and the rest of a chunk goes with it.              *)
LEMMA ChunkGoesOn == StringInv /\ (RaiseTxInt \/ HandleDev) => StringInv'
<1> USE DEF StringInv
<1>1. ASSUME StringInv, RaiseTxInt PROVE StringInv'
  <2>1. /\ UNCHANGED <<drv, below, pool, str, printQ, where, msg, run, uxMsg, ix, out, pc, left, m, made, calls>>
        /\ drain /\ txInt' = TRUE /\ drain' = FALSE
    BY <1>1 DEF RaiseTxInt, caller
  <2>2. /\ Starts' = Starts /\ Begun' = Begun /\ Loaded' = Loaded /\ Putting' = Putting
        /\ Holding' = Holding
    BY <2>1 DEF Starts, Begun, Loaded, Putting, Holding
  <2>3. StringTypes' /\ Counted' /\ FreeInPool' /\ Numbered'
    BY <1>1, <2>1, <2>2 DEF StringTypes, Counted, FreeInPool, Numbered, One
  <2>4. DriverStages'
    BY <1>1, <2>1 DEF DriverStages
  <2>5. AtChunkEnd' /\ BwStringIntact' /\ ChunksInOrder'
    BY <1>1, <2>1, <2>2 DEF AtChunkEnd, BwStringIntact, StringIntact, ChunksInOrder
  <2> QED BY <2>3, <2>4, <2>5
<1>2. ASSUME StringInv, HandleDev PROVE StringInv'
  <2>1. /\ UNCHANGED <<drv, below, pool, str, printQ, run, uxMsg, pc, left, m, made, calls>>
        /\ txInt /\ pc = "idle" /\ ix >= 1 /\ uxMsg \in Msgs /\ drv # "bw"
    BY <1>2 DEF HandleDev, HandlerMayRun, caller, DriverStages
  <2>2. ~Putting /\ ~Putting' /\ ~Holding /\ ~Holding'
    BY <2>1 DEF Putting, Holding
  <2>3. AtChunkEnd' /\ BwStringIntact'
    BY <2>1 DEF AtChunkEnd, BwStringIntact
  <2>4. Counted'
    BY <1>2, <2>1, <2>2 DEF Counted, One
  <2>5. CASE /\ out' = Append(out, <<str[uxMsg], ix>>)
             /\ ix' = ix + 1 /\ drain' = TRUE /\ txInt' \in BOOLEAN /\ UNCHANGED <<where, msg>>
    <3>1. /\ out \in Seq(Nat \X Nat) /\ Len(out) \in Nat /\ ix \in Nat /\ str[uxMsg] \in Nat
      BY <1>2, <2>1 DEF StringTypes
    <3>2. /\ out' \in Seq(Nat \X Nat) /\ Len(out') = Len(out) + 1
          /\ out'[Len(out) + 1][2] # 0 /\ \A i \in 1..Len(out) : out'[i] = out[i]
      <4>1. PICK c : c = <<str[uxMsg], ix>>
        OBVIOUS
      <4>2. c \in Nat \X Nat /\ c[2] = ix /\ out' = Append(out, c)
        BY <2>5, <3>1, <4>1
      <4>3. /\ out' \in Seq(Nat \X Nat) /\ Len(out') = Len(out) + 1
            /\ out'[Len(out) + 1] = c /\ \A i \in 1..Len(out) : out'[i] = out[i]
        BY <3>1, <4>2
      <4>4. c[2] # 0
        BY <2>1, <3>1, <4>2
      <4> QED BY <4>3, <4>4
    <3>3. Begun' = Begun /\ ChunksInOrder'
      BY <1>2, <3>2, GoesOn
    <3>4. Loaded' = Loaded
      BY <2>1, <2>5 DEF Loaded
    <3>5. StringTypes'
      BY <1>2, <2>1, <2>5, <3>1, <3>2 DEF StringTypes
    <3>6. DriverStages'
      BY <1>2, <2>1, <2>5, <3>1 DEF DriverStages
    <3>7. FreeInPool' /\ Numbered'
      BY <1>2, <2>1, <2>2, <2>5, <3>3, <3>4 DEF FreeInPool, Numbered, One
    <3> QED BY <2>3, <2>4, <3>3, <3>5, <3>6, <3>7
  <2>6. CASE /\ txInt' = FALSE /\ UNCHANGED <<out, ix, drain>>
             /\ \/ where = "dev" /\ where' = "ready" /\ msg' = DevMsg
                \/ where # "dev" /\ UNCHANGED <<where, msg>>
    <3>1. Starts' = Starts /\ Begun' = Begun
      BY <2>6 DEF Starts, Begun
    <3>2. Loaded' = Loaded /\ (Loaded => msg' = msg)
      BY <1>2, <2>1, <2>6 DEF Loaded, DriverStages
    <3>3. StringTypes' /\ DriverStages'
      BY <1>2, <2>1, <2>6 DEF StringTypes, DriverStages
    <3>4. FreeInPool' /\ Numbered'
      BY <1>2, <2>1, <2>2, <2>6, <3>1, <3>2 DEF FreeInPool, Numbered, One
    <3>5. ChunksInOrder'
      BY <1>2, <2>6, <3>1 DEF ChunksInOrder
    <3> QED BY <2>3, <2>4, <3>3, <3>4, <3>5
  <2> QED BY <1>2, <2>5, <2>6 DEF HandleDev
<1> QED BY <1>1, <1>2

LEMMA StringInitially == Init /\ OnePrio => StringInv
<1> SUFFICES ASSUME Init, OnePrio PROVE StringInv
  OBVIOUS
<1> USE UARTAssumption DEF Init
<1>1. /\ pool \in Seq(Msgs) /\ printQ \in Seq(Msgs) /\ str \in [Msgs -> Nat] /\ Len(printQ) = 0
      /\ IsInjective(pool)
  <2>1. PoolOrder \in Seq(Msgs) /\ IsInjective(PoolOrder)
    BY DEF IsInjective
  <2>2. \A q : q = <<>> => Len(q) = 0 /\ q \in Seq(Msgs)
    <3>1. Len(<<>>) = 0 /\ <<>> \in Seq(Msgs)
      OBVIOUS
    <3> QED BY ONLY <3>1, Zenon
  <2> QED BY <2>1, <2>2
<1>2. out \in Seq(Nat \X Nat) /\ Starts = {} /\ Begun = 0
  <2>1. out \in Seq(Nat \X Nat) /\ DOMAIN out = {}
    OBVIOUS
  <2>2. Starts = {}
    BY <2>1 DEF Starts
  <2> QED BY <2>1, <2>2, FS_EmptySet DEF Begun
<1>3. ~Loaded /\ ~Putting /\ ~Holding /\ One(Loaded) = 0 /\ One(Putting) = 0
  BY DEF Loaded, Putting, Holding, One
<1>4. StringTypes
  <2>1. /\ drv \in Drivers /\ below \in BOOLEAN /\ where = "ready" /\ run = "init" /\ ix \in Nat
        /\ txInt \in BOOLEAN /\ drain \in BOOLEAN /\ pc = "idle" /\ left \in Nat /\ made \in Nat
    OBVIOUS
  <2>2. calls \in 0..MaxCalls
    OBVIOUS
  <2> HIDE DEF Init
  <2> QED BY <1>1, <1>2, <2>1, <2>2 DEF StringTypes
<1>5. Counted
  <2>1. 0 * MaxParts = 0
    OBVIOUS
  <2> QED BY <1>3, <2>1 DEF Counted
<1>6. DriverStages
  BY DEF DriverStages, OnePrio
<1>7. FreeInPool /\ Numbered
  BY <1>1, <1>2, <1>3 DEF FreeInPool, Numbered
<1>8. AtChunkEnd /\ ChunksInOrder
  BY <1>2 DEF AtChunkEnd, ChunksInOrder
<1>9. BwStringIntact
  <2>1. Len(out) = 0
    BY EmptyHasNone, Zenon
  <2> QED BY <2>1 DEF BwStringIntact, StringIntact
<1> QED BY <1>4, <1>5, <1>6, <1>7, <1>8, <1>9 DEF StringInv

LEMMA StringStep == StringInv /\ [Next]_vars => StringInv'
<1> SUFFICES ASSUME StringInv, [Next]_vars PROVE StringInv'
  OBVIOUS
<1>1. CASE UNCHANGED vars
  <2> USE <1>1 DEF vars, driver, caller
  <2>1. /\ Starts' = Starts /\ Begun' = Begun /\ Loaded' = Loaded /\ Putting' = Putting
        /\ Holding' = Holding
    BY DEF Starts, Begun, Loaded, Putting, Holding
  <2>2. StringTypes' /\ Counted' /\ FreeInPool' /\ Numbered'
    BY <2>1 DEF StringInv, StringTypes, Counted, FreeInPool, Numbered, One
  <2>3. DriverStages' /\ AtChunkEnd' /\ BwStringIntact' /\ ChunksInOrder'
    BY <2>1 DEF StringInv, DriverStages, AtChunkEnd, BwStringIntact, StringIntact, ChunksInOrder
  <2> QED BY <2>2, <2>3 DEF StringInv
<1>2. CASE Next
  BY <1>2, StringBegins, StringTakes, StringIsCut, StringIsHanded, StringIsPut, DriverGets,
     ChunkBegins, ChunkIsWritten, ChunkGoesOn DEF Next, PutStringStep, RunDriver
<1> QED BY <1>1, <1>2

\* What is kept in any case, and how it is kept with PutMsg and GetMsg at one priority
StringsKept == BwStringIntact /\ (OnePrio => ChunksInOrder)
TextInv == (OnePrio => StringInv) /\ (~OnePrio => drv # "bw")

LEMMA TextInvKept ==
  /\ Init => TextInv
  /\ TextInv /\ [Next]_vars => TextInv'
  /\ TextInv => StringsKept
<1>1. Init => TextInv
  BY StringInitially DEF TextInv, OnePrio
<1>2. ASSUME [Next]_vars PROVE drv' = drv /\ below' = below
  <2>1. CASE UNCHANGED vars
    BY <2>1 DEF vars, driver
  <2>2. CASE Next
    BY <2>2 DEF Next, Call, PutStringStep, TakeMsg, FillMsg, Return, FindActor, HandMsg,
       RunDriver, RunInit, WriteFirst, AwaitDevInt, WriteAll, RaiseTxInt, HandleDev, driver
  <2> QED BY <1>2, <2>1, <2>2
<1>3. TextInv /\ [Next]_vars => TextInv'
  BY <1>2, StringStep DEF TextInv, OnePrio
<1>4. TextInv => StringsKept
  BY DEF TextInv, StringsKept, StringInv, BwStringIntact
<1> QED BY <1>1, <1>3, <1>4

(* Chunks are sent in the order in which PutString has put them, none is   *)
(* skipped and none is sent twice, if PutString is called at the priority  *)
(* of the driver, or below that of the driver that waits for room, and     *)
(* this driver sends each chunk whole.                                     *)
THEOREM StringsAreSent == Spec => [](BwStringIntact /\ (OnePrio => ChunksInOrder))
<1>1. TextInv => BwStringIntact /\ (OnePrio => ChunksInOrder)
  BY TextInvKept DEF StringsKept
<1> QED BY <1>1, TextInvKept, PTL DEF Spec

-----------------------------------------------------------------------------
(* Lines and strings with the other devices beside them.                   *)

LEMMA PartsStep == [DevicesNext]_allVars => [Next]_vars /\ [LineNext]_lineVars
<1> SUFFICES ASSUME [DevicesNext]_allVars PROVE [Next]_vars /\ [LineNext]_lineVars
  OBVIOUS
<1>1. CASE UNCHANGED allVars
  BY <1>1 DEF allVars
<1>2. CASE DevicesNext
  <2>1. CASE MemoryPart(MemoryNext) \/ SPIPart(SPINext)
    BY <2>1 DEF MemoryPart, SPIPart
  <2>2. CASE UARTPart(Next)
    BY <2>2 DEF UARTPart
  <2>3. CASE LinePart(LineNext)
    BY <2>3 DEF LinePart
  <2>4. CASE AlarmPart(AlarmNext) \/ SemPart(SemV4Next) \/ ListPart(ListsNext)
    BY <2>4 DEF AlarmPart, SemPart, ListPart
  <2> QED BY <1>2, <2>1, <2>2, <2>3, <2>4 DEF DevicesNext
<1> QED BY <1>1, <1>2

(* What a program sends comes out, and what is typed gets in.              *)
THEOREM TextIsKept == DevicesSpec => []TextKept
<1>1. DevicesInit => TextInv /\ LineInv
  BY TextInvKept, LineInitially DEF DevicesInit
<1>2. TextInv /\ LineInv /\ [DevicesNext]_allVars => TextInv' /\ LineInv'
  BY TextInvKept, LineStep, PartsStep
<1>3. TextInv /\ LineInv => TextKept
  BY TextInvKept DEF StringsKept, LineInv, TextKept
<1> QED BY <1>1, <1>2, <1>3, PTL DEF DevicesSpec
=============================================================================
