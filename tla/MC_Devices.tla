----------------------------- MODULE MC_Devices -----------------------------
(***************************************************************************)
(* Seven components side by side for TLC: in each behaviour one of them,   *)
(* chosen by part, makes steps, and the others stay as they begin.         *)
(*                                                                         *)
(* Memory has 14 words for heap and stacks, records of one and two words,  *)
(* stacks of two and three words.  SPIdata has FIFOs of three and calls of *)
(* up to eight bytes.  UARTstrK has two messages, and up to three strings  *)
(* of up to three chunks of different lengths.  UARTkstr has buffers and   *)
(* lines around the sizes of each other and of a FIFO of five.  AlarmsV4   *)
(* has a timer of four bits, which wraps around, and SemaphoresV4 three    *)
(* actors, of one priority or of three.  ListsV4 has two queues, a pool of *)
(* two messages, and two messages that are in no pool.                     *)
(***************************************************************************)
EXTENDS Memory, SPIdata, UARTstrK, UARTkstr, AlarmsV4, SemaphoresV4, ListsV4

CONSTANTS m1, m2

mcPoolOrder == <<m1, m2>>
mcChunkLen == <<2, 1, 3, 2, 1, 1, 2, 2, 3>>
mcAlarmDelays == {-1, 0, 2, 5, 7}
mcPoolStart == [p \in Pools |-> <<1, 2>>]
mcUrgencies == {[a \in SemActors |-> 1], [a \in SemActors |-> a]}

VARIABLE part \* which of the seven

allVars == <<part, memoryVars, spiVars, vars, lineVars, alarmVars, semV4Vars, listVars>>

\* What a component chooses at the start, it chooses when the behaviour is one of its own
DevicesInit ==
  /\ part \in {"memory", "spi", "uart", "line", "alarms", "sema", "lists"}
  /\ MemoryInit /\ SPIInit /\ Init /\ LineInit /\ AlarmInit /\ SemV4Init /\ ListsInit
  /\ part = "memory" \/ heapLimit = CHOOSE h \in HeapLimits : TRUE
  /\ OnePrio \* of what is said of UARTstrK here, nothing concerns the other case
  /\ part = "uart" \/ <<drv, below>> = CHOOSE c \in Drivers \X CallersBelow : c[1] = "bw" \/ ~c[2]
  /\ part = "line" \/ <<typed, bufLen>> = CHOOSE c \in LineSizes \X BufLens : TRUE
  /\ part = "alarms" \/ alarmPrio = CHOOSE p \in AlarmPrios : TRUE
  /\ part = "sema" \/ urgency = CHOOSE u \in Urgencies : TRUE
  /\ part = "lists" \/ \A x \in loose : link[x] = NoItem

\* A step of one of them
MemoryPart(A) == part = "memory" /\ A /\ UNCHANGED <<part, spiVars, vars, lineVars, alarmVars, semV4Vars, listVars>>
SPIPart(A) == part = "spi" /\ A /\ UNCHANGED <<part, memoryVars, vars, lineVars, alarmVars, semV4Vars, listVars>>
UARTPart(A) == part = "uart" /\ A /\ UNCHANGED <<part, memoryVars, spiVars, lineVars, alarmVars, semV4Vars, listVars>>
LinePart(A) == part = "line" /\ A /\ UNCHANGED <<part, memoryVars, spiVars, vars, alarmVars, semV4Vars, listVars>>
AlarmPart(A) == part = "alarms" /\ A /\ UNCHANGED <<part, memoryVars, spiVars, vars, lineVars, semV4Vars, listVars>>
SemPart(A) == part = "sema" /\ A /\ UNCHANGED <<part, memoryVars, spiVars, vars, lineVars, alarmVars, listVars>>
ListPart(A) == part = "lists" /\ A /\ UNCHANGED <<part, memoryVars, spiVars, vars, lineVars, alarmVars, semV4Vars>>

DevicesNext ==
  \/ MemoryPart(MemoryNext)
  \/ SPIPart(SPINext)
  \/ UARTPart(Next)
  \/ LinePart(LineNext)
  \/ AlarmPart(AlarmNext)
  \/ SemPart(SemV4Next)
  \/ ListPart(ListsNext)

\* The fairness of SPIdata, UARTstrK, UARTkstr and AlarmsV4
DevicesSpec ==
  /\ DevicesInit
  /\ [][DevicesNext]_allVars
  /\ WF_allVars(SPIPart(SPIDriver))
  /\ WF_allVars(SPIPart(Controller))
  /\ WF_allVars(UARTPart(PutStringStep))
  /\ WF_allVars(UARTPart(RunDriver))
  /\ WF_allVars(UARTPart(RaiseTxInt))
  /\ WF_allVars(UARTPart(HandleDev))
  /\ WF_allVars(LinePart(TypeChar))
  /\ WF_allVars(LinePart(RxHandler))
  /\ WF_allVars(LinePart(EndGetString))
  /\ WF_allVars(AlarmPart(AlarmTick))
  /\ WF_allVars(AlarmPart(AlarmActor))
  /\ WF_allVars(AlarmPart(AlarmHandler))

(* What a program sends comes out, and what is typed gets in, complete and *)
(* in order, however it is cut into chunks, messages and interrupts: the   *)
(* text of PutString with both drivers of kernel-v4 (but for the known     *)
(* exception), and the lines of GetString of kernel-v1.                    *)
TextKept == BwStringIntact /\ (OnePrio => ChunksInOrder) /\ LineReceived

(* SPIdata's PutBytes, GetBytes and PutGetBytes and UARTkstr's GetString,  *)
(* which wait for a device, return.                                        *)
CallsReturn == Returns /\ GetStringReturns

(* Who waits for an interrupt is woken: the print queue of UARTstrK is     *)
(* emptied again, and an actor with an alarm runs again.                   *)
WaitersServed == QueueEmpties /\ AlarmRuns
=============================================================================
