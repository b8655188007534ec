------------------------------ MODULE AlarmsV4 -------------------------------
(***************************************************************************)
(* Alarms for the actors of kernel-v4: kernel-v4/KernelAlarms.mod and      *)
(* Alarms.mod, with the alarm hardware of a timer.                         *)
(*                                                                         *)
(* An actor arms its alarm and waits for the message of the alarm, which   *)
(* the interrupt handler puts.  Times are words of AlarmBits bits, of a    *)
(* timer that runs all the time; differences are compared as signed.       *)
(***************************************************************************)
EXTENDS Integers

CONSTANTS
  AlarmBits,   \* width of the timer, 32 on the device
  Margin,      \* dev.margin
  Inside,      \* ticks that Arm may take with interrupts off
  Late,        \* bound: ticks until a handler or an actor gets on
  Behind,      \* bound: how far in the past an actor may set an alarm
  AlarmDelays, \* from now to the time asked for, or from one alarm to the next
  AlarmPrios   \* of the handler, relative to the ready queue of the actor:
               \* "below", "same", "above"

\* The margin is longer than Arm takes, and times are within half the range
ASSUME AlarmAssumption ==
  /\ AlarmBits \in Nat \ {0} /\ Inside \in Nat /\ Margin \in Nat /\ Late \in Nat /\ Behind \in Nat
  /\ Inside < Margin
  /\ \A d \in AlarmDelays : d \in Int /\ -Behind <= d /\ d < 2^(AlarmBits - 1)
  /\ 2 * Late + Behind + Margin < 2^(AlarmBits - 1)

VARIABLES
  alarmPrio, \* chosen at the start
  now,       \* TIMERAWL
  alarm,     \* the ALARM register
  armed,     \* the bit of the alarm in ARMED
  asserted,  \* the bit of the alarm in INTR
  alarmTime, \* dev.alarmTime
  retimed,   \* dev.alarmRetimed
  actor,     \* "idle" (waits for something else), "ready", "run", "arm" (interrupts
             \* off), "get" and "wait" (in the two halves of GetMsg), "waiting"
  woken,     \* the actor runs because of the alarm
  handler,   \* "off", "put" and "hand" (the two halves of PutMsg)
  found,     \* PutMsg has found the actor
  message,   \* al.msg: "free", "queued", "got" (by GetMsg), "given" (act.msg)
  due,       \* history: ticks from now to the time asked for
  late       \* ticks since somebody could get on

alarmVars == <<alarmPrio, now, alarm, armed, asserted, alarmTime, retimed, actor, woken,
               handler, found, message, due, late>>
hardware == <<now, alarm, armed, asserted>>
times == <<alarmTime, retimed>>

AlarmInit ==
  /\ alarmPrio \in AlarmPrios
  /\ now = 0 /\ alarm = 0 /\ armed = FALSE /\ asserted = FALSE
  /\ alarmTime = 0 /\ retimed = 0
  /\ actor = "idle" /\ woken = FALSE /\ handler = "off" /\ found = FALSE /\ message = "free"
  /\ due = 0 /\ late = 0

-----------------------------------------------------------------------------
(* Words, and who may run.                                                 *)

AlarmWord(n) == n % 2^AlarmBits
AlarmSigned(n) == AlarmWord(n + 2^(AlarmBits - 1)) - 2^(AlarmBits - 1)

InRunQueue == actor \in {"run", "arm", "get", "wait"}

\* The ready queue of the actor runs, and the handler may not interrupt it
Shut(prio) == IF prio = "above" THEN actor = "arm" ELSE InRunQueue

ActorMay == handler = "off" \/ alarmPrio = "below"
HandlerMay == ~Shut(alarmPrio)

-----------------------------------------------------------------------------
(* The timer.  An armed alarm fires when the timer has its time; then it   *)
(* is no longer armed.                                                     *)

AlarmTick ==
  LET next == AlarmWord(now + 1)
      fires == armed /\ next = alarm
      mayTake == IF actor = "arm" THEN Inside ELSE Late
  IN  /\ armed \/ actor = "idle" \/ late < mayTake
      /\ now' = next
      /\ armed' = (armed /\ ~fires)
      /\ asserted' = (asserted \/ fires)
      /\ late' = IF armed \/ actor = "idle" THEN 0 ELSE late + 1
      /\ due' = IF actor = "idle" THEN 0 ELSE due - 1
      /\ UNCHANGED <<alarmPrio, alarm, times, actor, woken, handler, found, message>>

-----------------------------------------------------------------------------
(* The actor.                                                              *)

\* What it waits for apart from the alarm, a tick perhaps
OtherEvent ==
  /\ actor = "idle"
  /\ actor' = "ready"
  /\ late' = 0
  /\ UNCHANGED <<alarmPrio, hardware, times, woken, handler, found, message, due>>

\* RunQueue takes the actor; the message of the alarm has no pool to go to
RunActor ==
  /\ ActorMay
  /\ actor = "ready"
  /\ actor' = "run"
  /\ woken' = (message = "given")
  /\ message' = IF message = "given" THEN "free" ELSE message
  /\ UNCHANGED <<alarmPrio, hardware, times, handler, found, due, late>>

\* It ends its run without the alarm
Rest ==
  /\ ActorMay
  /\ actor = "run"
  /\ actor' = "idle"
  /\ due' = 0
  /\ UNCHANGED <<alarmPrio, hardware, times, woken, handler, found, message, late>>

\* Mutant of Retime: the time is taken unless it is over
Retime_NoMargin(time) == IF ~(AlarmSigned(time - now) > 0) THEN AlarmWord(now + Margin) ELSE time

\* The time the alarm is set to: not so soon that it is over meanwhile
Retime(time) == IF ~(AlarmSigned(time - now) > Margin) THEN AlarmWord(now + Margin) ELSE time

\* Alarms.Arm reads the timer, interrupts being off
BeginArm(time, ahead) ==
  /\ ActorMay
  /\ actor = "run"
  /\ actor' = "arm"
  /\ alarmTime' = time
  /\ retimed' = Retime(time)
  /\ due' = ahead
  /\ late' = 0
  /\ UNCHANGED <<alarmPrio, hardware, woken, handler, found, message>>

ArmAlarm == \E d \in AlarmDelays : BeginArm(AlarmWord(now + d), d)

\* Rearm, called when the alarm has woken the actor: from one alarm to the next
RearmAlarm ==
  /\ woken
  /\ \E d \in AlarmDelays :
       d >= 0 /\ due + d >= -Behind /\ BeginArm(AlarmWord(alarmTime + d), due + d)

\* And writes the register
SetAlarm ==
  /\ actor = "arm"
  /\ alarm' = retimed
  /\ armed' = TRUE
  /\ actor' = "get"
  /\ late' = 0
  /\ UNCHANGED <<alarmPrio, now, asserted, times, woken, handler, found, message, due>>

\* Kernel.GetMsg takes the message if it is there
GetAlarmMsg ==
  /\ ActorMay
  /\ actor = "get"
  /\ actor' = "wait"
  /\ message' = IF message = "queued" THEN "got" ELSE message
  /\ UNCHANGED <<alarmPrio, hardware, times, woken, handler, found, due, late>>

\* And goes on, or waits
AwaitAlarm ==
  /\ ActorMay
  /\ actor = "wait"
  /\ \/ message = "got" /\ message' = "given" /\ actor' = "ready"
     \/ message # "got" /\ actor' = "waiting" /\ UNCHANGED message
  /\ UNCHANGED <<alarmPrio, hardware, times, woken, handler, found, due, late>>

-----------------------------------------------------------------------------
(* The interrupt handler.                                                  *)

EnterAlarmHandler ==
  /\ HandlerMay
  /\ handler = "off" /\ asserted
  /\ asserted' = FALSE
  /\ handler' = "put"
  /\ UNCHANGED <<alarmPrio, now, alarm, armed, times, actor, woken, found, message, due, late>>

\* Kernel.PutMsg takes the actor if it waits
FindWaitingActor ==
  /\ HandlerMay
  /\ handler = "put"
  /\ handler' = "hand"
  /\ found' = (actor = "waiting")
  /\ actor' = IF actor = "waiting" THEN "found" ELSE actor
  /\ UNCHANGED <<alarmPrio, hardware, times, woken, message, due, late>>

\* Mutant of PutAlarmMsg: the message goes into the queue though the actor is found
PutAlarmMsg_Queues ==
  /\ HandlerMay
  /\ handler = "hand"
  /\ handler' = "off"
  /\ found' = FALSE
  /\ message' = "queued"
  /\ UNCHANGED <<alarmPrio, hardware, times, actor, woken, due, late>>

\* And gives it the message, or leaves it in the queue
PutAlarmMsg ==
  /\ HandlerMay
  /\ handler = "hand"
  /\ handler' = "off"
  /\ found' = FALSE
  /\ \/ found /\ message' = "given" /\ actor' = "ready"
     \/ ~found /\ message' = "queued" /\ UNCHANGED actor
  /\ UNCHANGED <<alarmPrio, hardware, times, woken, due, late>>

-----------------------------------------------------------------------------
AlarmActor == RunActor \/ ArmAlarm \/ RearmAlarm \/ SetAlarm \/ GetAlarmMsg \/ AwaitAlarm
AlarmHandler == EnterAlarmHandler \/ FindWaitingActor \/ PutAlarmMsg
AlarmNext == AlarmTick \/ OtherEvent \/ Rest \/ AlarmActor \/ AlarmHandler

AlarmSpec == AlarmInit /\ [][AlarmNext]_alarmVars

\* Time passes and the processor does not stop
FairAlarmSpec ==
  AlarmSpec /\ WF_alarmVars(AlarmTick) /\ WF_alarmVars(AlarmActor) /\ WF_alarmVars(AlarmHandler)

-----------------------------------------------------------------------------
(* An armed alarm is ahead: it fires neither before its time nor, when it  *)
(* had been set too late, a whole turn of the timer after it, but at once. *)
FiresInTime ==
  armed => LET ahead == AlarmWord(alarm - now) IN
             0 < ahead /\ due <= ahead /\ (ahead <= due \/ ahead <= Margin)

(* Nobody is woken before the time asked for, and a chain of alarms keeps  *)
(* to its times however late each actor runs.                              *)
NeverEarly ==
  /\ asserted \/ handler # "off" \/ message # "free" => due <= 0
  /\ actor = "run" /\ woken => alarmTime = AlarmWord(now + due)

(* The one message is free when the handler puts it, and the alarm is not  *)
(* armed when the actor runs: the assertion of KernelAlarms.Arm holds.     *)
OneAtATime ==
  /\ handler # "off" => message = "free" /\ ~armed /\ ~asserted
  /\ actor \in {"ready", "run"} => ~armed /\ ~asserted /\ handler = "off"

(* With a handler that is not more urgent than the ready queue, an actor   *)
(* never waits beside its message.                                         *)
NotStranded == alarmPrio # "above" => ~(actor = "waiting" /\ message = "queued")

\* Alarms are neither early nor missed, one at a time, and not overlooked.
AlarmsSound == FiresInTime /\ NeverEarly /\ OneAtATime /\ NotStranded

\* Who arms an alarm runs again, if the handler is not more urgent.
AlarmRuns == (armed /\ alarmPrio # "above") ~> (actor = "run" /\ woken)
=============================================================================
