------------------------------ MODULE KernelV1 ------------------------------
(***************************************************************************)
(* The cooperative scheduler of kernel-v1 (kernel-v1/Kernel.mod) on one    *)
(* core, with the signals on which its threads wait (Signals.mod).         *)
(*                                                                         *)
(* The scheduler coroutine loopc scans all threads at each tick, slots     *)
(* those that are due into the ready queue, and then transfers to each of  *)
(* them until the queue is empty.  A thread runs until it transfers back.  *)
(* Nothing here is touched by an interrupt handler; only the device flags, *)
(* which the scan reads, change at any time.                               *)
(*                                                                         *)
(* Threads have one link field, next, for the ready queue and for the      *)
(* queue of a signal.  The queues are sequences here: OnePlace is what     *)
(* makes that sound.                                                       *)
(***************************************************************************)
EXTENDS Integers, Sequences, Functions

CONSTANTS
  MaxNumThreads, \* length of ctx.threads
  LoopPeriod,    \* ctx.loopPeriod, milliseconds per tick
  DefaultPrio,   \* priority of a newly allocated thread
  Prios,         \* priorities of threads; a lower number is more urgent
  Signals,       \* the signals of the programs
  Programs,      \* the programs that use the kernel, as records of
                 \*   asks: how many threads the program tries to allocate,
                 \*   calls: the kernel procedures that each thread calls,
                 \*   prios, periods, delays, signals: the arguments of SetPrio,
                 \*   of SetPeriod in ticks, of DelayMe and StartTimeout in
                 \*   milliseconds, and of Await and Send
  NIL            \* the null pointer

Tids == 0..(MaxNumThreads - 1)

CallNames == {"Next", "SuspendMe", "DelayMe", "StartTimeout", "AwaitDeviceFlags",
              "CancelAwaitDeviceFlags", "SetPrio", "SetPeriod", "Enable", "Allocate",
              "Reallocate", "Await", "Send", "Claim", "Release"}

ASSUME SchedulerAssumption ==
  /\ MaxNumThreads \in Nat
  /\ LoopPeriod \in Nat \ {0}
  /\ DefaultPrio \in Prios
  /\ Prios \subseteq Int
  /\ \A p \in Programs :
       /\ p.asks \in Nat
       /\ p.calls \in [Tids -> SUBSET CallNames]
       /\ p.prios \subseteq Prios
       /\ p.periods \subseteq Nat
       /\ p.delays \subseteq Int
       /\ p.signals \subseteq Signals
  /\ NIL \notin Int

VARIABLES
  prog,   \* the program that runs
  num,    \* ctx.numThreads
  hasCor, \* threads with a stack and a coroutine
  state,  \* t.state
  prio,   \* t.prio
  period, \* t.period, milliseconds, 0 for none
  ticker, \* t.ticker
  delay,  \* t.delay
  dev,    \* t.devAddr # 0
  trig,   \* t.trigCode
  ready,  \* the ready queue, from ctx.ct
  queued, \* ctx.queued
  run,    \* ctx.Ct, the thread that runs
  phase,  \* where the scheduler is
  tid,    \* the thread the scan looks at next
  sigQ    \* the queue of each signal

timing == <<period, ticker, delay, dev, trig>>
slots == <<prog, num, hasCor>>
queues == <<ready, queued, sigQ>>
vars == <<slots, state, prio, timing, queues, run, phase, tid>>

-----------------------------------------------------------------------------
\* Install has made all thread descriptors, without stacks
Init ==
  /\ prog \in Programs
  /\ num = 0
  /\ hasCor = {}
  /\ state = [t \in Tids |-> "suspended"]
  /\ prio = [t \in Tids |-> DefaultPrio]
  /\ period = [t \in Tids |-> 0]
  /\ ticker = [t \in Tids |-> 0]
  /\ delay = [t \in Tids |-> 0]
  /\ dev = [t \in Tids |-> FALSE]
  /\ trig = [t \in Tids |-> "none"]
  /\ ready = <<>>
  /\ queued = {}
  /\ run = NIL
  /\ phase = "setup"
  /\ tid = 0
  /\ sigQ = [s \in Signals |-> <<>>]

\* The main program, before Run, or the running thread calls procedure c
Calling(c) ==
  \/ phase = "setup" /\ c \in {"Allocate", "Enable"}
  \/ run # NIL /\ c \in prog.calls[run]

Awaiting(t) == \E s \in Signals : t \in Range(sigQ[s])

-----------------------------------------------------------------------------
(* Management of threads.                                                  *)

\* The slot is taken before the stack is: a slot without stack is lost
Allocate ==
  /\ Calling("Allocate")
  /\ num < prog.asks
  /\ num < MaxNumThreads
  /\ num' = num + 1
  /\ \/ hasCor' = hasCor \cup {num}
     \/ UNCHANGED hasCor
  /\ state' = [state EXCEPT ![num] = "suspended"]
  /\ prio' = [prio EXCEPT ![num] = DefaultPrio]
  /\ period' = [period EXCEPT ![num] = 0]
  /\ delay' = [delay EXCEPT ![num] = 0]
  /\ dev' = [dev EXCEPT ![num] = FALSE]
  /\ UNCHANGED <<prog, ticker, trig, queues, run, phase, tid>>

\* Usage rule of Enable and Reallocate: the thread has been allocated with
\* success, and it does not wait for a signal
MayManage(t) == t \in hasCor /\ ~Awaiting(t)

Reallocate(t) ==
  /\ Calling("Reallocate")
  /\ MayManage(t)
  /\ state[t] = "suspended"
  /\ prio' = [prio EXCEPT ![t] = DefaultPrio]
  /\ period' = [period EXCEPT ![t] = 0]
  /\ delay' = [delay EXCEPT ![t] = 0]
  /\ dev' = [dev EXCEPT ![t] = FALSE]
  /\ UNCHANGED <<slots, state, ticker, trig, queues, run, phase, tid>>

Enable(t) ==
  /\ Calling("Enable")
  /\ MayManage(t)
  /\ state' = [state EXCEPT ![t] = "enabled"]
  /\ UNCHANGED <<slots, prio, timing, queues, run, phase, tid>>

-----------------------------------------------------------------------------
(* Calls after which the thread runs on.                                   *)

SetPrio(p) ==
  /\ Calling("SetPrio")
  /\ prio' = [prio EXCEPT ![run] = p]
  /\ UNCHANGED <<slots, state, timing, queues, run, phase, tid>>

SetPeriod(p, startAfter) ==
  /\ Calling("SetPeriod")
  /\ period' = [period EXCEPT ![run] = p * LoopPeriod]
  /\ ticker' = [ticker EXCEPT ![run] = startAfter * LoopPeriod]
  /\ UNCHANGED <<slots, state, prio, delay, dev, trig, queues, run, phase, tid>>

\* With d = 0 this is CancelTimeout
StartTimeout(d) ==
  /\ Calling("StartTimeout")
  /\ delay' = [delay EXCEPT ![run] = d]
  /\ UNCHANGED <<slots, state, prio, period, ticker, dev, trig, queues, run, phase, tid>>

CancelAwaitDeviceFlags ==
  /\ Calling("CancelAwaitDeviceFlags")
  /\ dev' = [dev EXCEPT ![run] = FALSE]
  /\ UNCHANGED <<slots, state, prio, period, ticker, delay, trig, queues, run, phase, tid>>

\* Mutant of Send: s.queue is not advanced
Send_Keeps(s) ==
  /\ sigQ[s] # <<>>
  /\ state' = [state EXCEPT ![Head(sigQ[s])] = "enabled"]
  /\ UNCHANGED <<slots, prio, timing, queues, run, phase, tid>>

\* Mutant of Send: the thread that waits shortest is woken
Send_Last(s) ==
  /\ sigQ[s] # <<>>
  /\ sigQ' = [sigQ EXCEPT ![s] = SubSeq(@, 1, Len(@) - 1)]
  /\ state' = [state EXCEPT ![sigQ[s][Len(sigQ[s])]] = "enabled"]
  /\ UNCHANGED <<slots, prio, timing, ready, queued, run, phase, tid>>

\* Send wakes the thread that waits longest
Send(s) ==
  /\ sigQ[s] # <<>>
  /\ sigQ' = [sigQ EXCEPT ![s] = Tail(@)]
  /\ state' = [state EXCEPT ![Head(sigQ[s])] = "enabled"]
  /\ UNCHANGED <<slots, prio, timing, ready, queued, run, phase, tid>>

-----------------------------------------------------------------------------
(* Calls that transfer back to the scheduler.                              *)

Transfer == run' = NIL

NextCall ==
  /\ Calling("Next")
  /\ Transfer
  /\ UNCHANGED <<slots, state, prio, timing, queues, phase, tid>>

SuspendMe ==
  /\ Calling("SuspendMe")
  /\ state' = [state EXCEPT ![run] = "suspended"]
  /\ Transfer
  /\ UNCHANGED <<slots, prio, timing, queues, phase, tid>>

DelayMe(d) ==
  /\ Calling("DelayMe")
  /\ delay' = [delay EXCEPT ![run] = d]
  /\ Transfer
  /\ UNCHANGED <<slots, state, prio, period, ticker, dev, trig, queues, phase, tid>>

AwaitDeviceFlags ==
  /\ Calling("AwaitDeviceFlags")
  /\ dev' = [dev EXCEPT ![run] = TRUE]
  /\ Transfer
  /\ UNCHANGED <<slots, state, prio, period, ticker, delay, trig, queues, phase, tid>>

\* Signals.Await: the thread queues itself, then SuspendMe
Await(s) ==
  /\ sigQ' = [sigQ EXCEPT ![s] = Append(@, run)]
  /\ state' = [state EXCEPT ![run] = "suspended"]
  /\ Transfer
  /\ UNCHANGED <<slots, prio, timing, ready, queued, phase, tid>>

-----------------------------------------------------------------------------
(* The scheduler coroutine.                                                *)

\* slotIn: behind all threads that are as urgent or more urgent
SlotIn(t) ==
  \/ t \in queued /\ UNCHANGED <<ready, queued>>
  \/ /\ t \notin queued
     /\ queued' = queued \cup {t}
     /\ \E k \in 1..(Len(ready) + 1) :
          /\ \A i \in 1..(k - 1) : prio[ready[i]] <= prio[t]
          /\ k <= Len(ready) => prio[ready[k]] > prio[t]
          /\ ready' = SubSeq(ready, 1, k - 1) \o <<t>> \o SubSeq(ready, k, Len(ready))

\* Run: the main program ends, the scheduler starts
Run ==
  /\ phase = "setup"
  /\ phase' = "idle"
  /\ UNCHANGED <<slots, state, prio, timing, queues, run, tid>>

\* SysTick.Tick() returns TRUE
Tick ==
  /\ phase = "idle"
  /\ phase' = "scan"
  /\ tid' = 0
  /\ UNCHANGED <<slots, state, prio, timing, queues, run>>

\* Mutant of NoTriggers: an expired delay that went below zero counts as a trigger
NoTriggers_Exact(t) == delay[t] = 0 /\ period[t] = 0 /\ ~dev[t]

NoTriggers(t) == delay[t] <= 0 /\ period[t] = 0 /\ ~dev[t]

\* Mutant of CheckTriggers: the period takes precedence
CheckTriggers_PeriodFirst(t, fired) ==
  LET due == period[t] > 0 /\ ticker[t] <= LoopPeriod
      expired == delay[t] > 0 /\ delay[t] <= LoopPeriod
  IN /\ fired => dev[t]
     /\ ticker' = [ticker EXCEPT ![t] =
                     IF period[t] = 0 THEN @
                     ELSE @ - LoopPeriod + (IF due THEN period[t] ELSE 0)]
     /\ delay' = [delay EXCEPT ![t] = IF @ > 0 THEN @ - LoopPeriod ELSE @]
     /\ dev' = [dev EXCEPT ![t] = @ /\ ~fired]
     /\ trig' = [trig EXCEPT ![t] = IF fired THEN "device" ELSE IF expired THEN "delay"
                                    ELSE IF due THEN "period" ELSE "none"]
     /\ IF NoTriggers(t) \/ fired \/ expired \/ due THEN SlotIn(t)
        ELSE UNCHANGED <<ready, queued>>

\* The scan of an enabled thread; fired: the awaited device flags have been seen
CheckTriggers(t, fired) ==
  LET left == ticker[t] - LoopPeriod
      due == period[t] > 0 /\ left <= 0
      expired == delay[t] > 0 /\ delay[t] <= LoopPeriod
      blocked == delay[t] > LoopPeriod \/ (dev[t] /\ ~fired)
      slot == NoTriggers(t) \/ fired \/ expired \/ (due /\ ~blocked)
  IN /\ fired => dev[t]
     /\ ticker' = [ticker EXCEPT ![t] = IF due THEN left + period[t]
                                        ELSE IF period[t] > 0 THEN left ELSE @]
     /\ delay' = [delay EXCEPT ![t] = IF @ > 0 THEN @ - LoopPeriod ELSE @]
     /\ dev' = [dev EXCEPT ![t] = @ /\ ~fired]
     /\ trig' = [trig EXCEPT ![t] = IF fired THEN "device" ELSE IF expired THEN "delay"
                                    ELSE IF due THEN "period" ELSE "none"]
     /\ \/ slot /\ SlotIn(t)
        \/ ~slot /\ UNCHANGED <<ready, queued>>

ScanThread ==
  /\ phase = "scan"
  /\ tid < num
  /\ tid' = tid + 1
  /\ \/ state[tid] = "enabled" /\ \E fired \in BOOLEAN : CheckTriggers(tid, fired)
     \/ state[tid] # "enabled" /\ UNCHANGED <<ticker, delay, dev, trig, ready, queued>>
  /\ UNCHANGED <<slots, state, prio, period, sigQ, run, phase>>

EndScan ==
  /\ phase = "scan"
  /\ tid >= num
  /\ phase' = "drain"
  /\ UNCHANGED <<slots, state, prio, timing, queues, run, tid>>

\* The first thread is slotted out and runs
Dispatch ==
  /\ phase = "drain"
  /\ run = NIL
  /\ ready # <<>>
  /\ run' = Head(ready)
  /\ ready' = Tail(ready)
  /\ queued' = queued \ {Head(ready)}
  /\ UNCHANGED <<slots, state, prio, timing, sigQ, phase, tid>>

EndDrain ==
  /\ phase = "drain"
  /\ run = NIL
  /\ ready = <<>>
  /\ phase' = "idle"
  /\ UNCHANGED <<slots, state, prio, timing, queues, run, tid>>

-----------------------------------------------------------------------------
Loop == Tick \/ ScanThread \/ EndScan \/ Dispatch \/ EndDrain

Management == Allocate \/ \E t \in Tids : Enable(t) \/ Reallocate(t)

LocalCall ==
  \/ \E p \in prog.prios : SetPrio(p)
  \/ \E p, startAfter \in prog.periods : SetPeriod(p, startAfter)
  \/ \E d \in prog.delays : StartTimeout(d)
  \/ CancelAwaitDeviceFlags
  \/ Calling("Send") /\ \E s \in prog.signals : Send(s)

Yields ==
  \/ NextCall
  \/ SuspendMe
  \/ \E d \in prog.delays : DelayMe(d)
  \/ AwaitDeviceFlags
  \/ Calling("Await") /\ \E s \in prog.signals : Await(s)

Next == Run \/ Loop \/ Management \/ LocalCall \/ Yields

Spec == Init /\ [][Next]_vars

(* Ticks go on, the scheduler does not stop, and each thread eventually    *)
(* transfers back: the contract of cooperative scheduling.  Device flags   *)
(* may never be seen.                                                      *)
Fairness == WF_vars(Run) /\ WF_vars(Loop) /\ WF_vars(Yields)

FairSpec == Spec /\ Fairness

-----------------------------------------------------------------------------
TypeOK ==
  /\ prog \in Programs
  /\ num \in 0..MaxNumThreads
  /\ hasCor \subseteq Tids
  /\ state \in [Tids -> {"suspended", "enabled"}]
  /\ prio \in [Tids -> Prios]
  /\ period \in [Tids -> Nat]
  /\ ticker \in [Tids -> Int]
  /\ delay \in [Tids -> Int]
  /\ dev \in [Tids -> BOOLEAN]
  /\ trig \in [Tids -> {"none", "period", "delay", "device"}]
  /\ ready \in Seq(Tids)
  /\ queued \subseteq Tids
  /\ run \in Tids \cup {NIL}
  /\ phase \in {"setup", "idle", "scan", "drain"}
  /\ tid \in 0..MaxNumThreads
  /\ sigQ \in [Signals -> Seq(Tids)]

Places(t) ==
  {<<"ready", i>> : i \in {j \in DOMAIN ready : ready[j] = t}}
  \cup (UNION {{<<s, i>> : i \in {j \in DOMAIN sigQ[s] : sigQ[s][j] = t}} : s \in Signals})
  \cup (IF run = t THEN {<<"run", 1>>} ELSE {})

(* A thread is in the ready queue, in the queue of one signal, or runs,    *)
(* and in each at most once: its only link field never serves two queues.  *)
(* The bit set ctx.queued says exactly who is in the ready queue.          *)
OnePlace ==
  /\ \A t \in Tids : \A x, y \in Places(t) : x = y
  /\ queued = Range(ready)

(* A thread that waits for a signal stays suspended until a Send, whatever *)
(* else goes on, so that the scan does not slot it in.                     *)
WaitersSuspended == \A t \in Tids : Awaiting(t) => state[t] = "suspended"

(* The ready queue is sorted by priority, and among equals by the order of *)
(* the scan, although priorities change while other threads are queued.    *)
ReadySorted ==
  \A i, j \in DOMAIN ready : i < j =>
    \/ prio[ready[i]] < prio[ready[j]]
    \/ prio[ready[i]] = prio[ready[j]] /\ ready[i] < ready[j]

(* What Trigger() will tell a queued thread is true, and nothing that      *)
(* takes precedence is left: a thread that waits for a delay or for device *)
(* flags is not run by its period, and a device wait ends by the flags or  *)
(* by the timeout.                                                         *)
ReadyForReason ==
  \A t \in Range(ready) :
    /\ state[t] = "enabled"
    /\ trig[t] = "none" => NoTriggers(t)
    /\ trig[t] = "period" => period[t] > 0 /\ delay[t] <= 0 /\ ~dev[t]
    /\ trig[t] = "delay" => delay[t] <= 0
    /\ trig[t] = "device" => ~dev[t]

(* An enabled thread runs again, unless it waits for device flags without  *)
(* a timeout: no thread is starved by others or forgotten by the scan,     *)
(* also a thread that has just been woken by Send.                         *)
EnabledRuns ==
  \A t \in Tids : (state[t] = "enabled" /\ (delay[t] > 0 \/ ~dev[t])) ~> (run = t)

(* The queues and the states of the threads agree, whatever the threads,   *)
(* the signals and the scan do: what the link fields, ctx.queued and the   *)
(* state of a thread say of it never contradict each other, and a slot     *)
(* whose allocation has failed stays out of all of them.                   *)
QueuesSound ==
  /\ TypeOK /\ OnePlace /\ WaitersSuspended /\ ReadySorted
  /\ \A t \in Tids \ hasCor : Places(t) = {}
=============================================================================
