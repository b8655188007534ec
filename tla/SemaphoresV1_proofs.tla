------------------------- MODULE SemaphoresV1_proofs -------------------------
(***************************************************************************)
(* Proofs about the scheduler of kernel-v1, its signals and semaphores,    *)
(* for every number of threads and signals and every set of programs.      *)
(***************************************************************************)
EXTENDS SemaphoresV1, QueueLemmas

\* A thread has one link field: it is in one queue, or runs
Apart ==
  /\ IsInjective(ready)
  /\ \A s \in Signals : IsInjective(sigQ[s])
  /\ \A s \in Signals : \A t \in Range(sigQ[s]) :
       /\ t \notin Range(ready) /\ run # t
       /\ \A r \in Signals : t \in Range(sigQ[r]) => r = s
  /\ run \notin Range(ready)

\* Threads run in the drain phase only; the scan slots in by rising number
Scheduled ==
  /\ phase # "drain" => run = NIL
  /\ phase \in {"setup", "idle"} => ready = <<>>
  /\ phase = "scan" => \A t \in Range(ready) : t < tid

\* Only threads with a coroutine are enabled, queued or run
Allocated ==
  /\ \A t \in hasCor : t < num
  /\ \A t \in Tids : state[t] = "enabled" => t \in hasCor
  /\ Range(ready) \subseteq hasCor
  /\ \A s \in Signals : Range(sigQ[s]) \subseteq hasCor
  /\ run # NIL => run \in hasCor

Sound ==
  /\ TypeOK
  /\ Apart
  /\ queued = Range(ready)
  /\ WaitersSuspended
  /\ Scheduled
  /\ Allocated
  /\ ReadySorted
  /\ ReadyForReason

\* What a thread does to signals: the kernel's own calls and the semaphore's
SignalStep == \E s \in Signals : Send(s) \/ (run # NIL /\ Await(s))

-----------------------------------------------------------------------------
LEMMA TidFacts == NIL \notin Tids /\ NIL \notin Nat /\ Tids \subseteq Nat
BY SchedulerAssumption DEF Tids

LEMMA SoundInit == Init => Sound
<1> SUFFICES ASSUME Init PROVE Sound
  OBVIOUS
<1> USE SchedulerAssumption, TidFacts DEF Init
<1>1. \A q \in {<<>>} : IsInjective(q) /\ Range(q) = {} /\ q \in Seq(Tids) /\ DOMAIN q = {}
  BY DEF IsInjective, Range
<1>2. TypeOK
  BY <1>1 DEF TypeOK
<1>3. Apart /\ queued = Range(ready) /\ WaitersSuspended /\ Scheduled /\ Allocated
  BY <1>1 DEF Apart, WaitersSuspended, Awaiting, Scheduled, Allocated
<1>4. ReadySorted /\ ReadyForReason
  BY <1>1 DEF ReadySorted, ReadyForReason
<1> QED BY <1>1, <1>2, <1>3, <1>4 DEF Sound

-----------------------------------------------------------------------------
(* Types.                                                                  *)
LEMMA SlotsAt ==
  ASSUME ready \in Seq(Tids), NEW t \in Tids, NEW k \in 1..(Len(ready) + 1),
         ready' = Inserted(ready, t, k)
  PROVE  /\ ready' \in Seq(Tids) /\ Len(ready') = Len(ready) + 1 /\ ready'[k] = t
         /\ \A i \in 1..(k - 1) : ready'[i] = ready[i]
         /\ \A i \in k..Len(ready) : ready'[i + 1] = ready[i]
BY InsertedAt

LEMMA SlotInTypes ==
  ASSUME ready \in Seq(Tids), queued \subseteq Tids, NEW t \in Tids, SlotIn(t)
  PROVE  ready' \in Seq(Tids) /\ queued' \subseteq Tids
<1>1. ASSUME NEW k \in 1..(Len(ready) + 1), ready' = Inserted(ready, t, k)
      PROVE  ready' \in Seq(Tids)
  BY <1>1, SlotsAt
<1> QED BY <1>1 DEF SlotIn, Inserted

LEMMA ScanTypes ==
  ASSUME TypeOK, ScanThread
  PROVE  TypeOK'
<1> USE SchedulerAssumption DEF TypeOK, ScanThread, Tids
<1>1. tid \in Tids /\ tid' \in 0..MaxNumThreads
  OBVIOUS
<1>2. CASE state[tid] # "enabled"
  <2>1. UNCHANGED <<prog, num, hasCor, state, prio, period, ticker, delay, dev, trig, ready,
                    queued, sigQ, run, phase>>
    BY <1>2 DEF slots
  <2> HIDE DEF ScanThread
  <2> QED BY <1>1, <2>1
<1>3. ASSUME NEW fired \in BOOLEAN, CheckTriggers(tid, fired) PROVE TypeOK'
  <2>1. \A t \in Tids : period[t] \in Nat /\ ticker[t] \in Int /\ delay[t] \in Int
    OBVIOUS
  <2>2. ticker' \in [Tids -> Int]
    <3> DEFINE left == ticker[tid] - LoopPeriod
               next == IF period[tid] > 0 /\ left <= 0 THEN left + period[tid]
                       ELSE IF period[tid] > 0 THEN left ELSE ticker[tid]
    <3>1. ticker \in [Tids -> Int] /\ ticker' = [ticker EXCEPT ![tid] = next]
      BY <1>3 DEF CheckTriggers
    <3>2. next \in Int
      BY <1>1, <2>1, SMTT(30)
    <3> HIDE DEF next, ScanThread, TypeOK
    <3> QED BY <1>1, <3>1, <3>2
  <2>3. delay' \in [Tids -> Int]
    <3> DEFINE next == IF delay[tid] > 0 THEN delay[tid] - LoopPeriod ELSE delay[tid]
    <3>1. delay \in [Tids -> Int] /\ delay' = [delay EXCEPT ![tid] = next]
      BY <1>3 DEF CheckTriggers
    <3>2. next \in Int
      BY <1>1, <2>1
    <3> HIDE DEF next, ScanThread, TypeOK
    <3> QED BY <1>1, <3>1, <3>2
  <2>4. dev' \in [Tids -> BOOLEAN]
    BY <1>1, <1>3 DEF CheckTriggers
  <2>5. trig' \in [Tids -> {"none", "period", "delay", "device"}]
    BY <1>1, <1>3 DEF CheckTriggers
  <2>6. ready' \in Seq(Tids) /\ queued' \subseteq Tids
    <3>1. ready \in Seq(Tids) /\ queued \subseteq Tids
      OBVIOUS
    <3>2. SlotIn(tid) \/ UNCHANGED <<ready, queued>>
      BY <1>3 DEF CheckTriggers
    <3> HIDE DEF ScanThread
    <3> QED BY <1>1, <3>1, <3>2, SlotInTypes
  <2>7. UNCHANGED <<prog, num, hasCor, state, prio, period, sigQ, run, phase>>
    BY DEF slots
  <2> HIDE DEF ScanThread
  <2> QED BY <1>1, <2>2, <2>3, <2>4, <2>5, <2>6, <2>7
<1> QED BY <1>2, <1>3

LEMMA SignalTypes ==
  ASSUME TypeOK, SignalStep
  PROVE  TypeOK'
<1> USE SchedulerAssumption DEF TypeOK
<1>1. ASSUME NEW s \in Signals, Send(s) PROVE TypeOK'
  <2>1. Head(sigQ[s]) \in Tids /\ Tail(sigQ[s]) \in Seq(Tids)
    BY <1>1, HeadAndTail DEF Send
  <2> QED BY <1>1, <2>1 DEF Send, slots, timing
<1>2. ASSUME NEW s \in Signals, run # NIL, Await(s) PROVE TypeOK'
  <2>1. Append(sigQ[s], run) \in Seq(Tids)
    BY <1>2
  <2> QED BY <1>2, <2>1 DEF Await, Transfer, slots, timing
<1> QED BY <1>1, <1>2 DEF SignalStep

LEMMA TypeStep ==
  ASSUME TypeOK, Next
  PROVE  TypeOK'
<1> USE SchedulerAssumption, TidFacts DEF TypeOK, slots, timing, queues
<1>1. ASSUME Run \/ Tick \/ EndScan \/ EndDrain PROVE TypeOK'
  <2>1. /\ UNCHANGED <<prog, num, hasCor, state, prio, period, ticker, delay, dev, trig, ready,
                        queued, sigQ, run>>
        /\ tid' \in {0, tid} /\ phase' \in {"setup", "idle", "scan", "drain"}
    BY <1>1 DEF Run, Tick, EndScan, EndDrain
  <2> QED BY <2>1
<1>2. ASSUME Dispatch PROVE TypeOK'
  <2>1. Head(ready) \in Tids /\ Tail(ready) \in Seq(Tids)
    BY <1>2, HeadAndTail DEF Dispatch
  <2> QED BY <1>2, <2>1 DEF Dispatch
<1>3. ASSUME Allocate PROVE TypeOK'
  <2>1. /\ num \in Tids /\ num' \in 0..MaxNumThreads /\ hasCor' \subseteq Tids
        /\ UNCHANGED <<prog, ticker, trig, ready, queued, sigQ, run, phase, tid>>
    <3>1. num < MaxNumThreads /\ num' = num + 1 /\ (hasCor' = hasCor \cup {num} \/ hasCor' = hasCor)
      BY <1>3 DEF Allocate
    <3>2. num \in Tids /\ num' \in 0..MaxNumThreads
      BY <3>1 DEF Tids
    <3> QED BY <1>3, <3>1, <3>2 DEF Allocate
  <2>2. state' \in [Tids -> {"suspended", "enabled"}] /\ prio' \in [Tids -> Prios]
    BY <1>3, <2>1 DEF Allocate
  <2>3. period' \in [Tids -> Nat] /\ delay' \in [Tids -> Int]
    BY <1>3, <2>1 DEF Allocate
  <2>4. dev' \in [Tids -> BOOLEAN]
    BY <1>3, <2>1 DEF Allocate
  <2> QED BY <2>1, <2>2, <2>3, <2>4
<1>4. ASSUME NEW t \in Tids, Enable(t) \/ Reallocate(t) PROVE TypeOK'
  <2>1. CASE Enable(t)
    BY <2>1 DEF Enable
  <2>2. CASE Reallocate(t)
    <3>1. /\ UNCHANGED <<prog, num, hasCor, state, ticker, trig, ready, queued, sigQ, run, phase, tid>>
          /\ prio' \in [Tids -> Prios] /\ period' \in [Tids -> Nat]
      BY <2>2 DEF Reallocate
    <3>2. delay' \in [Tids -> Int]
      BY <2>2 DEF Reallocate
    <3>3. dev' \in [Tids -> BOOLEAN]
      BY <2>2 DEF Reallocate
    <3> QED BY <3>1, <3>2, <3>3
  <2> QED BY <1>4, <2>1, <2>2
<1>5. ASSUME NEW p \in prog.prios, SetPrio(p) PROVE TypeOK'
  BY <1>5 DEF SetPrio
<1>6. ASSUME NEW p \in prog.periods, NEW after \in prog.periods, SetPeriod(p, after) PROVE TypeOK'
  <2>1. p * LoopPeriod \in Nat /\ after * LoopPeriod \in Int
    <3>1. p \in Nat /\ after \in Nat /\ LoopPeriod \in Nat
      OBVIOUS
    <3> QED BY <3>1
  <2> HIDE SchedulerAssumption
  <2>2. \A x \in Nat, y \in Int :
          /\ [period EXCEPT ![run] = x] \in [Tids -> Nat]
          /\ [ticker EXCEPT ![run] = y] \in [Tids -> Int]
    OBVIOUS
  <2> QED BY <1>6, <2>1, <2>2 DEF SetPeriod
<1>7. ASSUME NEW d \in prog.delays, StartTimeout(d) \/ DelayMe(d) PROVE TypeOK'
  <2>1. d \in Int
    OBVIOUS
  <2> QED BY <1>7, <2>1 DEF StartTimeout, DelayMe, Transfer
<1>8. ASSUME CancelAwaitDeviceFlags \/ AwaitDeviceFlags PROVE TypeOK'
  BY <1>8 DEF CancelAwaitDeviceFlags, AwaitDeviceFlags, Transfer
<1>9. ASSUME NextCall \/ SuspendMe PROVE TypeOK'
  BY <1>9 DEF NextCall, SuspendMe, Transfer
<1>10. ASSUME NEW s \in prog.signals, Send(s) \/ (Calling("Await") /\ Await(s)) PROVE TypeOK'
  <2>1. s \in Signals
    OBVIOUS
  <2>2. Calling("Await") => run # NIL
    BY DEF Calling
  <2> QED BY <1>10, <2>1, <2>2, SignalTypes DEF SignalStep
<1> QED
  BY <1>1, <1>2, <1>3, <1>4, <1>5, <1>6, <1>7, <1>8, <1>9, <1>10, ScanTypes
  DEF Next, Loop, Management, LocalCall, Yields

-----------------------------------------------------------------------------
LEMMA RangeOf == \A q \in Seq(Tids) : Range(q) \subseteq Tids
BY DEF Range

LEMMA InQueues ==
  ASSUME TypeOK
  PROVE  Range(ready) \subseteq Tids /\ \A s \in Signals : Range(sigQ[s]) \subseteq Tids
BY RangeOf DEF TypeOK

(* A step that moves no thread between queues, and changes nothing that a  *)
(* queued thread is queued for: the calls of threads that manage others    *)
(* or themselves.                                                          *)
LEMMA QueuesKept ==
  ASSUME Sound, TypeOK',
         num' >= num, hasCor \subseteq hasCor', \A t \in hasCor' : t < num',
         UNCHANGED <<ready, queued, sigQ, phase, tid>>, run' \in {run, NIL},
         \A t \in Range(ready) :
           /\ state'[t] = state[t] /\ prio'[t] = prio[t] /\ period'[t] = period[t]
           /\ delay'[t] = delay[t] /\ dev'[t] = dev[t] /\ trig'[t] = trig[t],
         \A t \in Tids : Awaiting(t) => state'[t] = "suspended",
         \A t \in Tids : state'[t] = "enabled" => t \in hasCor'
  PROVE  Sound'
<1>0. /\ NIL \notin Range(ready)
      /\ \A s \in Signals : NIL \notin Range(sigQ[s])
  BY TidFacts, InQueues DEF Sound
<1>1. Apart' /\ queued' = Range(ready')
  BY <1>0 DEF Sound, Apart
<1>2. WaitersSuspended'
  BY DEF WaitersSuspended, Awaiting
<1>3. Scheduled'
  BY DEF Sound, Scheduled
<1>4. Allocated'
  BY DEF Sound, Allocated
<1>5. \A i \in DOMAIN ready : ready[i] \in Range(ready)
  BY DEF Range
<1>6. ReadySorted'
  BY <1>5 DEF Sound, ReadySorted
<1>7. ReadyForReason'
  BY DEF Sound, ReadyForReason, NoTriggers
<1> QED BY <1>1, <1>2, <1>3, <1>4, <1>6, <1>7 DEF Sound

LEMMA PhaseSteps ==
  ASSUME Sound, Run \/ Tick \/ EndScan \/ EndDrain
  PROVE  Sound'
<1>1. TypeOK'
  BY TypeStep DEF Sound, Next, Loop
<1>2. UNCHANGED <<prog, num, hasCor, state, prio, period, ticker, delay, dev, trig, ready, queued,
                  sigQ, run>>
  BY DEF Run, Tick, EndScan, EndDrain, slots, timing, queues
<1>3. Scheduled'
  <2>1. CASE EndScan
    BY <2>1 DEF EndScan, Sound, Scheduled, queues
  <2>2. CASE Run \/ Tick \/ EndDrain
    <3>1. ready = <<>> /\ run = NIL /\ phase' # "drain"
      BY <2>2 DEF Run, Tick, EndDrain, Sound, Scheduled
    <3>2. Range(ready) = {}
      BY <3>1 DEF Range
    <3> QED BY <1>2, <3>1, <3>2 DEF Scheduled
  <2> QED BY <2>1, <2>2
<1>4. Apart' /\ queued' = Range(ready') /\ WaitersSuspended' /\ Allocated'
  BY <1>2 DEF Sound, Apart, WaitersSuspended, Awaiting, Allocated
<1>5. ReadySorted' /\ ReadyForReason'
  BY <1>2 DEF Sound, ReadySorted, ReadyForReason, NoTriggers
<1> QED BY <1>1, <1>3, <1>4, <1>5 DEF Sound

(* The slot that Allocate takes was nowhere.                               *)
LEMMA AllocateKeeps ==
  ASSUME Sound, Allocate
  PROVE  Sound'
<1>1. TypeOK'
  BY TypeStep DEF Sound, Next, Management
<1>2. /\ num \in Nat /\ num' = num + 1 /\ num \in Tids
      /\ hasCor' = hasCor \cup {num} \/ hasCor' = hasCor
      /\ UNCHANGED <<trig, ready, queued, sigQ, run, phase, tid>>
  BY SchedulerAssumption DEF Allocate, Sound, TypeOK, Tids, queues
<1>3. num \notin hasCor /\ \A t \in hasCor : t < num
  BY <1>2 DEF Sound, Allocated
<1>4. \A t \in Tids \ {num} :
        /\ state'[t] = state[t] /\ prio'[t] = prio[t] /\ period'[t] = period[t]
        /\ delay'[t] = delay[t] /\ dev'[t] = dev[t]
  BY DEF Allocate, Sound, TypeOK
<1>5. state'[num] = "suspended"
  BY <1>2 DEF Allocate, Sound, TypeOK
<1>6. Range(ready) \subseteq hasCor /\ Range(ready) \subseteq Tids
  BY DEF Sound, Allocated, TypeOK
<1>7. \A t \in hasCor' : t < num'
  <2>1. \A t \in hasCor : t \in Nat
    BY TidFacts DEF Sound, TypeOK
  <2> QED BY <1>2, <1>3, <2>1
<1>8. \A t \in Tids : state'[t] = "enabled" => t \in hasCor'
  BY <1>2, <1>4, <1>5 DEF Sound, Allocated
<1>9. \A t \in Tids : Awaiting(t) => state'[t] = "suspended"
  BY <1>4, <1>5 DEF Sound, WaitersSuspended
<1>10. \A t \in Range(ready) :
         /\ state'[t] = state[t] /\ prio'[t] = prio[t] /\ period'[t] = period[t]
         /\ delay'[t] = delay[t] /\ dev'[t] = dev[t] /\ trig'[t] = trig[t]
  BY <1>2, <1>3, <1>4, <1>6
<1> QED BY <1>1, <1>2, <1>3, <1>7, <1>8, <1>9, <1>10, QueuesKept

(* Enable and Reallocate, under their usage rule: a suspended thread is in *)
(* no queue, an enabled one stays as it is.                                *)
LEMMA ManageKeeps ==
  ASSUME Sound, NEW t \in Tids, Enable(t) \/ Reallocate(t)
  PROVE  Sound'
<1>1. TypeOK'
  BY TypeStep DEF Sound, Next, Management
<1>2. /\ UNCHANGED <<num, hasCor, trig, ready, queued, sigQ, run, phase, tid>>
      /\ t \in hasCor /\ ~Awaiting(t) /\ num >= num
  BY DEF Enable, Reallocate, MayManage, slots, timing, queues, Sound, TypeOK
<1>3. Range(ready) \subseteq Tids /\ \A u \in Range(ready) : state[u] = "enabled"
  BY DEF Sound, TypeOK, ReadyForReason
<1>4. CASE Enable(t)
  <2>1. /\ UNCHANGED <<prio, period, delay, dev>>
        /\ \A u \in Tids : state'[u] = IF u = t THEN "enabled" ELSE state[u]
    BY <1>4 DEF Enable, timing, Sound, TypeOK
  <2> QED
    BY <1>1, <1>2, <1>3, <2>1, QueuesKept DEF Sound, Allocated, WaitersSuspended
<1>5. CASE Reallocate(t)
  <2>1. /\ state' = state /\ state[t] = "suspended"
        /\ \A u \in Tids \ {t} : /\ prio'[u] = prio[u] /\ period'[u] = period[u]
                                 /\ delay'[u] = delay[u] /\ dev'[u] = dev[u]
    BY <1>5 DEF Reallocate, Sound, TypeOK
  <2>2. t \notin Range(ready)
    BY <1>3, <2>1
  <2> QED
    BY <1>1, <1>2, <1>3, <2>1, <2>2, QueuesKept DEF Sound, Allocated, WaitersSuspended
<1> QED BY <1>4, <1>5

(* What a thread calls about itself, running on or transferring: it is in  *)
(* no queue while it runs.                                                 *)
LEMMA OwnCallsKeep ==
  ASSUME Sound,
         \/ \E p \in prog.prios : SetPrio(p)
         \/ \E p, startAfter \in prog.periods : SetPeriod(p, startAfter)
         \/ \E d \in prog.delays : StartTimeout(d) \/ DelayMe(d)
         \/ CancelAwaitDeviceFlags \/ NextCall \/ SuspendMe \/ AwaitDeviceFlags
  PROVE  Sound'
<1>1. TypeOK'
  BY TypeStep DEF Sound, Next, LocalCall, Yields
<1>2. /\ UNCHANGED <<num, hasCor, trig, ready, queued, sigQ, phase, tid>>
      /\ run' \in {run, NIL} /\ num >= num
  BY DEF SetPrio, SetPeriod, StartTimeout, DelayMe, CancelAwaitDeviceFlags, NextCall, SuspendMe,
         AwaitDeviceFlags, Transfer, slots, timing, queues, Sound, TypeOK
<1>3. run # NIL
  BY DEF SetPrio, SetPeriod, StartTimeout, DelayMe, CancelAwaitDeviceFlags, NextCall, SuspendMe,
         AwaitDeviceFlags, Calling
<1>4. run \in Tids /\ run \notin Range(ready) /\ Range(ready) \subseteq Tids
  BY <1>3 DEF Sound, Apart, TypeOK
<1>5. \A t \in Tids \ {run} :
        /\ state'[t] = state[t] /\ prio'[t] = prio[t] /\ period'[t] = period[t]
        /\ delay'[t] = delay[t] /\ dev'[t] = dev[t]
  <2>1. CASE \E p \in prog.prios : SetPrio(p)
    BY <2>1 DEF SetPrio, timing, Sound, TypeOK
  <2>2. CASE \E p, startAfter \in prog.periods : SetPeriod(p, startAfter)
    BY <2>2 DEF SetPeriod, Sound, TypeOK
  <2>3. CASE \E d \in prog.delays : StartTimeout(d) \/ DelayMe(d)
    BY <2>3 DEF StartTimeout, DelayMe, Sound, TypeOK
  <2>4. CASE CancelAwaitDeviceFlags \/ AwaitDeviceFlags
    BY <2>4 DEF CancelAwaitDeviceFlags, AwaitDeviceFlags, Sound, TypeOK
  <2>5. CASE NextCall \/ SuspendMe
    BY <2>5 DEF NextCall, SuspendMe, timing, Sound, TypeOK
  <2> QED BY <2>1, <2>2, <2>3, <2>4, <2>5
<1>6. state'[run] \in {state[run], "suspended"}
  BY <1>4
  DEF SetPrio, SetPeriod, StartTimeout, DelayMe, CancelAwaitDeviceFlags, NextCall, SuspendMe,
      AwaitDeviceFlags, Sound, TypeOK
<1>7. \A t \in Tids : Awaiting(t) => state'[t] = "suspended"
  BY <1>4, <1>5, <1>6 DEF Sound, WaitersSuspended
<1>8. \A t \in Tids : state'[t] = "enabled" => t \in hasCor'
  BY <1>2, <1>4, <1>5, <1>6 DEF Sound, Allocated
<1>9. \A t \in Range(ready) :
        /\ state'[t] = state[t] /\ prio'[t] = prio[t] /\ period'[t] = period[t]
        /\ delay'[t] = delay[t] /\ dev'[t] = dev[t] /\ trig'[t] = trig[t]
  BY <1>2, <1>4, <1>5
<1>10. \A t \in hasCor' : t < num'
  BY <1>2 DEF Sound, Allocated
<1> QED BY <1>1, <1>2, <1>7, <1>8, <1>9, <1>10, QueuesKept

-----------------------------------------------------------------------------
(* The thread that Send wakes leaves the one queue it is in.               *)
LEMMA SendKeeps ==
  ASSUME Sound, NEW s \in Signals, Send(s)
  PROVE  Sound'
<1>1. TypeOK'
  BY SignalTypes DEF Sound, SignalStep
<1>2. /\ UNCHANGED <<prog, num, hasCor, prio, period, ticker, delay, dev, trig, ready, queued, run,
                      phase, tid>>
      /\ sigQ' = [sigQ EXCEPT ![s] = Tail(@)] /\ sigQ[s] # <<>>
      /\ state' = [state EXCEPT ![Head(sigQ[s])] = "enabled"]
  BY DEF Send, slots, timing
<1>3. PICK h : h = Head(sigQ[s])
  OBVIOUS
<1>4. /\ h \in Tids /\ h \in Range(sigQ[s])
      /\ \A r \in Signals : IsInjective(sigQ'[r])
      /\ \A r \in Signals, y \in Tids :
           y \in Range(sigQ'[r]) <=> y \in Range(sigQ[r]) /\ ~(r = s /\ y = h)
  <2>1. sigQ \in [Signals -> Seq(Tids)] /\ \A r \in Signals : IsInjective(sigQ[r])
    BY DEF Sound, TypeOK, Apart
  <2> QED BY <1>2, <1>3, <2>1, TakeHead
<1>5. \A u \in Tids : state'[u] = IF u = h THEN "enabled" ELSE state[u]
  BY <1>2, <1>3 DEF Sound, TypeOK
<1>6. \A r \in Signals : Range(sigQ'[r]) \subseteq Range(sigQ[r]) /\ Range(sigQ'[r]) \subseteq Tids
  <2>1. \A r \in Signals : Range(sigQ'[r]) \subseteq Tids
    BY <1>1, RangeOf DEF TypeOK
  <2> QED BY <1>4, <2>1
<1>7. h \notin Range(ready) /\ h \in hasCor /\ \A r \in Signals : h \notin Range(sigQ'[r])
  BY <1>4 DEF Sound, Apart, Allocated
<1>8. Apart' /\ queued' = Range(ready')
  <2>1. ASSUME NEW r \in Signals, NEW t \in Range(sigQ'[r])
        PROVE  /\ t \notin Range(ready) /\ run # t
               /\ \A q \in Signals : t \in Range(sigQ'[q]) => q = r
    BY <1>6, <2>1 DEF Sound, Apart
  <2> QED BY <1>2, <1>4, <2>1 DEF Sound, Apart
<1>9. WaitersSuspended'
  BY <1>5, <1>6, <1>7 DEF Sound, WaitersSuspended, Awaiting
<1>10. Scheduled'
  BY <1>2 DEF Sound, Scheduled
<1>11. Allocated'
  BY <1>2, <1>5, <1>6, <1>7 DEF Sound, Allocated
<1>12. ReadySorted'
  BY <1>2 DEF Sound, ReadySorted
<1>13. ReadyForReason'
  BY <1>2, <1>5, <1>7, InQueues DEF Sound, ReadyForReason, NoTriggers
<1> QED BY <1>1, <1>8, <1>9, <1>10, <1>11, <1>12, <1>13 DEF Sound

(* The thread that awaits a signal runs, so it is in no queue before.      *)
LEMMA AwaitKeeps ==
  ASSUME Sound, NEW s \in Signals, run # NIL, Await(s)
  PROVE  Sound'
<1>1. TypeOK'
  BY SignalTypes DEF Sound, SignalStep
<1>2. /\ UNCHANGED <<prog, num, hasCor, prio, period, ticker, delay, dev, trig, ready, queued,
                      phase, tid>>
      /\ run' = NIL /\ sigQ' = [sigQ EXCEPT ![s] = Append(@, run)]
      /\ state' = [state EXCEPT ![run] = "suspended"]
  BY DEF Await, Transfer, slots, timing
<1>3. /\ run \in Tids /\ run \in hasCor /\ run \notin Range(ready)
      /\ \A r \in Signals : run \notin Range(sigQ[r])
  BY DEF Sound, TypeOK, Allocated, Apart
<1>4. /\ \A r \in Signals : IsInjective(sigQ'[r])
      /\ \A r \in Signals, y \in Tids :
           y \in Range(sigQ'[r]) <=> y \in Range(sigQ[r]) \/ (r = s /\ y = run)
  <2>1. sigQ \in [Signals -> Seq(Tids)] /\ \A r \in Signals : IsInjective(sigQ[r])
    BY DEF Sound, TypeOK, Apart
  <2> QED BY <1>2, <1>3, <2>1, PutLast
<1>5. \A u \in Tids : state'[u] = IF u = run THEN "suspended" ELSE state[u]
  BY <1>2 DEF Sound, TypeOK
<1>6. \A r \in Signals : Range(sigQ'[r]) \subseteq Tids
  BY <1>1, RangeOf DEF TypeOK
<1>7. Range(ready) \subseteq Tids /\ NIL \notin Tids
  BY TidFacts, InQueues DEF Sound
<1>8. Apart' /\ queued' = Range(ready')
  <2>1. ASSUME NEW r \in Signals, NEW t \in Range(sigQ'[r])
        PROVE  /\ t \notin Range(ready) /\ NIL # t
               /\ \A q \in Signals : t \in Range(sigQ'[q]) => q = r
    <3>1. t \in Tids
      BY <1>6, <2>1
    <3>2. CASE t = run
      BY <1>3, <1>4, <1>7, <3>1, <3>2
    <3>3. CASE t # run
      BY <1>4, <1>7, <2>1, <3>1, <3>3 DEF Sound, Apart
    <3> QED BY <3>2, <3>3
  <2> QED BY <1>2, <1>4, <1>7, <2>1 DEF Sound, Apart
<1>9. WaitersSuspended'
  BY <1>4, <1>5 DEF Sound, WaitersSuspended, Awaiting
<1>10. Scheduled'
  BY <1>2 DEF Sound, Scheduled
<1>11. Allocated'
  BY <1>2, <1>3, <1>4, <1>5, <1>6 DEF Sound, Allocated
<1>12. ReadySorted'
  BY <1>2 DEF Sound, ReadySorted
<1>13. ReadyForReason'
  BY <1>2, <1>3, <1>5, <1>7 DEF Sound, ReadyForReason, NoTriggers
<1> QED BY <1>1, <1>8, <1>9, <1>10, <1>11, <1>12, <1>13 DEF Sound

(* The first of the ready queue runs, and is in no queue then.             *)
LEMMA DispatchKeeps ==
  ASSUME Sound, Dispatch
  PROVE  Sound'
<1>1. TypeOK'
  BY TypeStep DEF Sound, Next, Loop
<1>2. /\ UNCHANGED <<prog, num, hasCor, state, prio, period, ticker, delay, dev, trig, sigQ, phase,
                      tid>>
      /\ phase = "drain" /\ ready # <<>>
      /\ run' = Head(ready) /\ ready' = Tail(ready) /\ queued' = queued \ {Head(ready)}
  BY DEF Dispatch, slots, timing
<1>3. /\ Range(ready) = {run'} \cup Range(ready')
      /\ IsInjective(ready') /\ run' \notin Range(ready')
  <2>1. ready \in Seq(Tids) /\ IsInjective(ready)
    BY DEF Sound, TypeOK, Apart
  <2> QED BY <1>2, <2>1, HeadAndTail
<1>4. \A i \in DOMAIN ready' : i + 1 \in DOMAIN ready /\ ready'[i] = ready[i + 1] /\ i \in Nat
  <2>1. ready \in Seq(Tids)
    BY DEF Sound, TypeOK
  <2> QED BY <1>2, <2>1
<1>5. Apart' /\ queued' = Range(ready')
  BY <1>2, <1>3 DEF Sound, Apart
<1>6. WaitersSuspended'
  BY <1>2 DEF Sound, WaitersSuspended, Awaiting
<1>7. Scheduled'
  BY <1>2 DEF Sound, Scheduled
<1>8. Allocated'
  BY <1>2, <1>3 DEF Sound, Allocated
<1>9. ReadySorted'
  <2> SUFFICES ASSUME NEW i \in DOMAIN ready', NEW j \in DOMAIN ready', i < j
               PROVE  \/ prio[ready'[i]] < prio[ready'[j]]
                      \/ prio[ready'[i]] = prio[ready'[j]] /\ ready'[i] < ready'[j]
    BY <1>2, SMTT(30) DEF ReadySorted
  <2>1. i + 1 < j + 1
    BY <1>4
  <2> QED BY <1>4, <2>1 DEF Sound, ReadySorted
<1>10. ReadyForReason'
  BY <1>2, <1>3 DEF Sound, ReadyForReason, NoTriggers
<1> QED BY <1>1, <1>5, <1>6, <1>7, <1>8, <1>9, <1>10 DEF Sound

(* What slotIn leaves of the order and of who is queued.                   *)
LEMMA SlotInKeeps ==
  ASSUME ready \in Seq(Tids), IsInjective(ready), queued = Range(ready), ReadySorted,
         prio \in [Tids -> Prios],
         NEW t \in Tids, t \notin Range(ready), \A r \in Range(ready) : r < t,
         SlotIn(t), prio' = prio
  PROVE  /\ Range(ready') = Range(ready) \cup {t} /\ IsInjective(ready')
         /\ queued' = Range(ready')
         /\ ReadySorted'
<1>1. PICK k \in 1..(Len(ready) + 1) :
        /\ \A i \in 1..(k - 1) : prio[ready[i]] <= prio[t]
        /\ k <= Len(ready) => prio[ready[k]] > prio[t]
        /\ ready' = Inserted(ready, t, k)
  BY DEF SlotIn, Inserted
<1>2. queued' = queued \cup {t}
  BY DEF SlotIn
<1>3. /\ ready' \in Seq(Tids) /\ Len(ready') = Len(ready) + 1 /\ ready'[k] = t
      /\ \A i \in 1..(k - 1) : ready'[i] = ready[i]
      /\ \A i \in k..Len(ready) : ready'[i + 1] = ready[i]
  BY <1>1, SlotsAt
<1>4. Range(ready') = Range(ready) \cup {t} /\ IsInjective(ready')
  BY <1>3, InsertRange
<1>5. ReadySorted'
  <2> SUFFICES ASSUME NEW i \in DOMAIN ready', NEW j \in DOMAIN ready', i < j
               PROVE  \/ prio[ready'[i]] < prio[ready'[j]]
                      \/ prio[ready'[i]] = prio[ready'[j]] /\ ready'[i] < ready'[j]
    BY DEF ReadySorted
  <2>1. /\ Len(ready) \in Nat /\ k \in Nat /\ k >= 1 /\ DOMAIN ready = 1..Len(ready)
        /\ DOMAIN ready' = 1..(Len(ready) + 1)
        /\ \A n \in DOMAIN ready : ready[n] \in Tids /\ ready[n] \in Range(ready)
    BY <1>3 DEF Range
  <2>2. \A u \in Tids : prio[u] \in Int
    BY SchedulerAssumption
  <2>3. \A m, n \in DOMAIN ready : m < n => prio[ready[m]] <= prio[ready[n]]
    BY <2>1, <2>2, SMTT(30) DEF ReadySorted
  <2>4. \A n \in DOMAIN ready : n < k => prio[ready[n]] <= prio[t]
    BY <1>1, <2>1
  <2>5. \A n \in DOMAIN ready : n >= k => prio[ready[n]] > prio[t]
    <3> SUFFICES ASSUME NEW n \in DOMAIN ready, n >= k PROVE prio[ready[n]] > prio[t]
      OBVIOUS
    <3>1. k \in DOMAIN ready /\ prio[ready[k]] > prio[t]
      BY <1>1, <2>1
    <3>2. prio[ready[k]] <= prio[ready[n]]
      BY <2>1, <2>2, <2>3, <3>1, SMTT(30)
    <3> QED BY <2>1, <2>2, <3>1, <3>2
  <2>6. \A n \in DOMAIN ready' : n > k => n - 1 \in DOMAIN ready /\ ready'[n] = ready[n - 1]
    <3> SUFFICES ASSUME NEW n \in DOMAIN ready', n > k
                 PROVE  n - 1 \in DOMAIN ready /\ ready'[n] = ready[n - 1]
      OBVIOUS
    <3>1. PICK m \in k..Len(ready) : m = n - 1
      BY <2>1
    <3>2. ready'[m + 1] = ready[m] /\ m + 1 = n
      BY <1>3, <2>1, <3>1
    <3> QED BY <2>1, <3>1, <3>2
  <2>7. \A n \in DOMAIN ready' : n < k => n \in DOMAIN ready /\ ready'[n] = ready[n]
    BY <1>3, <2>1
  <2>8. CASE j < k \/ i > k
    <3>1. PICK m \in DOMAIN ready, n \in DOMAIN ready :
            m < n /\ ready'[i] = ready[m] /\ ready'[j] = ready[n]
      <4>1. CASE j < k
        BY <2>1, <2>7, <4>1
      <4>2. CASE i > k
        <5>1. i - 1 < j - 1 /\ j > k
          BY <2>1, <4>2
        <5> QED BY <2>6, <4>2, <5>1
      <4> QED BY <2>8, <4>1, <4>2
    <3> QED BY <3>1 DEF ReadySorted
  <2>9. CASE j = k
    <3>1. i \in DOMAIN ready /\ ready'[i] = ready[i] /\ ready'[j] = t
      BY <1>3, <2>7, <2>9
    <3>2. prio[ready[i]] <= prio[t] /\ ready[i] < t
      BY <2>1, <2>4, <2>9, <3>1
    <3> QED BY <2>1, <2>2, <3>1, <3>2
  <2>10. CASE i = k
    <3>1. j - 1 \in DOMAIN ready /\ ready'[j] = ready[j - 1] /\ ready'[i] = t /\ j - 1 >= k
      BY <1>3, <2>1, <2>6, <2>10
    <3>2. prio[ready[j - 1]] > prio[t]
      BY <2>5, <3>1
    <3> QED BY <2>1, <2>2, <3>1, <3>2
  <2>11. CASE i < k /\ j > k
    <3>1. /\ i \in DOMAIN ready /\ ready'[i] = ready[i] /\ j - 1 \in DOMAIN ready
          /\ ready'[j] = ready[j - 1] /\ j - 1 >= k
      BY <2>1, <2>6, <2>7, <2>11
    <3>2. prio[ready[i]] <= prio[t] /\ prio[ready[j - 1]] > prio[t]
      BY <2>4, <2>5, <2>11, <3>1
    <3> QED BY <2>1, <2>2, <3>1, <3>2
  <2> QED BY <2>1, <2>8, <2>9, <2>10, <2>11
<1> QED BY <1>2, <1>4, <1>5

(* What the scan leaves of a thread that it slots in is its reason.        *)
LEMMA SlottedForReason ==
  ASSUME TypeOK, NEW t \in Tids, NEW fired \in BOOLEAN, CheckTriggers(t, fired),
         period' = period
  PROVE  /\ \A u \in Tids \ {t} : delay'[u] = delay[u] /\ dev'[u] = dev[u] /\ trig'[u] = trig[u]
         /\ \/ UNCHANGED <<ready, queued>>
            \/ /\ SlotIn(t)
               /\ trig'[t] = "none" => delay'[t] <= 0 /\ period'[t] = 0 /\ ~dev'[t]
               /\ trig'[t] = "period" => period'[t] > 0 /\ delay'[t] <= 0 /\ ~dev'[t]
               /\ trig'[t] = "delay" => delay'[t] <= 0
               /\ trig'[t] = "device" => ~dev'[t]
<1> DEFINE due == period[t] > 0 /\ ticker[t] - LoopPeriod <= 0
           expired == delay[t] > 0 /\ delay[t] <= LoopPeriod
           blocked == delay[t] > LoopPeriod \/ (dev[t] /\ ~fired)
           slot == NoTriggers(t) \/ fired \/ expired \/ (due /\ ~blocked)
<1>1. /\ delay' = [delay EXCEPT ![t] = IF @ > 0 THEN @ - LoopPeriod ELSE @]
      /\ dev' = [dev EXCEPT ![t] = @ /\ ~fired]
      /\ trig' = [trig EXCEPT ![t] = IF fired THEN "device" ELSE IF expired THEN "delay"
                                     ELSE IF due THEN "period" ELSE "none"]
      /\ (slot /\ SlotIn(t)) \/ (~slot /\ UNCHANGED <<ready, queued>>)
  BY DEF CheckTriggers
<1>2. \A u \in Tids \ {t} : delay'[u] = delay[u] /\ dev'[u] = dev[u] /\ trig'[u] = trig[u]
  BY <1>1 DEF TypeOK
<1>3. /\ delay'[t] = IF delay[t] > 0 THEN delay[t] - LoopPeriod ELSE delay[t]
      /\ trig'[t] = IF fired THEN "device" ELSE IF expired THEN "delay"
                    ELSE IF due THEN "period" ELSE "none"
  BY <1>1 DEF TypeOK
<1>4. dev'[t] <=> dev[t] /\ ~fired
  BY <1>1, Zenon DEF TypeOK
<1>5. delay[t] \in Int /\ period[t] \in Nat /\ LoopPeriod \in Nat \ {0}
  BY SchedulerAssumption DEF TypeOK
<1>6. ASSUME slot
      PROVE  /\ trig'[t] = "none" => delay'[t] <= 0 /\ period'[t] = 0 /\ ~dev'[t]
             /\ trig'[t] = "period" => period'[t] > 0 /\ delay'[t] <= 0 /\ ~dev'[t]
             /\ trig'[t] = "delay" => delay'[t] <= 0
             /\ trig'[t] = "device" => ~dev'[t]
  BY <1>3, <1>4, <1>5, <1>6 DEF NoTriggers
<1> QED BY <1>1, <1>2, <1>6

LEMMA ScanKeeps ==
  ASSUME Sound, ScanThread
  PROVE  Sound'
<1>1. TypeOK'
  BY TypeStep DEF Sound, Next, Loop
<1>2. /\ UNCHANGED <<prog, num, hasCor, state, prio, period, sigQ, run, phase>>
      /\ phase = "scan" /\ tid < num /\ tid' = tid + 1
  BY DEF ScanThread, slots
<1>3. tid \in Tids /\ tid \in Nat /\ run = NIL
  BY <1>2, SchedulerAssumption DEF Sound, Scheduled, TypeOK, Tids
<1>4. Range(ready) \subseteq Tids /\ Tids \subseteq Nat /\ NIL \notin Tids
  BY InQueues, TidFacts DEF Sound
<1>5. \A t \in Range(ready) : t < tid /\ t < tid + 1 /\ t # tid
  <2>1. \A t \in Range(ready) : t < tid /\ t \in Nat
    BY <1>2, <1>4 DEF Sound, Scheduled
  <2> QED BY <1>3, <2>1
<1>6. WaitersSuspended'
  BY <1>2 DEF Sound, WaitersSuspended, Awaiting
<1>7. ASSUME UNCHANGED <<ready, queued>>,
             \A t \in Range(ready) : delay'[t] = delay[t] /\ dev'[t] = dev[t] /\ trig'[t] = trig[t]
      PROVE  Sound'
  <2>1. Apart' /\ queued' = Range(ready') /\ Scheduled' /\ Allocated' /\ ReadySorted'
    BY <1>2, <1>3, <1>5, <1>7 DEF Sound, Apart, Scheduled, Allocated, ReadySorted
  <2>2. ReadyForReason'
    BY <1>2, <1>7 DEF Sound, ReadyForReason, NoTriggers
  <2> QED BY <1>1, <1>6, <2>1, <2>2 DEF Sound
<1>8. CASE state[tid] # "enabled"
  <2>1. UNCHANGED <<ticker, delay, dev, trig, ready, queued>>
    BY <1>8 DEF ScanThread
  <2> QED BY <1>7, <2>1
<1>9. ASSUME state[tid] = "enabled", NEW fired \in BOOLEAN, CheckTriggers(tid, fired) PROVE Sound'
  <2>1. TypeOK /\ period' = period
    BY <1>2 DEF Sound
  <2>2. /\ \A u \in Tids \ {tid} : delay'[u] = delay[u] /\ dev'[u] = dev[u] /\ trig'[u] = trig[u]
        /\ \/ UNCHANGED <<ready, queued>>
           \/ /\ SlotIn(tid)
              /\ trig'[tid] = "none" => delay'[tid] <= 0 /\ period'[tid] = 0 /\ ~dev'[tid]
              /\ trig'[tid] = "period" => period'[tid] > 0 /\ delay'[tid] <= 0 /\ ~dev'[tid]
              /\ trig'[tid] = "delay" => delay'[tid] <= 0
              /\ trig'[tid] = "device" => ~dev'[tid]
    BY <1>3, <1>9, <2>1, SlottedForReason
  <2>3. \A u \in Range(ready) : delay'[u] = delay[u] /\ dev'[u] = dev[u] /\ trig'[u] = trig[u]
    BY <1>4, <1>5, <2>2
  <2>4. CASE UNCHANGED <<ready, queued>>
    BY <1>7, <2>3, <2>4
  <2>5. CASE SlotIn(tid) /\ ~UNCHANGED <<ready, queued>>
    <3>1. /\ ready \in Seq(Tids) /\ IsInjective(ready) /\ queued = Range(ready) /\ ReadySorted
          /\ prio \in [Tids -> Prios] /\ tid \notin Range(ready) /\ \A r \in Range(ready) : r < tid
      BY <1>5 DEF Sound, TypeOK, Apart
    <3>2. /\ Range(ready') = Range(ready) \cup {tid} /\ IsInjective(ready')
          /\ queued' = Range(ready') /\ ReadySorted'
      BY <1>2, <1>3, <2>5, <3>1, SlotInKeeps
    <3>3. tid \in hasCor /\ \A s \in Signals : tid \notin Range(sigQ[s])
      BY <1>3, <1>9 DEF Sound, Allocated, WaitersSuspended, Awaiting
    <3>4. Apart' /\ Allocated'
      BY <1>2, <1>3, <1>4, <3>2, <3>3 DEF Sound, Apart, Allocated
    <3>5. Scheduled'
      BY <1>2, <1>3, <1>5, <3>2 DEF Scheduled
    <3>6. ReadyForReason'
      BY <1>2, <1>9, <2>2, <2>3, <2>5, <3>2 DEF Sound, ReadyForReason, NoTriggers
    <3> QED BY <1>1, <1>6, <3>2, <3>4, <3>5, <3>6 DEF Sound
  <2> QED BY <2>2, <2>4, <2>5
<1> QED BY <1>8, <1>9 DEF ScanThread

-----------------------------------------------------------------------------
LEMMA SoundStep == Sound /\ [Next]_vars => Sound'
<1> SUFFICES ASSUME Sound, [Next]_vars PROVE Sound'
  OBVIOUS
<1>1. CASE UNCHANGED vars
  <2>1. UNCHANGED <<prog, num, hasCor, state, prio, period, ticker, delay, dev, trig, ready, queued,
                    sigQ, run, phase, tid>>
    BY <1>1 DEF vars, slots, timing, queues
  <2> QED
    BY <2>1 DEF Sound, TypeOK, Apart, WaitersSuspended, Awaiting, Scheduled, Allocated, ReadySorted,
                ReadyForReason, NoTriggers
<1>2. ASSUME NEW s \in prog.signals,
             (Calling("Send") /\ Send(s)) \/ (Calling("Await") /\ Await(s))
      PROVE  Sound'
  <2>1. s \in Signals /\ (Calling("Await") => run # NIL)
    BY <1>2, SchedulerAssumption DEF Sound, TypeOK, Calling
  <2> QED BY <1>2, <2>1, SendKeeps, AwaitKeeps
<1>3. CASE Run \/ Loop
  BY <1>3, PhaseSteps, ScanKeeps, DispatchKeeps DEF Loop
<1>4. CASE Management
  BY <1>4, AllocateKeeps, ManageKeeps DEF Management
<1>5. CASE LocalCall
  <2>1. CASE Calling("Send") /\ \E s \in prog.signals : Send(s)
    BY <1>2, <2>1
  <2>2. CASE ~(Calling("Send") /\ \E s \in prog.signals : Send(s))
    BY <1>5, <2>2, OwnCallsKeep DEF LocalCall
  <2> QED BY <2>1, <2>2
<1>6. CASE Yields
  <2>1. CASE Calling("Await") /\ \E s \in prog.signals : Await(s)
    BY <1>2, <2>1
  <2>2. CASE ~(Calling("Await") /\ \E s \in prog.signals : Await(s))
    BY <1>6, <2>2, OwnCallsKeep DEF Yields
  <2> QED BY <2>1, <2>2
<1> QED BY <1>1, <1>3, <1>4, <1>5, <1>6 DEF Next

(* A thread has at most one place: what Apart says, of Places.             *)
LEMMA OnlyPlace ==
  ASSUME Sound
  PROVE  /\ \A t \in Tids : \A x, y \in Places(t) : x = y
         /\ \A t \in Tids \ hasCor : Places(t) = {}
<1>1. ASSUME NEW t \in Tids, NEW x \in Places(t)
      PROVE  \/ \E i \in DOMAIN ready : ready[i] = t /\ x = <<"ready", i>>
             \/ \E s \in Signals : \E i \in DOMAIN sigQ[s] : sigQ[s][i] = t /\ x = <<s, i>>
             \/ run = t /\ x = <<"run", 1>>
  BY <1>1 DEF Places
<1>2. /\ \A i \in DOMAIN ready : ready[i] \in Range(ready)
      /\ \A s \in Signals : \A i \in DOMAIN sigQ[s] : sigQ[s][i] \in Range(sigQ[s])
  BY DEF Range
<1>3. ASSUME NEW t \in Tids, NEW x \in Places(t), NEW y \in Places(t) PROVE x = y
  <2>1. CASE \E i \in DOMAIN ready : ready[i] = t /\ x = <<"ready", i>>
    <3>1. t \in Range(ready) /\ run # t /\ \A s \in Signals : t \notin Range(sigQ[s])
      BY <1>2, <2>1 DEF Sound, Apart
    <3>2. \E i \in DOMAIN ready : ready[i] = t /\ y = <<"ready", i>>
      BY <1>1, <1>2, <3>1
    <3> QED BY <2>1, <3>2 DEF Sound, Apart, IsInjective
  <2>2. CASE \E s \in Signals : \E i \in DOMAIN sigQ[s] : sigQ[s][i] = t /\ x = <<s, i>>
    <3>1. PICK s \in Signals : \E i \in DOMAIN sigQ[s] : sigQ[s][i] = t /\ x = <<s, i>>
      BY <2>2
    <3>2. t \notin Range(ready) /\ run # t /\ \A r \in Signals : t \in Range(sigQ[r]) => r = s
      BY <1>2, <3>1 DEF Sound, Apart
    <3>3. \E i \in DOMAIN sigQ[s] : sigQ[s][i] = t /\ y = <<s, i>>
      BY <1>1, <1>2, <3>2
    <3>4. IsInjective(sigQ[s])
      BY DEF Sound, Apart
    <3> QED BY <3>1, <3>3, <3>4 DEF IsInjective
  <2>3. CASE run = t /\ x = <<"run", 1>>
    <3>1. t \notin Range(ready) /\ \A s \in Signals : t \notin Range(sigQ[s])
      BY <2>3 DEF Sound, Apart
    <3>2. y = <<"run", 1>>
      BY <1>1, <1>2, <3>1
    <3> QED BY <2>3, <3>2
  <2> QED BY <1>1, <2>1, <2>2, <2>3
<1>4. ASSUME NEW t \in Tids \ hasCor, NEW x \in Places(t) PROVE FALSE
  BY <1>1, <1>2, TidFacts DEF Sound, Allocated
<1> QED BY <1>3, <1>4

LEMMA SoundMeans == Sound => QueuesSound /\ ReadyForReason
BY OnlyPlace DEF Sound, QueuesSound, OnePlace

(* Whatever a program of kernel-v1 calls, and however its threads wait for *)
(* signals (Kernel.slotIn, loopc, Signals.Await and Send): the link field  *)
(* of a thread serves one queue, a waiting thread stays suspended, and the *)
(* ready queue is sorted.                                                  *)
THEOREM QueuesAreSound == Spec => []QueuesSound
<1>1. Spec => []Sound
  BY SoundInit, SoundStep, PTL DEF Spec
<1> QED BY <1>1, SoundMeans, PTL

(* A thread in the ready queue of kernel-v1 is there for the reason that   *)
(* Kernel.Trigger will tell it.                                            *)
THEOREM ThreadsRunForReason == Spec => []ReadyForReason
<1>1. Spec => []Sound
  BY SoundInit, SoundStep, PTL DEF Spec
<1> QED BY <1>1, SoundMeans, PTL

-----------------------------------------------------------------------------
(* The semaphore.                                                          *)

\* Who waits for the signal of the semaphore is in Claim
SemInv ==
  /\ Sound
  /\ claimed \in BOOLEAN
  /\ at \in [Tids -> {"out", "Claim", "owner"}]
  /\ \A t \in Range(sigQ[sem]) : at[t] = "Claim"
  /\ OneOwner

\* The owner as FifoLock sees it
LockOwner == IF claimed THEN CHOOSE t \in Owners : TRUE ELSE NIL

LEMMA OwnerIs ==
  /\ ~claimed => LockOwner = NIL
  /\ \A t \in Tids : claimed /\ Owners = {t} => LockOwner = t
BY DEF LockOwner

LEMMA SemaphoreInit == SemInit => SemInv /\ Lock!Init
<1> SUFFICES ASSUME SemInit PROVE SemInv /\ Lock!Init
  OBVIOUS
<1>1. /\ Sound /\ sigQ[sem] = <<>> /\ claimed = FALSE /\ at = [t \in Tids |-> "out"]
  BY SoundInit, SemaphoreAssumption DEF SemInit, Init
<1>2. Range(sigQ[sem]) = {}
  BY <1>1 DEF Range
<1>3. Owners = {}
  BY <1>1 DEF Owners
<1> QED BY <1>1, <1>2, <1>3 DEF SemInv, OneOwner, Lock!Init

(* The calls of the kernel leave the signal of the semaphore alone.        *)
LEMMA OtherSignals ==
  ASSUME Sound, [Next]_vars
  PROVE  sigQ'[sem] = sigQ[sem]
<1>1. ASSUME NEW s \in prog.signals, Send(s) \/ Await(s)
      PROVE  sigQ'[sem] = sigQ[sem]
  <2>1. s \in Signals /\ s # sem /\ sem \in Signals
    BY <1>1, SchedulerAssumption, SemaphoreAssumption DEF Sound, TypeOK
  <2>2. sigQ \in [Signals -> Seq(Tids)]
    BY DEF Sound, TypeOK
  <2>3. CASE Send(s)
    BY <2>1, <2>2, <2>3 DEF Send
  <2>4. CASE Await(s)
    BY <2>1, <2>2, <2>4 DEF Await
  <2> QED BY <1>1, <2>3, <2>4
<1>2. CASE UNCHANGED vars
  BY <1>2 DEF vars, queues
<1>3. CASE Run \/ Loop
  BY <1>3 DEF Run, Loop, Tick, ScanThread, EndScan, Dispatch, EndDrain, queues
<1>4. CASE Management
  BY <1>4 DEF Management, Allocate, Enable, Reallocate, queues
<1>5. CASE LocalCall
  BY <1>5, <1>1 DEF LocalCall, SetPrio, SetPeriod, StartTimeout, CancelAwaitDeviceFlags, queues
<1>6. CASE Yields
  BY <1>6, <1>1 DEF Yields, NextCall, SuspendMe, DelayMe, AwaitDeviceFlags, queues
<1> QED BY <1>2, <1>3, <1>4, <1>5, <1>6 DEF Next

LEMMA ElsewhereStep ==
  ASSUME SemInv, [Next]_vars, UNCHANGED <<claimed, at>>
  PROVE  SemInv' /\ LockOwner' = LockOwner /\ sigQ'[sem] = sigQ[sem]
<1>1. Sound' /\ sigQ'[sem] = sigQ[sem]
  BY SoundStep, OtherSignals DEF SemInv
<1>2. Owners' = Owners
  BY <1>1 DEF Owners
<1> QED BY <1>1, <1>2 DEF SemInv, OneOwner, LockOwner

LEMMA ClaimStep ==
  ASSUME SemInv, NEW t \in Tids, Claim(t)
  PROVE  SemInv' /\ (Lock!Acquire(t) \/ Lock!Wait(t))
<1>1. /\ run = t /\ at[t] = "out" /\ sem \in Signals /\ t # NIL
      /\ Sound /\ claimed \in BOOLEAN /\ at \in [Tids -> {"out", "Claim", "owner"}]
  BY SemaphoreAssumption, TidFacts DEF Claim, Running, SemInv
<1>2. CASE claimed
  <2>1. /\ Await(sem) /\ claimed' = claimed
        /\ \A u \in Tids : at'[u] = IF u = t THEN "Claim" ELSE at[u]
        /\ at' \in [Tids -> {"out", "Claim", "owner"}]
    BY <1>1, <1>2 DEF Claim
  <2>2. Sound'
    BY <1>1, <2>1, AwaitKeeps
  <2>3. sigQ[sem] \in Seq(Tids) /\ sigQ'[sem] = Append(sigQ[sem], t)
    BY <1>1, <2>1 DEF Await, Sound, TypeOK
  <2>4. Range(sigQ'[sem]) = Range(sigQ[sem]) \cup {t} /\ Range(sigQ[sem]) \subseteq Tids
    BY <2>3, AppendRange, RangeOf
  <2>5. Owners' = Owners /\ t \notin Owners
    BY <1>1, <2>1, <2>4 DEF Owners
  <2>6. PICK o \in Tids : Owners = {o}
    BY <1>2 DEF SemInv, OneOwner
  <2>7. LockOwner = o /\ LockOwner' = o /\ o # t /\ o # NIL
    BY <1>2, <2>1, <2>5, <2>6, OwnerIs, TidFacts DEF LockOwner
  <2>8. SemInv'
    BY <1>1, <1>2, <2>1, <2>2, <2>4, <2>5, <2>6 DEF SemInv, OneOwner
  <2>9. Lock!Wait(t)
    BY <2>3, <2>7 DEF Lock!Wait, LockOwner
  <2> QED BY <2>8, <2>9
<1>3. CASE ~claimed
  <2>1. /\ claimed' = TRUE /\ UNCHANGED vars
        /\ \A u \in Tids : at'[u] = IF u = t THEN "owner" ELSE at[u]
        /\ at' \in [Tids -> {"out", "Claim", "owner"}]
    BY <1>1, <1>3 DEF Claim
  <2>2. Sound' /\ sigQ' = sigQ
    BY <1>1, <2>1, SoundStep DEF vars, queues
  <2>3. Owners = {}
    BY <1>3 DEF SemInv, OneOwner
  <2>4. Owners' = {t}
    BY <1>1, <2>1, <2>2, <2>3 DEF Owners
  <2>5. \A u \in Range(sigQ[sem]) : u \in Tids /\ u # t
    BY <1>1, InQueues DEF Sound, Apart
  <2>6. SemInv'
    BY <2>1, <2>2, <2>4, <2>5 DEF SemInv, OneOwner
  <2>7. LockOwner = NIL /\ LockOwner' = t
    BY <1>3, <2>1, <2>4 DEF LockOwner
  <2>8. Lock!Acquire(t)
    BY <2>2, <2>7 DEF Lock!Acquire, LockOwner
  <2> QED BY <2>6, <2>8
<1> QED BY <1>2, <1>3

(* A thread that runs in Claim has been woken: it owns the semaphore       *)
(* already.                                                                *)
LEMMA ClaimReturnsStep ==
  ASSUME SemInv, NEW t \in Tids, ClaimReturns(t)
  PROVE  SemInv' /\ LockOwner' = LockOwner /\ sigQ'[sem] = sigQ[sem]
<1>1. /\ run = t /\ at[t] = "Claim" /\ sem \in Signals /\ UNCHANGED vars /\ claimed' = claimed
      /\ Sound /\ claimed \in BOOLEAN /\ at \in [Tids -> {"out", "Claim", "owner"}]
      /\ \A u \in Tids : at'[u] = IF u = t THEN "owner" ELSE at[u]
      /\ at' \in [Tids -> {"out", "Claim", "owner"}]
  BY SemaphoreAssumption DEF ClaimReturns, Running, SemInv
<1>2. Sound' /\ sigQ' = sigQ
  BY <1>1, SoundStep DEF vars, queues
<1>3. \A u \in Range(sigQ[sem]) : u \in Tids /\ u # t
  BY <1>1, InQueues DEF Sound, Apart
<1>4. Owners' = Owners
  BY <1>1, <1>2, <1>3 DEF Owners
<1>5. SemInv'
  BY <1>1, <1>2, <1>3, <1>4 DEF SemInv, OneOwner
<1> QED BY <1>1, <1>2, <1>4, <1>5 DEF LockOwner

LEMMA ReleaseStep ==
  ASSUME SemInv, NEW t \in Tids, Release(t)
  PROVE  SemInv' /\ (Lock!HandOn \/ Lock!Free)
<1>1. /\ run = t /\ at[t] = "owner" /\ sem \in Signals /\ Sound
      /\ claimed \in BOOLEAN /\ at \in [Tids -> {"out", "Claim", "owner"}]
      /\ \A u \in Tids : at'[u] = IF u = t THEN "out" ELSE at[u]
      /\ at' \in [Tids -> {"out", "Claim", "owner"}]
  BY SemaphoreAssumption DEF Release, Running, SemInv
<1>2. claimed /\ Owners = {t}
  <2>1. t \in Owners
    BY <1>1 DEF Owners
  <2> QED BY <2>1 DEF SemInv, OneOwner
<1>3. LockOwner = t /\ t # NIL
  BY <1>2, OwnerIs, TidFacts
<1>4. \A u \in Range(sigQ[sem]) : u \in Tids /\ u # t /\ at[u] = "Claim"
  BY <1>1, InQueues DEF Sound, Apart, SemInv
<1>5. CASE Send(sem) /\ claimed' = claimed
  <2>1. Sound' /\ sigQ[sem] # <<>> /\ sigQ'[sem] = Tail(sigQ[sem]) /\ sigQ[sem] \in Seq(Tids)
        /\ IsInjective(sigQ[sem])
    <3>1. Sound'
      BY <1>1, <1>5, SendKeeps
    <3>2. sigQ[sem] \in Seq(Tids) /\ IsInjective(sigQ[sem]) /\ sigQ \in [Signals -> Seq(Tids)]
      BY <1>1 DEF Sound, TypeOK, Apart
    <3>3. sigQ[sem] # <<>> /\ sigQ'[sem] = Tail(sigQ[sem])
      BY <1>1, <1>5, <3>2 DEF Send
    <3> QED BY <3>1, <3>2, <3>3
  <2>2. PICK h : h = Head(sigQ[sem])
    OBVIOUS
  <2>3. /\ Range(sigQ[sem]) = {h} \cup Range(sigQ'[sem]) /\ h \notin Range(sigQ'[sem])
    BY <2>1, <2>2, HeadAndTail
  <2>4. h \in Tids /\ h # t /\ at[h] = "Claim"
    BY <1>4, <2>3
  <2>5. Owners' = {h}
    <3>1. h \in Owners'
      BY <1>1, <2>3, <2>4 DEF Owners
    <3>2. ASSUME NEW u \in Owners' PROVE u = h
      <4>1. u \in Tids /\ u # t /\ at[u] \in {"owner", "Claim"}
            /\ (at[u] = "Claim" => u \notin Range(sigQ'[sem]))
        BY <1>1 DEF Owners
      <4>2. u \notin Owners
        BY <1>2, <4>1
      <4> QED BY <2>3, <4>1, <4>2 DEF Owners
    <3> QED BY <3>1, <3>2
  <2>6. SemInv'
    BY <1>1, <1>2, <1>4, <1>5, <2>1, <2>3, <2>4, <2>5 DEF SemInv, OneOwner
  <2>7. LockOwner' = h
    BY <1>2, <1>5, <2>5 DEF LockOwner
  <2>8. Lock!HandOn
    BY <1>3, <2>1, <2>2, <2>7 DEF Lock!HandOn, LockOwner
  <2> QED BY <2>6, <2>8
<1>6. CASE sigQ[sem] = <<>> /\ claimed' = FALSE /\ UNCHANGED vars
  <2>1. Sound' /\ sigQ' = sigQ
    BY <1>1, <1>6, SoundStep DEF vars, queues
  <2>2. Owners' = {}
    <3> SUFFICES ASSUME NEW u \in Owners' PROVE FALSE
      OBVIOUS
    <3>1. u \in Owners /\ u # t
      BY <1>1, <2>1 DEF Owners
    <3> QED BY <1>2, <3>1
  <2>3. SemInv'
    BY <1>1, <1>4, <1>6, <2>1, <2>2 DEF SemInv, OneOwner
  <2>4. LockOwner' = NIL
    BY <1>6 DEF LockOwner
  <2>5. Lock!Free
    BY <1>3, <1>6, <2>1, <2>4 DEF Lock!Free, LockOwner
  <2> QED BY <2>3, <2>5
<1> QED BY <1>5, <1>6 DEF Release

LEMMA SemaphoreStep ==
  SemInv /\ [SemNext]_semVars => SemInv' /\ [Lock!Next]_(Lock!vars)
<1> SUFFICES ASSUME SemInv, [SemNext]_semVars PROVE SemInv' /\ [Lock!Next]_(Lock!vars)
  OBVIOUS
<1>1. CASE [Next]_vars /\ UNCHANGED <<claimed, at>>
  BY <1>1, ElsewhereStep DEF Lock!vars, LockOwner
<1>2. ASSUME NEW t \in Tids, Claim(t) \/ ClaimReturns(t) \/ Release(t)
      PROVE  SemInv' /\ [Lock!Next]_(Lock!vars)
  <2>1. CASE Claim(t)
    BY <2>1, ClaimStep DEF Lock!Next
  <2>2. CASE ClaimReturns(t)
    BY <2>2, ClaimReturnsStep DEF Lock!vars, LockOwner
  <2>3. CASE Release(t)
    BY <2>3, ReleaseStep DEF Lock!Next
  <2> QED BY <1>2, <2>1, <2>2, <2>3
<1>3. CASE UNCHANGED semVars
  BY <1>1, <1>3 DEF semVars
<1> QED BY <1>1, <1>2, <1>3 DEF SemNext, Elsewhere, Next

(* Whatever its threads do meanwhile, a semaphore of kernel-v1 has one     *)
(* owner exactly when it is claimed (Semaphores.Claim and Release): a      *)
(* thread that Release has woken owns it before it runs again.             *)
THEOREM SemaphoreHasOneOwner == SemSpec => []OneOwner
<1>1. SemSpec => []SemInv
  BY SemaphoreInit, SemaphoreStep, PTL DEF SemSpec
<1>2. SemInv => OneOwner
  BY DEF SemInv
<1> QED BY <1>1, <1>2, PTL

(* The semaphore of kernel-v1 is a first-come first-served lock: Release   *)
(* gives it directly to the thread that has waited longest in Claim.       *)
THEOREM SemaphoreV1IsFifoLock == SemSpec => ImplementsFifoLock
<1>1. SemSpec => []SemInv
  BY SemaphoreInit, SemaphoreStep, PTL DEF SemSpec
<1>2. SemSpec => Lock!Init
  BY SemaphoreInit DEF SemSpec
<1> QED
  BY <1>1, <1>2, SemaphoreStep, PTL DEF SemSpec, ImplementsFifoLock, Lock!Spec

(* The queues of kernel-v1 are sound also with threads that use semaphores *)
(* (Semaphores.Claim and Release call Signals.Await and Send).             *)
THEOREM SemaphoresKeepQueues == SemSpec => [](QueuesSound /\ ReadyForReason)
<1>1. SemSpec => []SemInv
  BY SemaphoreInit, SemaphoreStep, PTL DEF SemSpec
<1>2. SemInv => QueuesSound /\ ReadyForReason
  BY SoundMeans DEF SemInv
<1> QED BY <1>1, <1>2, PTL
=============================================================================
