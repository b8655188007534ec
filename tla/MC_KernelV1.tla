---------------------------- MODULE MC_KernelV1 -----------------------------
(***************************************************************************)
(* The kernel with three programs, for TLC.                                *)
(***************************************************************************)
EXTENDS SemaphoresV1

CONSTANTS s1, s2

\* Two threads that use periods, delays, timeouts and device flags
TimingProgram ==
  [asks |-> 2, prios |-> {0, 1}, periods |-> {0, 1, 2}, delays |-> {0, 3}, signals |-> {},
   calls |-> [t \in Tids |->
     CASE t = 0 -> {"Next", "DelayMe", "StartTimeout", "AwaitDeviceFlags",
                    "CancelAwaitDeviceFlags", "SetPeriod"}
       [] t = 1 -> {"Next", "SuspendMe", "SetPrio", "SetPeriod", "Enable"}
       [] t = 2 -> {}]]

\* Threads of changing priorities that wait for signals, and are suspended,
\* enabled and reallocated by others; one more is asked for than there can be
SyncProgram ==
  [asks |-> 4, prios |-> {0, 1, 2}, periods |-> {0}, delays |-> {3}, signals |-> {s1, s2},
   calls |-> [t \in Tids |->
     CASE t = 0 -> {"Next", "Send", "Enable", "Reallocate", "SetPrio", "Allocate"}
       [] t = 1 -> {"Next", "Await", "SetPrio", "Send"}
       [] t = 2 -> {"Await", "SuspendMe", "DelayMe", "Send", "SetPrio"}]]

\* Three threads that compete for one semaphore, and change their priorities
\* or delay themselves meanwhile
SemaphoreProgram ==
  [asks |-> 3, prios |-> {0, 1, 2}, periods |-> {0}, delays |-> {3}, signals |-> {},
   calls |-> [t \in Tids |->
     {"Claim", "Release", "Next"} \cup
     CASE t = 0 -> {"SetPrio"}
       [] t = 1 -> {"DelayMe"}
       [] t = 2 -> {}]]

mcPrograms == {TimingProgram, SyncProgram, SemaphoreProgram}
=============================================================================
