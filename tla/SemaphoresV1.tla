---------------------------- MODULE SemaphoresV1 ----------------------------
(***************************************************************************)
(* The semaphores of kernel-v1 (kernel-v1/Semaphores.mod), made from a     *)
(* signal and the flag claimed, on top of the scheduler: threads that      *)
(* claim a semaphore, transfer to others while they own it, and release.   *)
(***************************************************************************)
EXTENDS KernelV1

CONSTANT sem \* the signal of the semaphore

\* Programs wait for the signal of the semaphore by Claim only
ASSUME SemaphoreAssumption ==
  /\ sem \in Signals
  /\ \A p \in Programs : sem \notin p.signals

VARIABLES
  claimed, \* s.claimed
  at       \* where each thread is: "out", in "Claim", or "owner"

semVars == <<vars, claimed, at>>

SemInit == Init /\ claimed = FALSE /\ at = [t \in Tids |-> "out"]

Running(t, place) == run = t /\ at[t] = place

\* Mutant of Claim: the flag is not tested
Claim_Untested(t) ==
  /\ Calling("Claim")
  /\ Running(t, "out")
  /\ claimed' = TRUE
  /\ at' = [at EXCEPT ![t] = "owner"]
  /\ UNCHANGED vars

Claim(t) ==
  /\ Calling("Claim")
  /\ Running(t, "out")
  /\ \/ claimed /\ Await(sem) /\ at' = [at EXCEPT ![t] = "Claim"] /\ UNCHANGED claimed
     \/ /\ ~claimed
        /\ claimed' = TRUE
        /\ at' = [at EXCEPT ![t] = "owner"]
        /\ UNCHANGED vars

\* The thread runs again after Await, and returns from Claim as the owner
ClaimReturns(t) ==
  /\ Running(t, "Claim")
  /\ at' = [at EXCEPT ![t] = "owner"]
  /\ UNCHANGED <<vars, claimed>>

\* Mutant of Release: waiting threads are not looked for
Release_NoSend(t) ==
  /\ Running(t, "owner")
  /\ at' = [at EXCEPT ![t] = "out"]
  /\ claimed' = FALSE
  /\ UNCHANGED vars

Release(t) ==
  /\ Running(t, "owner")
  /\ at' = [at EXCEPT ![t] = "out"]
  /\ \/ Send(sem) /\ UNCHANGED claimed
     \/ /\ sigQ[sem] = <<>>
        /\ claimed' = FALSE
        /\ UNCHANGED vars

\* A thread in Claim makes no other call; it may make any while it owns the semaphore
Elsewhere == (run # NIL => at[run] # "Claim") /\ UNCHANGED <<claimed, at>>

SemNext ==
  \/ Run /\ Elsewhere
  \/ Loop /\ Elsewhere
  \/ Management /\ Elsewhere
  \/ LocalCall /\ Elsewhere
  \/ Yields /\ Elsewhere
  \/ \E t \in Tids : Claim(t) \/ ClaimReturns(t) \/ Release(t)

SemSpec == SemInit /\ [][SemNext]_semVars

(* The scheduler goes on, threads transfer back, and a thread that owns    *)
(* the semaphore and runs again and again releases it some time.           *)
SemFairness ==
  /\ WF_semVars(Run /\ Elsewhere)
  /\ WF_semVars(Loop /\ Elsewhere)
  /\ WF_semVars(Yields /\ Elsewhere)
  /\ \A t \in Tids : WF_semVars(ClaimReturns(t)) /\ SF_semVars(Release(t))

FairSemSpec == SemSpec /\ SemFairness

-----------------------------------------------------------------------------
Owners == {t \in Tids : at[t] = "owner" \/ (at[t] = "Claim" /\ t \notin Range(sigQ[sem]))}

(* One thread owns the semaphore exactly when it is claimed, counting one  *)
(* that has been woken and has not run yet; so nobody overtakes it, and    *)
(* the assertion of Release that the semaphore is claimed holds.           *)
OneOwner == IF claimed THEN \E t \in Tids : Owners = {t} ELSE Owners = {}

Lock == INSTANCE FifoLock WITH
  Threads <- Tids,
  owner <- IF claimed THEN CHOOSE t \in Owners : TRUE ELSE NIL,
  waiters <- sigQ[sem]

(* Access is granted in the order of the claims, whatever the priorities.  *)
ImplementsFifoLock == Lock!Spec

(* A thread that claims the semaphore gets it.                             *)
ClaimSucceeds == \A t \in Tids : at[t] = "Claim" ~> at[t] = "owner"
=============================================================================
