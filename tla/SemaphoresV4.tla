----------------------------- MODULE SemaphoresV4 -----------------------------
(***************************************************************************)
(* The semaphores of kernel-v4 (kernel-v4/Semaphores.mod): an event queue  *)
(* with one message, which whoever owns the semaphore has got.  Claim is   *)
(* GetMsg and the last call of a run, Release is PutMsg; each is two steps *)
(* between which a more urgent actor may run.                              *)
(***************************************************************************)
EXTENDS Integers, Sequences, Functions

CONSTANTS
  SemActors, \* the actors that use the semaphore
  Urgencies, \* functions from actors to the priorities of their ready queues
  Nobody

ASSUME SemaphoreV4Assumption ==
  /\ Nobody \notin SemActors
  /\ \A u \in Urgencies : u \in [SemActors -> Nat]

VARIABLES
  urgency, \* chosen at the start
  place,   \* of each actor: "out", "claim" (between the halves of Claim), "waiting",
           \* "ready", "owner", "release" (between the halves of Release)
  holder,  \* who has got s.msg; Nobody when it is in the message queue of s.evQ
  claims,  \* the actor queue of s.evQ
  heir     \* whom Release has found waiting

semV4Vars == <<urgency, place, holder, claims, heir>>

\* Init has put the message
SemV4Init ==
  /\ urgency \in Urgencies
  /\ place = [a \in SemActors |-> "out"]
  /\ holder = Nobody
  /\ claims = <<>>
  /\ heir = Nobody

-----------------------------------------------------------------------------
Busy == {a \in SemActors : place[a] \in {"claim", "release"}}

\* The actor runs, unless one as urgent or more is in the middle of a call
SemMay(a) == \A b \in Busy \ {a} : urgency[b] < urgency[a]

SemAt(a, spot) == place[a] = spot /\ SemMay(a)
MoveTo(a, spot) == place' = [place EXCEPT ![a] = spot]

\* Mutant of BeginClaim: the message is read, not taken
BeginClaim_Keeps(a) ==
  /\ SemAt(a, "out")
  /\ IF holder = Nobody THEN MoveTo(a, "ready") ELSE MoveTo(a, "claim")
  /\ UNCHANGED <<urgency, holder, claims, heir>>

\* Claim: GetMsg takes the message if it is there
BeginClaim(a) ==
  /\ SemAt(a, "out")
  /\ MoveTo(a, "claim")
  /\ holder' = IF holder = Nobody THEN a ELSE holder
  /\ UNCHANGED <<urgency, claims, heir>>

\* Mutant of EndClaim: who waits is put at the head of the queue
EndClaim_AtHead(a) ==
  /\ SemAt(a, "claim")
  /\ \/ holder = a /\ MoveTo(a, "ready") /\ UNCHANGED claims
     \/ holder # a /\ MoveTo(a, "waiting") /\ claims' = <<a>> \o claims
  /\ UNCHANGED <<urgency, holder, heir>>

\* Then the actor is ready, or else it waits
EndClaim(a) ==
  /\ SemAt(a, "claim")
  /\ \/ holder = a /\ MoveTo(a, "ready") /\ UNCHANGED claims
     \/ holder # a /\ MoveTo(a, "waiting") /\ claims' = Append(claims, a)
  /\ UNCHANGED <<urgency, holder, heir>>

\* It runs as the owner, perhaps several times
RunOwner(a) ==
  /\ SemAt(a, "ready")
  /\ MoveTo(a, "owner")
  /\ UNCHANGED <<urgency, holder, claims, heir>>

\* Release: PutMsg looks for an actor that waits
BeginRelease(a) ==
  /\ SemAt(a, "owner")
  /\ MoveTo(a, "release")
  /\ \/ claims = <<>> /\ UNCHANGED <<claims, heir>>
     \/ claims # <<>> /\ heir' = Head(claims) /\ claims' = Tail(claims)
  /\ UNCHANGED <<urgency, holder>>

\* And gives it the message, or puts that into the queue
EndRelease(a) ==
  /\ SemAt(a, "release")
  /\ place' = [b \in SemActors |->
                 IF b = a THEN "out" ELSE IF b = heir THEN "ready" ELSE place[b]]
  /\ holder' = heir
  /\ heir' = Nobody
  /\ UNCHANGED <<urgency, claims>>

SemV4Step(a) == EndClaim(a) \/ RunOwner(a) \/ BeginRelease(a) \/ EndRelease(a)
SemV4Next == \E a \in SemActors : BeginClaim(a) \/ SemV4Step(a)
SemV4Spec == SemV4Init /\ [][SemV4Next]_semV4Vars

-----------------------------------------------------------------------------
WaitersV4 == IF heir = Nobody THEN claims ELSE <<heir>> \o claims

LockV4 == INSTANCE FifoLock WITH
  Threads <- SemActors, NIL <- Nobody, owner <- holder, waiters <- WaitersV4

(* Whatever the priorities, only the one that has got the message is on    *)
(* the way to owning the semaphore or owns it, and who waits is in the     *)
(* queue once.                                                             *)
OneHolder ==
  /\ \A a \in SemActors : place[a] \in {"ready", "owner", "release"} => holder = a
  /\ IsInjective(WaitersV4)
  /\ Range(WaitersV4) = {a \in SemActors : place[a] = "waiting"}

(* With all actors at one priority, access is granted in the order of the  *)
(* claims, and nobody waits for a semaphore that is free.                  *)
OneLevel == \A a, b \in SemActors : urgency[a] = urgency[b]
ActsAsLock == LockV4!Init /\ [][OneLevel => LockV4!Next]_<<holder, WaitersV4>>
=============================================================================
