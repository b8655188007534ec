------------------------------ MODULE FifoLock ------------------------------
(***************************************************************************)
(* What the semaphores of both kernels promise: exclusive access, granted  *)
(* in the order of the claims, handed directly from owner to the next.     *)
(***************************************************************************)
EXTENDS Sequences

CONSTANTS Threads, NIL

VARIABLES
  owner,  \* who has access, NIL for nobody
  waiters \* who has claimed and waits, first come first

vars == <<owner, waiters>>

Init == owner = NIL /\ waiters = <<>>

Acquire(t) ==
  /\ owner = NIL
  /\ owner' = t
  /\ UNCHANGED waiters

Wait(t) ==
  /\ owner \notin {NIL, t}
  /\ waiters' = Append(waiters, t)
  /\ UNCHANGED owner

HandOn ==
  /\ owner # NIL
  /\ waiters # <<>>
  /\ owner' = Head(waiters)
  /\ waiters' = Tail(waiters)

Free ==
  /\ owner # NIL
  /\ waiters = <<>>
  /\ owner' = NIL
  /\ UNCHANGED waiters

Next == HandOn \/ Free \/ \E t \in Threads : Acquire(t) \/ Wait(t)

Spec == Init /\ [][Next]_vars
=============================================================================
