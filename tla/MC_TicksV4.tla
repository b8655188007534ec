----------------------------- MODULE MC_TicksV4 -----------------------------
(***************************************************************************)
(* Instances of TicksV4 for TLC.                                           *)
(***************************************************************************)
EXTENDS TicksV4, TLC

CONSTANTS a, b, l, hi, lo

(* "below": two actors with ready queues of different priorities below the *)
(* tick, and one that lives in the loop; "above": two actors, and one of   *)
(* the queues is above the tick.                                           *)
TwoRdyQOf == a :> hi @@ b :> lo
BelowTick == TICK :> 3 @@ hi :> 2 @@ lo :> 1 @@ LOOP :> 0
AboveTick == hi :> 3 @@ TICK :> 2 @@ lo :> 1 @@ LOOP :> 0
=============================================================================
