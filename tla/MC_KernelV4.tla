---------------------------- MODULE MC_KernelV4 -----------------------------
(***************************************************************************)
(* Instances of KernelV4 for TLC: programs with a device driver actor d    *)
(* (ready queue hi, event queue ev, fed by the device handler dev) and     *)
(* application actors u and v (ready queue lo; u is fed by the context     *)
(* main through wk and puts messages to another queue from its run).       *)
(***************************************************************************)
EXTENDS KernelV4, TLC

CONSTANTS d, u, v, hi, lo, dev, main, ev, wk, out, m1, m2, m3

MCRdyQs == {hi, lo}
MCProducers == {dev, main}
TwoMsgs == <<m1, m2>>
ThreeMsgs == <<m1, m2, m3>>
MCFeeds == dev :> ev @@ main :> wk

(* "mixed": u, at a low priority, puts to the queue of the driver, like a  *)
(* PutString does, and main is thread-mode code below all interrupts.      *)
MixedActors == {d, u}
MixedEvQs == {ev, wk}
MixedPrio == hi :> 3 @@ dev :> 2 @@ lo :> 1 @@ main :> 0
MixedRdyQOf == d :> hi @@ u :> lo
MixedServes == d :> ev @@ u :> wk
MixedForwards == d :> {} @@ u :> {ev}

(* "layered": a device layer and an application layer; within each layer   *)
(* all contexts have one priority, and no event queue crosses the layers.  *)
LayeredActors == {d, u, v}
LayeredEvQs == {ev, wk, out}
LayeredPrio == hi :> 3 @@ dev :> 3 @@ lo :> 1 @@ main :> 1
LayeredRdyQOf == d :> hi @@ u :> lo @@ v :> lo
LayeredServes == d :> ev @@ u :> wk @@ v :> out
LayeredForwards == d :> {} @@ u :> {out} @@ v :> {}
=============================================================================
