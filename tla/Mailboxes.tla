----------------------------- MODULE Mailboxes ------------------------------
(***************************************************************************)
(* What the event queues of kernel-v4 promise to actors whose peers all    *)
(* run at one priority: PutMsg and GetMsg look atomic.  A message goes to  *)
(* the actor that waits longest, or waits itself in first-in first-out     *)
(* order; an actor and a message never wait for each other.                *)
(***************************************************************************)
EXTENDS Integers, Sequences, Functions

CONSTANTS Actors, Msgs, EvQs, Serves, NIL

VARIABLES
  box,     \* the messages no actor has got yet, of each event queue
  waiting, \* the actors waiting for a message, of each event queue
  inbox    \* the message given to an actor that has yet to run

vars == <<box, waiting, inbox>>

Init ==
  /\ box = [e \in EvQs |-> <<>>]
  /\ waiting = [e \in EvQs |-> <<>>]
  /\ inbox = [a \in Actors |-> NIL]

Give(m, a) == inbox' = [inbox EXCEPT ![a] = m]

Put(e, m) ==
  \/ /\ waiting[e] # <<>>
     /\ Give(m, Head(waiting[e]))
     /\ waiting' = [waiting EXCEPT ![e] = Tail(@)]
     /\ UNCHANGED box
  \/ /\ waiting[e] = <<>>
     /\ box' = [box EXCEPT ![e] = Append(@, m)]
     /\ UNCHANGED <<waiting, inbox>>

Get(a) ==
  LET e == Serves[a] IN
    /\ inbox[a] = NIL
    /\ a \notin Range(waiting[e])
    /\ \/ /\ box[e] # <<>>
          /\ Give(Head(box[e]), a)
          /\ box' = [box EXCEPT ![e] = Tail(@)]
          /\ UNCHANGED waiting
       \/ /\ box[e] = <<>>
          /\ waiting' = [waiting EXCEPT ![e] = Append(@, a)]
          /\ UNCHANGED <<box, inbox>>

\* The actor runs and takes its message
Use(a) ==
  /\ inbox[a] # NIL
  /\ inbox' = [inbox EXCEPT ![a] = NIL]
  /\ UNCHANGED <<box, waiting>>

Next ==
  \/ \E e \in EvQs, m \in Msgs : Put(e, m)
  \/ \E a \in Actors : Get(a) \/ Use(a)

Spec == Init /\ [][Next]_vars
=============================================================================
