-------------------------- MODULE KernelV4_proofs ---------------------------
(***************************************************************************)
(* Proofs about KernelV4, for every set of actors, queues, messages and    *)
(* producers, every assignment of priorities, and every load.              *)
(***************************************************************************)
EXTENDS KernelV4, QueueLemmas, TLAPS

(* A queue element is one of the queue's set, also at the head.            *)
LEMMA HeadTail ==
  ASSUME NEW S, NEW q \in Seq(S), q # <<>>
  PROVE  Head(q) \in S /\ Tail(q) \in Seq(S)
OBVIOUS

(* Adding at either end keeps a sequence over the set.                     *)
LEMMA AddToSeq ==
  ASSUME NEW S, NEW q \in Seq(S), NEW x \in S
  PROVE  <<x>> \o q \in Seq(S) /\ Append(q, x) \in Seq(S)
OBVIOUS

(* What Append adds is the new element only.                               *)
LEMMA AppendElements ==
  ASSUME NEW S, NEW q \in Seq(S), NEW x, NEW i \in DOMAIN Append(q, x)
  PROVE  \/ i \in DOMAIN q /\ Append(q, x)[i] = q[i]
         \/ Append(q, x)[i] = x
OBVIOUS

LEMMA TailElements ==
  ASSUME NEW S, NEW q \in Seq(S), q # <<>>, NEW i \in DOMAIN Tail(q)
  PROVE  i + 1 \in DOMAIN q /\ Tail(q)[i] = q[i + 1]
OBVIOUS

LEMMA NilFacts ==
  NIL \notin Actors /\ NIL \notin Msgs /\ NIL \notin EvQs
BY NilAssumption

\* What every context may rely on when it runs
Typed == TypeOK /\ ActorsAtHome /\ CallsAreUsers

LEMMA TypedInit == Init => Typed
<1> SUFFICES ASSUME Init PROVE Typed
  OBVIOUS
<1>1. TypeOK
  BY ConfigAssumption, PoolAssumption DEF Init, TypeOK, Contexts
<1>2. ActorsAtHome
  BY NilFacts, ConfigAssumption DEF Init, ActorsAtHome, QueuedAtHome, RunAtHome, HasActor, Contexts
<1>3. CallsAreUsers
  BY DEF Init, CallsAreUsers, InCall
<1>4. QED
  BY <1>1, <1>2, <1>3 DEF Typed

-----------------------------------------------------------------------------
LEMMA TypeStep == Typed /\ [Next]_vars => TypeOK'
<1> SUFFICES ASSUME Typed, [Next]_vars PROVE TypeOK'
  OBVIOUS
<1> USE NilFacts, ConfigAssumption DEF Typed, TypeOK, Contexts
<1>1. ASSUME NEW a \in Actors, RunAct(a) PROVE TypeOK'
  BY <1>1 DEF RunAct, PutToRdyQ
<1>2. ASSUME NEW r \in RdyQs, TakeInterrupt(r) PROVE TypeOK'
  BY <1>2 DEF TakeInterrupt, Goto
<1>3. ASSUME NEW r \in RdyQs, FetchActor(r) PROVE TypeOK'
  <2>1. Head(rdyQ[r]) \in Actors /\ Tail(rdyQ[r]) \in Seq(Actors)
    BY <1>3, HeadTail DEF FetchActor
  <2>2. QED
    BY <1>3, <2>1 DEF FetchActor, Goto
<1>4. ASSUME NEW r \in RdyQs, LeaveHandler(r) PROVE TypeOK'
  BY <1>4 DEF LeaveHandler, Goto
<1>5. ASSUME NEW r \in RdyQs, Recycle(r) PROVE TypeOK'
  <2>1. held[r] # NIL => <<held[r]>> \o pool \in Seq(Msgs)
    BY AddToSeq
  <2>2. pool' \in Seq(Msgs)
    <3>1. CASE held[r] # NIL /\ PutToMsgPool(held[r])
      BY <2>1, <3>1 DEF PutToMsgPool
    <3>2. CASE UNCHANGED pool
      BY <3>2
    <3>3. QED
      BY <1>5, <3>1, <3>2 DEF Recycle
  <2>3. QED
    BY <1>5, <2>2 DEF Recycle, Goto
<1>6. ASSUME NEW r \in RdyQs, TakeMsg(r) PROVE TypeOK'
  <2>1. PICK e \in EvQs :
          /\ evq' = [evq EXCEPT ![r] = e]
          /\ \/ msgQ[e] = <<>> /\ UNCHANGED <<msgQ, arg>>
             \/ /\ msgQ[e] # <<>>
                /\ msgQ' = [msgQ EXCEPT ![e] = Tail(@)]
                /\ arg' = [arg EXCEPT ![r] = Head(msgQ[e])]
    BY <1>6 DEF TakeMsg
  <2>2. msgQ[e] # <<>> => Head(msgQ[e]) \in Msgs /\ Tail(msgQ[e]) \in Seq(Msgs)
    BY HeadTail
  <2>3. msgQ' \in [EvQs -> Seq(Msgs)] /\ arg' \in [Contexts -> Msgs \cup {NIL}]
    <3>1. CASE msgQ[e] = <<>>
      BY <2>1, <3>1
    <3>2. CASE msgQ[e] # <<>>
      <4>1. /\ msgQ' = [msgQ EXCEPT ![e] = Tail(@)]
            /\ arg' = [arg EXCEPT ![r] = Head(msgQ[e])]
        BY <2>1, <3>2
      <4>2. QED
        BY <4>1, <2>2, <3>2
    <3>3. QED
      BY <3>1, <3>2
  <2>4. evq' \in [Contexts -> EvQs \cup {NIL}]
    BY <2>1
  <2>5. QED
    BY <1>6, <2>3, <2>4 DEF TakeMsg, Goto
<1>7. ASSUME NEW r \in RdyQs, FinishGet(r) PROVE TypeOK'
  <2>1. cur[r] \in Actors /\ evq[r] \in EvQs
    BY <1>7 DEF FinishGet, At, ActorsAtHome, HasActor, CallsAreUsers, InCall
  <2>2. /\ rdyQ' \in [RdyQs -> Seq(Actors)]
        /\ actQ' \in [EvQs -> Seq(Actors)]
        /\ actMsg' \in [Actors -> Msgs \cup {NIL}]
        /\ pending' \subseteq RdyQs
    <3>1. CASE arg[r] # NIL /\ HandOver(cur[r], arg[r]) /\ UNCHANGED actQ
      BY <2>1, <3>1, AddToSeq DEF HandOver, PutToRdyQ
    <3>2. CASE PutToActQ(evq[r], cur[r]) /\ UNCHANGED <<actMsg, rdyQ, pending>>
      BY <2>1, <3>2, AddToSeq DEF PutToActQ
    <3>3. QED
      BY <1>7, <3>1, <3>2 DEF FinishGet
  <2>3. QED
    BY <1>7, <2>2 DEF FinishGet, Goto
<1>8. ASSUME NEW r \in RdyQs, NEW e \in EvQs, BeginForward(r, e) PROVE TypeOK'
  <2>1. pool # <<>> /\ Head(pool) \in Msgs /\ Tail(pool) \in Seq(Msgs)
    BY <1>8, HeadTail DEF BeginForward, GetFromMsgPool
  <2>2. QED
    BY <1>8, <2>1, SMTT(30) DEF BeginForward, GetFromMsgPool, Goto
<1>9. ASSUME NEW p \in Producers, BeginProduce(p) PROVE TypeOK'
  <2>1. pool # <<>> => Head(pool) \in Msgs /\ Tail(pool) \in Seq(Msgs)
    BY HeadTail
  <2>2. load' \in [Producers -> 0..MaxLoad]
    BY <1>9 DEF BeginProduce
  <2>3. pool' \in Seq(Msgs) /\ arg' \in [Contexts -> Msgs \cup {NIL}]
    <3>1. CASE UNCHANGED <<pool, arg, evq, pc>>
      BY <3>1
    <3>2. CASE \E m \in Msgs : GetFromMsgPool(m) /\ arg' = [arg EXCEPT ![p] = m]
      BY <2>1, <3>2 DEF GetFromMsgPool
    <3>3. QED
      BY <1>9, <3>1, <3>2 DEF BeginProduce
  <2>4. evq' \in [Contexts -> EvQs \cup {NIL}]
    BY <1>9 DEF BeginProduce
  <2>5. pc' \in [Contexts ->
                  {"off", "fetch", "run", "put", "hand", "get", "recycle"}]
    BY <1>9 DEF BeginProduce, Goto
  <2>6. QED
    BY <1>9, <2>2, <2>3, <2>4, <2>5 DEF BeginProduce
<1>10. ASSUME NEW c \in Contexts, TakeWaiting(c) PROVE TypeOK'
  <2>1. evq[c] \in EvQs
    BY <1>10 DEF TakeWaiting, At, CallsAreUsers, InCall
  <2>2. actQ[evq[c]] # <<>> =>
          Head(actQ[evq[c]]) \in Actors /\ Tail(actQ[evq[c]]) \in Seq(Actors)
    BY <2>1, HeadTail
  <2>3. actQ' \in [EvQs -> Seq(Actors)] /\ got' \in [Contexts -> Actors \cup {NIL}]
    <3>1. CASE UNCHANGED <<actQ, got>>
      BY <3>1
    <3>2. CASE /\ actQ[evq[c]] # <<>>
               /\ actQ' = [actQ EXCEPT ![evq[c]] = Tail(@)]
               /\ got' = [got EXCEPT ![c] = Head(actQ[evq[c]])]
      BY <2>1, <2>2, <3>2
    <3>3. QED
      BY <1>10, <3>1, <3>2 DEF TakeWaiting
  <2>4. QED
    BY <1>10, <2>3 DEF TakeWaiting, Goto
<1>11. ASSUME NEW c \in Contexts, FinishPut(c) PROVE TypeOK'
  <2>1. evq[c] \in EvQs /\ arg[c] \in Msgs
    BY <1>11 DEF FinishPut, At, CallsAreUsers, InCall
  <2>2. /\ rdyQ' \in [RdyQs -> Seq(Actors)]
        /\ msgQ' \in [EvQs -> Seq(Msgs)]
        /\ actMsg' \in [Actors -> Msgs \cup {NIL}]
        /\ pending' \subseteq RdyQs
        /\ pool' \in Seq(Msgs)
       
    <3>1. CASE got[c] # NIL /\ HandOver(got[c], arg[c]) /\ UNCHANGED <<msgQ, pool>>
      BY <2>1, <3>1, AddToSeq DEF HandOver, PutToRdyQ
    <3>2. CASE Drop(c) /\ UNCHANGED <<actMsg, rdyQ, pending>>
      BY <2>1, <3>2, AddToSeq DEF Drop, PutToMsgPool
    <3>3. CASE Deposit(c) /\ UNCHANGED <<actMsg, rdyQ, pending>>
      BY <2>1, <3>3, AddToSeq DEF Deposit, PutToMsgQ
    <3>4. QED
      BY <1>11, <3>1, <3>2, <3>3 DEF FinishPut
  <2>3. /\ pc' \in [Contexts ->
                    {"off", "fetch", "run", "put", "hand", "get", "recycle"}]
        /\ evq' \in [Contexts -> EvQs \cup {NIL}]
        /\ arg' \in [Contexts -> Msgs \cup {NIL}]
        /\ got' \in [Contexts -> Actors \cup {NIL}]
    BY <1>11 DEF FinishPut, PutReturn, Goto
  <2>4. QED
    BY <1>11, <2>2, <2>3 DEF FinishPut
<1>12. CASE UNCHANGED vars
  BY <1>12 DEF vars
<1>13. QED
  BY <1>1, <1>2, <1>3, <1>4, <1>5, <1>6, <1>7, <1>8, <1>9, <1>10, <1>11, <1>12
  DEF Next, RunQueueStep, PutStep

-----------------------------------------------------------------------------
LEMMA PutAtHome ==
  ASSUME Typed, NEW a \in Actors, PutToRdyQ(RdyQOf[a], a)
  PROVE  QueuedAtHome'
<1> DEFINE home == RdyQOf[a]
<1>1. home \in RdyQs
  BY ConfigAssumption
<1>2. rdyQ \in [RdyQs -> Seq(Actors)] /\ rdyQ' = [rdyQ EXCEPT ![home] = Append(@, a)]
  BY DEF PutToRdyQ, Typed, TypeOK
<1>3. ASSUME NEW r \in RdyQs, NEW i \in DOMAIN rdyQ'[r]
      PROVE  RdyQOf[rdyQ'[r][i]] = r
  <2>1. CASE r = home
    <3>1. rdyQ'[r] = Append(rdyQ[r], a) /\ rdyQ[r] \in Seq(Actors)
      BY <1>1, <1>2, <2>1
    <3>2. QED
      BY <1>3, <2>1, <3>1, AppendElements DEF Typed, ActorsAtHome, QueuedAtHome
  <2>2. CASE r # home
    BY <1>1, <1>2, <1>3, <2>2 DEF Typed, ActorsAtHome, QueuedAtHome
  <2>3. QED
    BY <2>1, <2>2
<1>4. QED
  BY <1>3 DEF QueuedAtHome

LEMMA HomeStep == Typed /\ [Next]_vars => ActorsAtHome'
<1> SUFFICES ASSUME Typed, [Next]_vars PROVE ActorsAtHome'
  OBVIOUS
<1> USE NilFacts, ConfigAssumption DEF Typed, TypeOK, Contexts
<1>0. QueuedAtHome /\ RunAtHome /\ HasActor
  BY DEF ActorsAtHome
<1>1. ASSUME NEW a \in Actors, RunAct(a) PROVE ActorsAtHome'
  <2>1. QueuedAtHome'
    BY <1>1, PutAtHome DEF RunAct
  <2>2. RunAtHome' /\ HasActor'
    BY <1>0, <1>1 DEF RunAct, RunAtHome, HasActor
  <2>3. QED
    BY <2>1, <2>2 DEF ActorsAtHome
<1>2. ASSUME NEW r \in RdyQs, TakeInterrupt(r) PROVE ActorsAtHome'
  BY <1>0, <1>2 DEF TakeInterrupt, Goto, ActorsAtHome, QueuedAtHome, RunAtHome, HasActor
<1>3. ASSUME NEW r \in RdyQs, FetchActor(r) PROVE ActorsAtHome'
  <2> DEFINE a == Head(rdyQ[r])
  <2>1. rdyQ[r] \in Seq(Actors) /\ rdyQ[r] # <<>>
    BY <1>3 DEF FetchActor
  <2>2. a \in Actors /\ RdyQOf[a] = r
    BY <1>0, <2>1 DEF QueuedAtHome
  <2>3. \A i \in DOMAIN Tail(rdyQ[r]) : RdyQOf[Tail(rdyQ[r])[i]] = r
    BY <1>0, <2>1, TailElements DEF QueuedAtHome
  <2>4. QueuedAtHome'
    BY <1>0, <1>3, <2>3 DEF FetchActor, QueuedAtHome
  <2>5. RunAtHome'
    BY <1>0, <1>3, <2>2 DEF FetchActor, RunAtHome
  <2>6. HasActor'
    BY <1>0, <1>3, <2>2, SMTT(30) DEF FetchActor, Goto, HasActor
  <2>7. QED
    BY <2>4, <2>5, <2>6 DEF ActorsAtHome
<1>4. ASSUME NEW r \in RdyQs, LeaveHandler(r) PROVE ActorsAtHome'
  BY <1>0, <1>4 DEF LeaveHandler, Goto, ActorsAtHome, QueuedAtHome, RunAtHome, HasActor
<1>5. ASSUME NEW r \in RdyQs, Recycle(r) PROVE ActorsAtHome'
  BY <1>0, <1>5 DEF Recycle, Goto, ActorsAtHome, QueuedAtHome, RunAtHome, HasActor
<1>6. ASSUME NEW r \in RdyQs, TakeMsg(r) PROVE ActorsAtHome'
  <2>1. pc[r] = "run" /\ pc' = [pc EXCEPT ![r] = "get"]
    BY <1>6 DEF TakeMsg, At, Goto
  <2>2. rdyQ' = rdyQ /\ cur' = cur /\ todo' = todo
    BY <1>6 DEF TakeMsg
  <2>3. QED
    BY <1>0, <2>1, <2>2 DEF ActorsAtHome, QueuedAtHome, RunAtHome, HasActor
<1>7. ASSUME NEW r \in RdyQs, FinishGet(r) PROVE ActorsAtHome'
  <2>1. cur[r] \in Actors /\ RdyQOf[cur[r]] = r
    BY <1>0, <1>7 DEF FinishGet, At, RunAtHome, HasActor
  <2>2. QueuedAtHome'
    <3>1. CASE HandOver(cur[r], arg[r])
      BY <2>1, <3>1, PutAtHome DEF HandOver
    <3>2. CASE UNCHANGED rdyQ
      BY <1>0, <3>2 DEF QueuedAtHome
    <3>3. QED
      BY <1>7, <3>1, <3>2 DEF FinishGet
  <2>3. RunAtHome' /\ HasActor'
    BY <1>0, <1>7 DEF FinishGet, Goto, RunAtHome, HasActor
  <2>4. QED
    BY <2>2, <2>3 DEF ActorsAtHome
<1>8. ASSUME NEW r \in RdyQs, NEW e \in EvQs, BeginForward(r, e) PROVE ActorsAtHome'
  <2>1. pc[r] = "run" /\ pc' = [pc EXCEPT ![r] = "put"]
    BY <1>8 DEF BeginForward, At, Goto
  <2>2. rdyQ' = rdyQ /\ cur' = cur /\ todo' = [todo EXCEPT ![r] = @ \ {e}]
    BY <1>8 DEF BeginForward
  <2>3. QED
    BY <1>0, <2>1, <2>2 DEF ActorsAtHome, QueuedAtHome, RunAtHome, HasActor
<1>9. ASSUME NEW p \in Producers, BeginProduce(p) PROVE ActorsAtHome'
  <2>1. pc' = pc \/ pc' = [pc EXCEPT ![p] = "put"]
    BY <1>9 DEF BeginProduce, Goto
  <2>2. rdyQ' = rdyQ /\ cur' = cur /\ todo' = todo
    BY <1>9 DEF BeginProduce
  <2>3. HasActor'
    <3>1. CASE pc' = pc
      BY <1>0, <2>2, <3>1 DEF HasActor
    <3>2. CASE pc' = [pc EXCEPT ![p] = "put"]
      BY <1>0, <2>2, <3>2 DEF HasActor
    <3>3. QED
      BY <2>1, <3>1, <3>2
  <2>4. QED
    BY <1>0, <2>2, <2>3 DEF ActorsAtHome, QueuedAtHome, RunAtHome
<1>10. ASSUME NEW c \in Contexts, TakeWaiting(c) PROVE ActorsAtHome'
  <2>1. pc[c] = "put" /\ pc' = [pc EXCEPT ![c] = "hand"]
    BY <1>10 DEF TakeWaiting, At, Goto
  <2>2. rdyQ' = rdyQ /\ cur' = cur /\ todo' = todo
    BY <1>10 DEF TakeWaiting
  <2>3. QED
    BY <1>0, <2>1, <2>2 DEF ActorsAtHome, QueuedAtHome, RunAtHome, HasActor
<1>11. ASSUME NEW c \in Contexts, FinishPut(c) PROVE ActorsAtHome'
  <2>1. QueuedAtHome'
    <3>1. CASE got[c] # NIL /\ HandOver(got[c], arg[c])
      BY <3>1, PutAtHome DEF HandOver
    <3>2. CASE UNCHANGED rdyQ
      BY <1>0, <3>2 DEF QueuedAtHome
    <3>3. QED
      BY <1>11, <3>1, <3>2 DEF FinishPut
  <2>2. pc[c] = "hand" /\ pc' = [pc EXCEPT ![c] = IF c \in RdyQs THEN "run" ELSE "off"]
    BY <1>11 DEF FinishPut, PutReturn, At, Goto
  <2>3. cur' = cur /\ todo' = todo
    BY <1>11 DEF FinishPut
  <2>4. RunAtHome' /\ HasActor'
    BY <1>0, <2>2, <2>3 DEF RunAtHome, HasActor
  <2>5. QED
    BY <2>1, <2>4 DEF ActorsAtHome
<1>12. CASE UNCHANGED vars
  BY <1>0, <1>12 DEF vars, ActorsAtHome, QueuedAtHome, RunAtHome, HasActor
<1>13. QED
  BY <1>1, <1>2, <1>3, <1>4, <1>5, <1>6, <1>7, <1>8, <1>9, <1>10, <1>11, <1>12
  DEF Next, RunQueueStep, PutStep

-----------------------------------------------------------------------------
\* The calls that a context may be in belong to its event queues
LEMMA UserFacts ==
  /\ \A p \in Producers : Feeds[p] \in EvQs /\ p \in Users(Feeds[p])
  /\ \A a \in Actors : Serves[a] \in EvQs /\ RdyQOf[a] \in Users(Serves[a])
  /\ \A a \in Actors, e \in EvQs : e \in Forwards[a] => RdyQOf[a] \in Users(e)
BY ConfigAssumption DEF Users

LEMMA CallStep == Typed /\ [Next]_vars => CallsAreUsers'
<1> SUFFICES ASSUME Typed, [Next]_vars PROVE CallsAreUsers'
  OBVIOUS
<1> USE NilFacts, ConfigAssumption DEF Typed, TypeOK, Contexts
<1>0. CallsAreUsers /\ RunAtHome /\ HasActor
  BY DEF ActorsAtHome
<1>1. ASSUME NEW a \in Actors, RunAct(a) PROVE CallsAreUsers'
  BY <1>0, <1>1 DEF RunAct, CallsAreUsers, InCall
<1>2. ASSUME NEW r \in RdyQs, TakeInterrupt(r) PROVE CallsAreUsers'
  BY <1>0, <1>2 DEF TakeInterrupt, Goto, CallsAreUsers, InCall
<1>3. ASSUME NEW r \in RdyQs, FetchActor(r) PROVE CallsAreUsers'
  BY <1>0, <1>3 DEF FetchActor, Goto, CallsAreUsers, InCall
<1>4. ASSUME NEW r \in RdyQs, LeaveHandler(r) PROVE CallsAreUsers'
  BY <1>0, <1>4 DEF LeaveHandler, Goto, CallsAreUsers, InCall
<1>5. ASSUME NEW r \in RdyQs, Recycle(r) PROVE CallsAreUsers'
  BY <1>0, <1>5 DEF Recycle, Goto, CallsAreUsers, InCall
<1>6. ASSUME NEW r \in RdyQs, TakeMsg(r) PROVE CallsAreUsers'
  <2>1. cur[r] \in Actors /\ RdyQOf[cur[r]] = r
    BY <1>0, <1>6 DEF TakeMsg, At, RunAtHome, HasActor
  <2>2. evq' = [evq EXCEPT ![r] = Serves[cur[r]]]
    BY <1>6 DEF TakeMsg
  <2>3. pc' = [pc EXCEPT ![r] = "get"]
    BY <1>6 DEF TakeMsg, Goto
  <2>4. \A c \in Contexts \ {r} : arg'[c] = arg[c]
    BY <1>6 DEF TakeMsg
  <2>5. QED
    BY <1>0, <2>1, <2>2, <2>3, <2>4, UserFacts DEF CallsAreUsers, InCall
<1>7. ASSUME NEW r \in RdyQs, FinishGet(r) PROVE CallsAreUsers'
  BY <1>0, <1>7 DEF FinishGet, Goto, CallsAreUsers, InCall
<1>8. ASSUME NEW r \in RdyQs, NEW e \in EvQs, BeginForward(r, e) PROVE CallsAreUsers'
  <2>1. cur[r] \in Actors /\ RdyQOf[cur[r]] = r /\ e \in Forwards[cur[r]]
    BY <1>0, <1>8 DEF BeginForward, At, RunAtHome, HasActor
  <2>2. evq' = [evq EXCEPT ![r] = e]
    BY <1>8 DEF BeginForward
  <2>3. pc' = [pc EXCEPT ![r] = "put"]
    BY <1>8 DEF BeginForward, Goto
  <2>4. PICK m \in Msgs : arg' = [arg EXCEPT ![r] = m]
    BY <1>8 DEF BeginForward
  <2>5. QED
    BY <1>0, <2>1, <2>2, <2>3, <2>4, UserFacts DEF CallsAreUsers, InCall
<1>9. ASSUME NEW p \in Producers, BeginProduce(p) PROVE CallsAreUsers'
  <2>1. CASE UNCHANGED <<pool, arg, evq, pc>>
    BY <1>0, <2>1 DEF CallsAreUsers, InCall
  <2>2. CASE /\ \E m \in Msgs : GetFromMsgPool(m) /\ arg' = [arg EXCEPT ![p] = m]
             /\ evq' = [evq EXCEPT ![p] = Feeds[p]]
             /\ Goto(p, "put")
    BY <1>0, <2>2, UserFacts DEF Goto, CallsAreUsers, InCall
  <2>3. QED
    BY <1>9, <2>1, <2>2 DEF BeginProduce
<1>10. ASSUME NEW c \in Contexts, TakeWaiting(c) PROVE CallsAreUsers'
  <2>1. pc[c] = "put" /\ pc' = [pc EXCEPT ![c] = "hand"]
    BY <1>10 DEF TakeWaiting, At, Goto
  <2>2. evq' = evq /\ arg' = arg
    BY <1>10 DEF TakeWaiting
  <2>3. QED
    BY <1>0, <2>1, <2>2 DEF CallsAreUsers, InCall
<1>11. ASSUME NEW c \in Contexts, FinishPut(c) PROVE CallsAreUsers'
  <2>1. /\ pc' = [pc EXCEPT ![c] = IF c \in RdyQs THEN "run" ELSE "off"]
        /\ evq' = [evq EXCEPT ![c] = NIL]
        /\ arg' = [arg EXCEPT ![c] = NIL]
    BY <1>11 DEF FinishPut, PutReturn, Goto
  <2>2. QED
    BY <1>0, <2>1 DEF CallsAreUsers, InCall
<1>12. CASE UNCHANGED vars
  BY <1>0, <1>12 DEF vars, CallsAreUsers, InCall
<1>13. QED
  BY <1>1, <1>2, <1>3, <1>4, <1>5, <1>6, <1>7, <1>8, <1>9, <1>10, <1>11, <1>12
  DEF Next, RunQueueStep, PutStep

LEMMA TypedAlways == Spec => []Typed
<1>1. Typed /\ [Next]_vars => Typed'
  BY TypeStep, HomeStep, CallStep DEF Typed
<1>2. QED
  BY TypedInit, <1>1, PTL DEF Spec

(* Every variable keeps its type, whatever the priorities, the load and    *)
(* the interleaving; in particular no queue and no pool ever holds NIL.    *)
THEOREM TypeCorrect == Spec => []TypeOK
<1>1. Typed => TypeOK
  BY DEF Typed
<1>2. QED
  BY <1>1, TypedAlways, PTL

-----------------------------------------------------------------------------
(* A user of an event queue with one priority is not interrupting another  *)
(* user of it.                                                             *)
LEMMA Alone ==
  ASSUME Typed, NEW e \in EvQs, OnePriority(e),
         NEW c \in Contexts, c \in Users(e), MostUrgent(c),
         NEW d \in Contexts, InCall(d), evq[d] = e
  PROVE  d = c
<1> SUFFICES ASSUME d # c PROVE FALSE
  OBVIOUS
<1>1. d \in Users(e) /\ Active(d)
  BY DEF Typed, CallsAreUsers, InCall, Active
<1>2. Prio[d] < Prio[c] /\ Prio[d] = Prio[c]
  BY <1>1 DEF MostUrgent, OnePriority
<1>3. Prio[c] \in Nat
  BY ConfigAssumption
<1>4. QED
  BY <1>2, <1>3

LEMMA WakeupInit == Init => StillEmpty /\ NoLostWakeup
BY DEF Init, StillEmpty, InCall, NoLostWakeup

LEMMA WakeupStep ==
  Typed /\ StillEmpty /\ NoLostWakeup /\ [Next]_vars => StillEmpty' /\ NoLostWakeup'
<1> SUFFICES ASSUME Typed, StillEmpty, NoLostWakeup, [Next]_vars
             PROVE  StillEmpty' /\ NoLostWakeup'
  OBVIOUS
<1> USE NilFacts, ConfigAssumption DEF Typed, TypeOK, Contexts
\* A step that touches neither queue and enters neither "hand" nor "get"
<1>1. ASSUME msgQ' = msgQ, actQ' = actQ,
             \A c \in Contexts :
               \/ pc'[c] \notin {"hand", "get"}
               \/ pc'[c] = pc[c] /\ evq'[c] = evq[c] /\ arg'[c] = arg[c] /\ got'[c] = got[c]
      PROVE  StillEmpty' /\ NoLostWakeup'
  <2>1. NoLostWakeup'
    BY <1>1 DEF NoLostWakeup
  <2>2. ASSUME NEW c \in Contexts, pc'[c] \in {"hand", "get"}, OnePriority(evq'[c])
        PROVE  /\ pc'[c] = "hand" /\ got'[c] = NIL => actQ'[evq'[c]] = <<>>
               /\ pc'[c] = "get" /\ arg'[c] = NIL => msgQ'[evq'[c]] = <<>>
    <3>1. pc'[c] = pc[c] /\ evq'[c] = evq[c] /\ arg'[c] = arg[c] /\ got'[c] = got[c]
      BY <1>1, <2>2
    <3>2. OnePriority(evq[c])
      BY <2>2, <3>1
    <3>3. QED
      BY <1>1, <2>2, <3>1, <3>2 DEF StillEmpty, InCall
  <2>3. QED
    BY <2>1, <2>2 DEF StillEmpty, InCall
<1>2. ASSUME NEW a \in Actors, RunAct(a) PROVE StillEmpty' /\ NoLostWakeup'
  BY <1>1, <1>2 DEF RunAct
<1>3. ASSUME NEW r \in RdyQs,
             TakeInterrupt(r) \/ FetchActor(r) \/ LeaveHandler(r) \/ Recycle(r)
      PROVE  StillEmpty' /\ NoLostWakeup'
  <2>1. /\ msgQ' = msgQ /\ actQ' = actQ /\ evq' = evq /\ arg' = arg /\ got' = got
        /\ \E l \in {"off", "fetch", "run"} : pc' = [pc EXCEPT ![r] = l]
    BY <1>3 DEF TakeInterrupt, FetchActor, LeaveHandler, Recycle, Goto
  <2>2. QED
    BY <2>1, <1>1
<1>4. ASSUME NEW r \in RdyQs, NEW e \in EvQs, BeginForward(r, e)
      PROVE  StillEmpty' /\ NoLostWakeup'
  <2>1. /\ msgQ' = msgQ /\ actQ' = actQ /\ got' = got
        /\ pc' = [pc EXCEPT ![r] = "put"]
        /\ \A c \in Contexts \ {r} : evq'[c] = evq[c] /\ arg'[c] = arg[c]
    BY <1>4 DEF BeginForward, Goto
  <2>2. QED
    BY <2>1, <1>1
<1>5. ASSUME NEW p \in Producers, BeginProduce(p) PROVE StillEmpty' /\ NoLostWakeup'
  <2>1. msgQ' = msgQ /\ actQ' = actQ /\ got' = got
    BY <1>5 DEF BeginProduce
  <2>2. CASE UNCHANGED <<pool, arg, evq, pc>>
    BY <2>1, <2>2, <1>1
  <2>3. CASE /\ \E m \in Msgs : GetFromMsgPool(m) /\ arg' = [arg EXCEPT ![p] = m]
             /\ evq' = [evq EXCEPT ![p] = Feeds[p]]
             /\ Goto(p, "put")
    BY <2>1, <2>3, <1>1 DEF Goto
  <2>4. QED
    BY <1>5, <2>2, <2>3 DEF BeginProduce
<1>6. ASSUME NEW c \in Contexts, TakeWaiting(c) PROVE StillEmpty' /\ NoLostWakeup'
  <2> DEFINE e == evq[c]
  <2>1. e \in EvQs /\ c \in Users(e) /\ MostUrgent(c) /\ pc[c] = "put"
    BY <1>6 DEF TakeWaiting, At, CallsAreUsers, InCall
  <2>2. /\ pc' = [pc EXCEPT ![c] = "hand"]
        /\ evq' = evq /\ arg' = arg /\ msgQ' = msgQ
    BY <1>6 DEF TakeWaiting, Goto
  <2>3. /\ \A f \in EvQs \ {e} : actQ'[f] = actQ[f]
        /\ actQ[e] = <<>> => actQ'[e] = <<>>
        /\ \A x \in Contexts \ {c} : got'[x] = got[x]
    BY <1>6, <2>1 DEF TakeWaiting
  <2>4. got'[c] = NIL => actQ'[e] = <<>>
    <3>1. CASE actQ[e] = <<>>
      BY <2>3, <3>1
    <3>2. CASE actQ[e] # <<>>
      BY <1>6, <2>1, <3>2, HeadTail DEF TakeWaiting
    <3>3. QED
      BY <3>1, <3>2
  <2>5. StillEmpty'
    BY <2>1, <2>2, <2>3, <2>4 DEF StillEmpty, InCall, CallsAreUsers
  <2>6. NoLostWakeup'
    BY <2>1, <2>2, <2>3 DEF NoLostWakeup
  <2>7. QED
    BY <2>5, <2>6
<1>7. ASSUME NEW c \in Contexts, FinishPut(c) PROVE StillEmpty' /\ NoLostWakeup'
  <2> DEFINE e == evq[c]
  <2>1. e \in EvQs /\ c \in Users(e) /\ MostUrgent(c) /\ pc[c] = "hand"
    BY <1>7 DEF FinishPut, At, CallsAreUsers, InCall
  <2>2. /\ pc' = [pc EXCEPT ![c] = IF c \in RdyQs THEN "run" ELSE "off"]
        /\ actQ' = actQ
        /\ \A x \in Contexts \ {c} :
             evq'[x] = evq[x] /\ arg'[x] = arg[x] /\ got'[x] = got[x]
    BY <1>7 DEF FinishPut, PutReturn, Goto
  <2>3. /\ \A f \in EvQs \ {e} : msgQ'[f] = msgQ[f]
        /\ msgQ' = msgQ \/ got[c] = NIL
    BY <1>7, <2>1 DEF FinishPut, Drop, Deposit, PutToMsgQ
  <2>4. NoLostWakeup'
    BY <2>1, <2>2, <2>3 DEF NoLostWakeup, StillEmpty, InCall
  <2>5. ASSUME NEW x \in Contexts, InCall(x)', OnePriority(evq'[x])
        PROVE  /\ pc'[x] = "hand" /\ got'[x] = NIL => actQ'[evq'[x]] = <<>>
               /\ pc'[x] = "get" /\ arg'[x] = NIL => msgQ'[evq'[x]] = <<>>
    <3>1. x # c /\ InCall(x) /\ evq'[x] = evq[x]
      BY <2>1, <2>2, <2>5 DEF InCall
    <3>2. evq[x] # e
      BY <2>1, <2>5, <3>1, Alone
    <3>3. evq[x] \in EvQs
      BY <3>1 DEF CallsAreUsers
    <3>4. QED
      BY <2>2, <2>3, <2>5, <3>1, <3>2, <3>3 DEF StillEmpty
  <2>6. QED
    BY <2>4, <2>5 DEF StillEmpty
<1>8. ASSUME NEW r \in RdyQs, TakeMsg(r) PROVE StillEmpty' /\ NoLostWakeup'
  <2> DEFINE e == Serves[cur[r]]
  <2>1. e \in EvQs /\ r \in Users(e) /\ MostUrgent(r) /\ pc[r] = "run"
    BY <1>8, UserFacts DEF TakeMsg, At, ActorsAtHome, RunAtHome, HasActor
  <2>2. /\ pc' = [pc EXCEPT ![r] = "get"]
        /\ evq' = [evq EXCEPT ![r] = e]
        /\ got' = got /\ actQ' = actQ
    BY <1>8 DEF TakeMsg, Goto
  <2>3. /\ \A f \in EvQs \ {e} : msgQ'[f] = msgQ[f]
        /\ msgQ[e] = <<>> => msgQ'[e] = <<>>
        /\ \A x \in Contexts \ {r} : arg'[x] = arg[x]
    BY <1>8, <2>1 DEF TakeMsg
  <2>4. arg'[r] = NIL => msgQ'[e] = <<>>
    <3>1. CASE msgQ[e] = <<>>
      BY <2>3, <3>1
    <3>2. CASE msgQ[e] # <<>>
      BY <1>8, <2>1, <3>2, HeadTail DEF TakeMsg
    <3>3. QED
      BY <3>1, <3>2
  <2>5. StillEmpty'
    BY <2>1, <2>2, <2>3, <2>4 DEF StillEmpty, InCall, CallsAreUsers
  <2>6. NoLostWakeup'
    BY <2>1, <2>2, <2>3 DEF NoLostWakeup
  <2>7. QED
    BY <2>5, <2>6
<1>9. ASSUME NEW r \in RdyQs, FinishGet(r) PROVE StillEmpty' /\ NoLostWakeup'
  <2> DEFINE e == evq[r]
  <2>1. e \in EvQs /\ r \in Users(e) /\ MostUrgent(r) /\ pc[r] = "get"
    BY <1>9 DEF FinishGet, At, CallsAreUsers, InCall
  <2>2. /\ pc' = [pc EXCEPT ![r] = "recycle"]
        /\ msgQ' = msgQ /\ got' = got
        /\ \A x \in Contexts \ {r} : evq'[x] = evq[x] /\ arg'[x] = arg[x]
    BY <1>9 DEF FinishGet, Goto
  <2>3. /\ \A f \in EvQs \ {e} : actQ'[f] = actQ[f]
        /\ actQ' = actQ \/ arg[r] = NIL
    BY <1>9, <2>1 DEF FinishGet, PutToActQ
  <2>4. NoLostWakeup'
    BY <2>1, <2>2, <2>3 DEF NoLostWakeup, StillEmpty, InCall
  <2>5. ASSUME NEW x \in Contexts, InCall(x)', OnePriority(evq'[x])
        PROVE  /\ pc'[x] = "hand" /\ got'[x] = NIL => actQ'[evq'[x]] = <<>>
               /\ pc'[x] = "get" /\ arg'[x] = NIL => msgQ'[evq'[x]] = <<>>
    <3>1. x # r /\ InCall(x) /\ evq'[x] = evq[x]
      BY <2>1, <2>2, <2>5 DEF InCall
    <3>2. evq[x] # e
      BY <2>1, <2>5, <3>1, Alone
    <3>3. evq[x] \in EvQs
      BY <3>1 DEF CallsAreUsers
    <3>4. QED
      BY <2>2, <2>3, <2>5, <3>1, <3>2, <3>3 DEF StillEmpty
  <2>6. QED
    BY <2>4, <2>5 DEF StillEmpty
<1>10. CASE UNCHANGED vars
  BY <1>1, <1>10 DEF vars
<1>11. QED
  BY <1>2, <1>3, <1>4, <1>5, <1>6, <1>7, <1>8, <1>9, <1>10
  DEF Next, RunQueueStep, PutStep

(* Whatever the configuration: in an event queue whose users all have one  *)
(* priority no message ever waits next to a waiting actor.                 *)
THEOREM NoWakeupIsLost == Spec => []NoLostWakeup
BY WakeupInit, WakeupStep, TypedAlways, PTL DEF Spec

-----------------------------------------------------------------------------
LEMMA ServedStep == Typed /\ ReadyIsServed /\ [Next]_vars => ReadyIsServed'
<1> SUFFICES ASSUME Typed, ReadyIsServed, [Next]_vars PROVE ReadyIsServed'
  OBVIOUS
<1> USE NilFacts, ConfigAssumption DEF Typed, TypeOK, Contexts, Active
\* An actor is put to a ready queue, and no handler returns
<1>1. ASSUME NEW a \in Actors, PutToRdyQ(RdyQOf[a], a),
             \A r \in RdyQs : pc[r] # "off" => pc'[r] # "off"
      PROVE  ReadyIsServed'
  BY <1>1 DEF PutToRdyQ, ReadyIsServed
\* No ready queue changes, and no handler returns
<1>2. ASSUME rdyQ' = rdyQ, pending' = pending,
             \A r \in RdyQs : pc[r] # "off" => pc'[r] # "off"
      PROVE  ReadyIsServed'
  BY <1>2 DEF ReadyIsServed
<1>3. ASSUME NEW a \in Actors, RunAct(a) PROVE ReadyIsServed'
  BY <1>1, <1>3 DEF RunAct
<1>4. ASSUME NEW r \in RdyQs, TakeInterrupt(r) PROVE ReadyIsServed'
  BY <1>4 DEF TakeInterrupt, Goto, ReadyIsServed
<1>5. ASSUME NEW r \in RdyQs, FetchActor(r) PROVE ReadyIsServed'
  BY <1>5 DEF FetchActor, Goto, ReadyIsServed
<1>6. ASSUME NEW r \in RdyQs, LeaveHandler(r) PROVE ReadyIsServed'
  BY <1>6 DEF LeaveHandler, Goto, ReadyIsServed
<1>7. ASSUME NEW r \in RdyQs, Recycle(r) \/ TakeMsg(r) PROVE ReadyIsServed'
  BY <1>2, <1>7 DEF Recycle, TakeMsg, Goto
<1>8. ASSUME NEW r \in RdyQs, FinishGet(r) PROVE ReadyIsServed'
  <2>1. cur[r] \in Actors /\ RdyQOf[cur[r]] = r
    BY <1>8 DEF FinishGet, At, ActorsAtHome, HasActor, RunAtHome
  <2>2. \A q \in RdyQs : pc[q] # "off" => pc'[q] # "off"
    BY <1>8 DEF FinishGet, Goto
  <2>3. CASE HandOver(cur[r], arg[r])
    BY <2>1, <2>2, <2>3, <1>1 DEF HandOver
  <2>4. CASE UNCHANGED <<actMsg, rdyQ, pending>>
    BY <2>2, <2>4, <1>2
  <2>5. QED
    BY <1>8, <2>3, <2>4 DEF FinishGet
<1>9. ASSUME NEW r \in RdyQs, NEW e \in EvQs, BeginForward(r, e) PROVE ReadyIsServed'
  BY <1>2, <1>9 DEF BeginForward, Goto
<1>10. ASSUME NEW p \in Producers, BeginProduce(p) PROVE ReadyIsServed'
  <2>1. \A r \in RdyQs : pc'[r] = pc[r]
    BY <1>10 DEF BeginProduce, Goto
  <2>2. QED
    BY <1>2, <1>10, <2>1 DEF BeginProduce
<1>11. ASSUME NEW c \in Contexts, TakeWaiting(c) PROVE ReadyIsServed'
  BY <1>2, <1>11 DEF TakeWaiting, Goto
<1>12. ASSUME NEW c \in Contexts, FinishPut(c) PROVE ReadyIsServed'
  <2>1. \A r \in RdyQs : pc[r] # "off" => pc'[r] # "off"
    BY <1>12 DEF FinishPut, PutReturn, Goto
  <2>2. CASE got[c] # NIL /\ HandOver(got[c], arg[c])
    BY <2>1, <2>2, <1>1 DEF HandOver
  <2>3. CASE UNCHANGED <<actMsg, rdyQ, pending>>
    BY <2>1, <2>3, <1>2
  <2>4. QED
    BY <1>12, <2>2, <2>3 DEF FinishPut
<1>13. CASE UNCHANGED vars
  BY <1>2, <1>13 DEF vars
<1>14. QED
  BY <1>3, <1>4, <1>5, <1>6, <1>7, <1>8, <1>9, <1>10, <1>11, <1>12, <1>13
  DEF Next, RunQueueStep, PutStep

(* An actor in a ready queue is never forgotten: the interrupt of its      *)
(* queue is pending, or its handler will look at the queue again.          *)
THEOREM ReadyActorsAreServed == Spec => []ReadyIsServed
<1>1. Init => ReadyIsServed
  BY DEF Init, ReadyIsServed
<1>2. QED
  BY <1>1, ServedStep, TypedAlways, PTL DEF Spec

-----------------------------------------------------------------------------
(* Messages and actors are conserved: each has one place at a time, and    *)
(* each step moves one actor, or one message, from one place to another.   *)

\* What the locals of a context hold is what its calls need, and no more
Locals ==
  \A c \in Contexts :
    /\ pc[c] \in {"off", "fetch"} => held[c] = NIL
    /\ pc[c] \in {"off", "fetch", "recycle"} => cur[c] = NIL
    /\ pc[c] \in {"off", "fetch", "run", "recycle"} => arg[c] = NIL
    /\ pc[c] # "hand" => got[c] = NIL
    /\ c \in Producers => held[c] = NIL /\ cur[c] = NIL

\* An actor that was never run was never given a message
Fresh == \A a \in new : actMsg[a] = NIL

\* The places of actors, by which queue or context it is
ActorSpots ==
  ({"new"} \X {NIL}) \cup ({"waiting"} \X EvQs) \cup ({"ready"} \X RdyQs)
  \cup ({"running", "got"} \X Contexts)

\* The actors are where spot says, and nowhere else
ActorsAt(spot) ==
  /\ spot \in [Actors -> ActorSpots]
  /\ \A a \in Actors : a \in new <=> spot[a] = <<"new", NIL>>
  /\ \A e \in EvQs : IsInjective(actQ[e])
  /\ \A e \in EvQs, a \in Actors : a \in Range(actQ[e]) <=> spot[a] = <<"waiting", e>>
  /\ \A r \in RdyQs : IsInjective(rdyQ[r])
  /\ \A r \in RdyQs, a \in Actors : a \in Range(rdyQ[r]) <=> spot[a] = <<"ready", r>>
  /\ \A c \in Contexts, a \in Actors : cur[c] = a <=> spot[a] = <<"running", c>>
  /\ \A c \in Contexts, a \in Actors : got[c] = a <=> spot[a] = <<"got", c>>

ActorsLocated == \E spot : ActorsAt(spot)

\* An actor is in a ready queue
IsReady(a) == \E r \in RdyQs : a \in Range(rdyQ[r])

\* The places of messages; one given to a ready actor is at that actor
MsgSpots ==
  ({"pool"} \X {NIL}) \cup ({"queued"} \X EvQs) \cup ({"ready"} \X Actors)
  \cup ({"held", "arg"} \X Contexts)

\* The messages are where loc says, and nowhere else
MsgsAt(loc) ==
  /\ loc \in [Msgs -> MsgSpots]
  /\ IsInjective(pool)
  /\ \A m \in Msgs : m \in Range(pool) <=> loc[m] = <<"pool", NIL>>
  /\ \A e \in EvQs : IsInjective(msgQ[e])
  /\ \A e \in EvQs, m \in Msgs : m \in Range(msgQ[e]) <=> loc[m] = <<"queued", e>>
  /\ \A a \in Actors, m \in Msgs : IsReady(a) /\ actMsg[a] = m <=> loc[m] = <<"ready", a>>
  /\ \A c \in Contexts, m \in Msgs : held[c] = m <=> loc[m] = <<"held", c>>
  /\ \A c \in Contexts, m \in Msgs : arg[c] = m <=> loc[m] = <<"arg", c>>

MsgsLocated == \E loc : MsgsAt(loc)

-----------------------------------------------------------------------------
(* The locals.                                                             *)
LEMMA LocalsInit == Init => Locals /\ Fresh
BY ConfigAssumption DEF Init, Locals, Fresh

LEMMA LocalsStep == Typed /\ Locals /\ [Next]_vars => Locals'
<1> SUFFICES ASSUME Typed, Locals, [Next]_vars PROVE Locals'
  OBVIOUS
<1> USE NilFacts, ConfigAssumption DEF Typed, TypeOK, Contexts
<1>1. ASSUME NEW a \in Actors, RunAct(a) PROVE Locals'
  BY <1>1 DEF RunAct, Locals
<1>2. ASSUME NEW r \in RdyQs, TakeInterrupt(r) PROVE Locals'
  BY <1>2 DEF TakeInterrupt, At, Goto, Locals
<1>3. ASSUME NEW r \in RdyQs, FetchActor(r) PROVE Locals'
  BY <1>3 DEF FetchActor, At, Goto, Locals
<1>4. ASSUME NEW r \in RdyQs, LeaveHandler(r) PROVE Locals'
  BY <1>4 DEF LeaveHandler, At, Goto, Locals
<1>5. ASSUME NEW r \in RdyQs, Recycle(r) PROVE Locals'
  BY <1>5 DEF Recycle, At, Goto, Locals
<1>6. ASSUME NEW r \in RdyQs, TakeMsg(r) PROVE Locals'
  <2>1. /\ pc[r] = "run" /\ pc' = [pc EXCEPT ![r] = "get"]
        /\ cur' = cur /\ held' = held /\ got' = got
        /\ \A c \in Contexts \ {r} : arg'[c] = arg[c]
    BY <1>6 DEF TakeMsg, At, Goto
  <2> QED BY <2>1 DEF Locals
<1>7. ASSUME NEW r \in RdyQs, FinishGet(r) PROVE Locals'
  BY <1>7 DEF FinishGet, At, Goto, Locals
<1>8. ASSUME NEW r \in RdyQs, NEW e \in EvQs, BeginForward(r, e) PROVE Locals'
  <2>1. /\ pc[r] = "run" /\ pc' = [pc EXCEPT ![r] = "put"]
        /\ cur' = cur /\ held' = held /\ got' = got
        /\ \A c \in Contexts \ {r} : arg'[c] = arg[c]
    BY <1>8 DEF BeginForward, At, Goto
  <2> QED BY <2>1 DEF Locals
<1>9. ASSUME NEW p \in Producers, BeginProduce(p) PROVE Locals'
  <2>1. /\ pc[p] = "off" /\ cur' = cur /\ held' = held /\ got' = got
    BY <1>9 DEF BeginProduce, At
  <2>2. CASE UNCHANGED <<pool, arg, evq, pc>>
    BY <2>1, <2>2 DEF Locals
  <2>3. CASE /\ pc' = [pc EXCEPT ![p] = "put"]
             /\ \A c \in Contexts \ {p} : arg'[c] = arg[c]
    BY <2>1, <2>3 DEF Locals
  <2> QED BY <1>9, <2>2, <2>3 DEF BeginProduce, Goto
<1>10. ASSUME NEW c \in Contexts, TakeWaiting(c) PROVE Locals'
  <2>1. /\ pc[c] = "put" /\ pc' = [pc EXCEPT ![c] = "hand"]
        /\ cur' = cur /\ held' = held /\ arg' = arg
        /\ \A d \in Contexts \ {c} : got'[d] = got[d]
    BY <1>10 DEF TakeWaiting, At, Goto
  <2> QED BY <2>1 DEF Locals
<1>11. ASSUME NEW c \in Contexts, FinishPut(c) PROVE Locals'
  <2>1. /\ pc[c] = "hand" /\ pc' = [pc EXCEPT ![c] = IF c \in RdyQs THEN "run" ELSE "off"]
        /\ arg' = [arg EXCEPT ![c] = NIL] /\ got' = [got EXCEPT ![c] = NIL]
        /\ cur' = cur /\ held' = held
    BY <1>11 DEF FinishPut, PutReturn, At, Goto
  <2> QED BY <2>1 DEF Locals
<1>12. CASE UNCHANGED vars
  BY <1>12 DEF vars, Locals
<1> QED
  BY <1>1, <1>2, <1>3, <1>4, <1>5, <1>6, <1>7, <1>8, <1>9, <1>10, <1>11, <1>12
  DEF Next, RunQueueStep, PutStep

-----------------------------------------------------------------------------
(* Actors.                                                                 *)
LEMMA ActorsInit == Init => ActorsLocated
<1> SUFFICES ASSUME Init PROVE ActorsLocated
  OBVIOUS
<1> DEFINE spot == [a \in Actors |-> <<"new", NIL>>]
<1> USE NilFacts, ConfigAssumption DEF Init
<1>1. spot \in [Actors -> ActorSpots]
  BY DEF ActorSpots
<1>2. \A q \in {<<>>} : IsInjective(q) /\ Range(q) = {}
  BY DEF IsInjective, Range
<1>3. \A a \in Actors : spot[a] = <<"new", NIL>>
  OBVIOUS
<1> HIDE DEF spot
<1>4. ActorsAt(spot)
  BY <1>1, <1>2, <1>3 DEF ActorsAt, Contexts
<1> QED BY <1>4 DEF ActorsLocated

(* Only an actor that is in no queue is put to its ready queue.            *)
LEMMA PutReady ==
  ASSUME Typed, NEW spot, ActorsAt(spot), NEW a \in Actors,
         spot[a][1] # "ready", PutToRdyQ(RdyQOf[a], a)
  PROVE  /\ \A r \in RdyQs : IsInjective(rdyQ'[r])
         /\ \A r \in RdyQs, b \in Actors :
              b \in Range(rdyQ'[r]) <=> b \in Range(rdyQ[r]) \/ (r = RdyQOf[a] /\ b = a)
<1>1. RdyQOf[a] \in RdyQs /\ rdyQ \in [RdyQs -> Seq(Actors)]
  BY ConfigAssumption DEF Typed, TypeOK
<1>2. a \notin Range(rdyQ[RdyQOf[a]]) /\ \A r \in RdyQs : IsInjective(rdyQ[r])
  BY <1>1 DEF ActorsAt
<1>3. rdyQ' = [rdyQ EXCEPT ![RdyQOf[a]] = Append(@, a)]
  BY DEF PutToRdyQ
<1> QED BY <1>1, <1>2, <1>3, PutLast

(* RunAct moves an actor from new to its ready queue.                      *)
LEMMA RunActMoves ==
  ASSUME Typed, ActorsLocated, NEW a \in Actors, RunAct(a)
  PROVE  ActorsLocated'
<1>1. PICK spot : ActorsAt(spot)
  BY DEF ActorsLocated
<1>2. spot[a] = <<"new", NIL>> /\ RdyQOf[a] \in RdyQs /\ spot \in [Actors -> ActorSpots]
  BY <1>1, ConfigAssumption DEF RunAct, ActorsAt
<1>3. <<"ready", RdyQOf[a]>> \in ActorSpots
  BY <1>2 DEF ActorSpots
<1>4. PICK to : to = [spot EXCEPT ![a] = <<"ready", RdyQOf[a]>>]
  OBVIOUS
<1>40. /\ to \in [Actors -> ActorSpots] /\ to[a] = <<"ready", RdyQOf[a]>>
       /\ \A b \in Actors \ {a} : to[b] = spot[b]
  BY <1>2, <1>3, <1>4
<1>5. /\ \A r \in RdyQs : IsInjective(rdyQ'[r])
      /\ \A r \in RdyQs, b \in Actors :
           b \in Range(rdyQ'[r]) <=> b \in Range(rdyQ[r]) \/ (r = RdyQOf[a] /\ b = a)
  BY <1>1, <1>2, PutReady DEF RunAct
<1>6. new' = new \ {a} /\ actQ' = actQ /\ cur' = cur /\ got' = got
  BY DEF RunAct
<1>7. ActorsAt(to)'
  <2>1. \A b \in Actors : b \in new' <=> to[b] = <<"new", NIL>>
    BY <1>1, <1>2, <1>40, <1>6 DEF ActorsAt
  <2>2. \A r \in RdyQs, b \in Actors : b \in Range(rdyQ'[r]) <=> to[b] = <<"ready", r>>
    BY <1>1, <1>2, <1>40, <1>5 DEF ActorsAt
  <2>3. \A e \in EvQs, b \in Actors : b \in Range(actQ'[e]) <=> to[b] = <<"waiting", e>>
    BY <1>1, <1>2, <1>40, <1>6 DEF ActorsAt
  <2>4. \A c \in Contexts, b \in Actors :
          /\ cur'[c] = b <=> to[b] = <<"running", c>>
          /\ got'[c] = b <=> to[b] = <<"got", c>>
    BY <1>1, <1>2, <1>40, <1>6 DEF ActorsAt
  <2>5. \A e \in EvQs : IsInjective(actQ'[e])
    BY <1>1, <1>6 DEF ActorsAt
  <2> QED BY <1>40, <1>5, <2>1, <2>2, <2>3, <2>4, <2>5 DEF ActorsAt
<1> QED BY <1>7 DEF ActorsLocated

(* RunQueue takes the first actor of its ready queue.                      *)
LEMMA FetchMoves ==
  ASSUME Typed, Locals, ActorsLocated, NEW r \in RdyQs, FetchActor(r)
  PROVE  ActorsLocated'
<1>1. PICK spot : ActorsAt(spot)
  BY DEF ActorsLocated
<1>2. /\ rdyQ \in [RdyQs -> Seq(Actors)] /\ rdyQ[r] # <<>>
      /\ rdyQ' = [rdyQ EXCEPT ![r] = Tail(@)]
      /\ \A q \in RdyQs : IsInjective(rdyQ[q])
  BY <1>1 DEF FetchActor, Typed, TypeOK, ActorsAt
<1>3. PICK a \in Actors : a = Head(rdyQ[r])
  BY <1>2, HeadTail
<1>4. a \in Range(rdyQ[r]) /\ \A q \in RdyQs : IsInjective(rdyQ'[q])
  BY <1>2, <1>3, TakeHead
<1>5. \A q \in RdyQs, b \in Actors :
        b \in Range(rdyQ'[q]) <=> b \in Range(rdyQ[q]) /\ ~(q = r /\ b = a)
  BY <1>2, <1>3, TakeHead
<1>6. spot[a] = <<"ready", r>> /\ spot \in [Actors -> ActorSpots]
  BY <1>1, <1>4 DEF ActorsAt
<1>7. <<"running", r>> \in ActorSpots
  BY DEF ActorSpots, Contexts
<1>8. PICK to : to = [spot EXCEPT ![a] = <<"running", r>>]
  OBVIOUS
<1>80. /\ to \in [Actors -> ActorSpots] /\ to[a] = <<"running", r>>
       /\ \A b \in Actors \ {a} : to[b] = spot[b]
  BY <1>6, <1>7, <1>8
<1>9. new' = new /\ actQ' = actQ /\ got' = got
  BY DEF FetchActor
<1>10. r \in Contexts /\ cur[r] = NIL /\ \A c \in Contexts : cur'[c] = IF c = r THEN a ELSE cur[c]
  BY <1>3 DEF FetchActor, Typed, TypeOK, At, Locals, Contexts
<1>11. ActorsAt(to)'
  <2>1. \A b \in Actors : b \in new' <=> to[b] = <<"new", NIL>>
    BY <1>1, <1>6, <1>80, <1>9 DEF ActorsAt
  <2>2. \A q \in RdyQs, b \in Actors : b \in Range(rdyQ'[q]) <=> to[b] = <<"ready", q>>
    BY <1>1, <1>5, <1>6, <1>80 DEF ActorsAt
  <2>3. \A e \in EvQs, b \in Actors : b \in Range(actQ'[e]) <=> to[b] = <<"waiting", e>>
    BY <1>1, <1>6, <1>80, <1>9 DEF ActorsAt
  <2>4. \A c \in Contexts, b \in Actors : cur'[c] = b <=> to[b] = <<"running", c>>
    BY <1>1, <1>6, <1>80, <1>10, NilFacts DEF ActorsAt
  <2>5. \A c \in Contexts, b \in Actors : got'[c] = b <=> to[b] = <<"got", c>>
    BY <1>1, <1>6, <1>80, <1>9 DEF ActorsAt
  <2>6. \A e \in EvQs : IsInjective(actQ'[e])
    BY <1>1, <1>9 DEF ActorsAt
  <2> QED BY <1>4, <1>80, <2>1, <2>2, <2>3, <2>4, <2>5, <2>6 DEF ActorsAt
<1> QED BY <1>11 DEF ActorsLocated

(* PutMsg takes the first actor that waits, if there is one.               *)
LEMMA TakeWaitingMoves ==
  ASSUME Typed, Locals, ActorsLocated, NEW c \in Contexts, TakeWaiting(c)
  PROVE  ActorsLocated'
<1>1. PICK spot : ActorsAt(spot)
  BY DEF ActorsLocated
<1>2. new' = new /\ rdyQ' = rdyQ /\ cur' = cur
  BY DEF TakeWaiting
<1>3. CASE UNCHANGED <<actQ, got>>
  <2>1. ActorsAt(spot)'
    BY <1>1, <1>2, <1>3 DEF ActorsAt
  <2> QED BY <2>1 DEF ActorsLocated
<1>4. CASE /\ actQ[evq[c]] # <<>>
           /\ actQ' = [actQ EXCEPT ![evq[c]] = Tail(@)]
           /\ got' = [got EXCEPT ![c] = Head(actQ[evq[c]])]
  <2>1. PICK e \in EvQs : e = evq[c]
    BY DEF TakeWaiting, Typed, At, CallsAreUsers, InCall
  <2>2. /\ actQ \in [EvQs -> Seq(Actors)] /\ actQ[e] # <<>>
        /\ actQ' = [actQ EXCEPT ![e] = Tail(@)]
        /\ \A f \in EvQs : IsInjective(actQ[f])
    BY <1>1, <1>4, <2>1 DEF Typed, TypeOK, ActorsAt
  <2>3. PICK a \in Actors : a = Head(actQ[e])
    BY <2>2, HeadTail
  <2>4. a \in Range(actQ[e]) /\ \A f \in EvQs : IsInjective(actQ'[f])
    BY <2>2, <2>3, TakeHead
  <2>5. \A f \in EvQs, b \in Actors :
          b \in Range(actQ'[f]) <=> b \in Range(actQ[f]) /\ ~(f = e /\ b = a)
    BY <2>2, <2>3, TakeHead
  <2>6. spot[a] = <<"waiting", e>> /\ spot \in [Actors -> ActorSpots]
    BY <1>1, <2>4 DEF ActorsAt
  <2>7. <<"got", c>> \in ActorSpots
    BY DEF ActorSpots
  <2>8. PICK to : to = [spot EXCEPT ![a] = <<"got", c>>]
    OBVIOUS
  <2>80. /\ to \in [Actors -> ActorSpots] /\ to[a] = <<"got", c>>
         /\ \A b \in Actors \ {a} : to[b] = spot[b]
    BY <2>6, <2>7, <2>8
  <2>9. got[c] = NIL /\ \A d \in Contexts : got'[d] = IF d = c THEN a ELSE got[d]
    BY <1>4, <2>1, <2>3 DEF TakeWaiting, Typed, TypeOK, At, Locals
  <2>10. ActorsAt(to)'
    <3>1. \A b \in Actors : b \in new' <=> to[b] = <<"new", NIL>>
      BY <1>1, <1>2, <2>6, <2>80 DEF ActorsAt
    <3>2. \A q \in RdyQs, b \in Actors : b \in Range(rdyQ'[q]) <=> to[b] = <<"ready", q>>
      BY <1>1, <1>2, <2>6, <2>80 DEF ActorsAt
    <3>3. \A f \in EvQs, b \in Actors : b \in Range(actQ'[f]) <=> to[b] = <<"waiting", f>>
      BY <1>1, <2>5, <2>6, <2>80 DEF ActorsAt
    <3>4. \A d \in Contexts, b \in Actors : cur'[d] = b <=> to[b] = <<"running", d>>
      BY <1>1, <1>2, <2>6, <2>80 DEF ActorsAt
    <3>5. \A d \in Contexts, b \in Actors : got'[d] = b <=> to[b] = <<"got", d>>
      BY <1>1, <2>6, <2>80, <2>9, NilFacts DEF ActorsAt
    <3>6. \A q \in RdyQs : IsInjective(rdyQ'[q])
      BY <1>1, <1>2 DEF ActorsAt
    <3> QED BY <2>4, <2>80, <3>1, <3>2, <3>3, <3>4, <3>5, <3>6 DEF ActorsAt
  <2> QED BY <2>10 DEF ActorsLocated
<1> QED BY <1>3, <1>4 DEF TakeWaiting

(* PutMsg hands the actor it has taken over to its ready queue.            *)
LEMMA FinishPutMoves ==
  ASSUME Typed, Locals, ActorsLocated, NEW c \in Contexts, FinishPut(c)
  PROVE  ActorsLocated'
<1>1. PICK spot : ActorsAt(spot)
  BY DEF ActorsLocated
<1>2. new' = new /\ actQ' = actQ /\ cur' = cur /\ got' = [got EXCEPT ![c] = NIL]
  BY DEF FinishPut, PutReturn
<1>3. \A d \in Contexts : got'[d] = IF d = c THEN NIL ELSE got[d]
  BY <1>2 DEF Typed, TypeOK
<1>4. CASE got[c] = NIL /\ UNCHANGED rdyQ
  <2>1. \A d \in Contexts : got'[d] = got[d]
    BY <1>3, <1>4
  <2>2. ActorsAt(spot)'
    BY <1>1, <1>2, <1>4, <2>1 DEF ActorsAt
  <2> QED BY <2>2 DEF ActorsLocated
<1>5. CASE got[c] # NIL /\ HandOver(got[c], arg[c])
  <2>1. PICK a \in Actors : a = got[c]
    BY <1>5 DEF Typed, TypeOK
  <2>2. spot[a] = <<"got", c>> /\ spot \in [Actors -> ActorSpots] /\ RdyQOf[a] \in RdyQs
    BY <1>1, <2>1, ConfigAssumption DEF ActorsAt
  <2>3. <<"ready", RdyQOf[a]>> \in ActorSpots
    BY <2>2 DEF ActorSpots
  <2>4. PICK to : to = [spot EXCEPT ![a] = <<"ready", RdyQOf[a]>>]
    OBVIOUS
  <2>5. /\ to \in [Actors -> ActorSpots] /\ to[a] = <<"ready", RdyQOf[a]>>
        /\ \A b \in Actors \ {a} : to[b] = spot[b]
    BY <2>2, <2>3, <2>4
  <2>6. PutToRdyQ(RdyQOf[a], a)
    BY <1>5, <2>1 DEF HandOver
  <2>7. /\ \A r \in RdyQs : IsInjective(rdyQ'[r])
        /\ \A r \in RdyQs, b \in Actors :
             b \in Range(rdyQ'[r]) <=> b \in Range(rdyQ[r]) \/ (r = RdyQOf[a] /\ b = a)
    BY <1>1, <2>2, <2>6, PutReady
  <2>8. ActorsAt(to)'
    <3>1. \A b \in Actors : b \in new' <=> to[b] = <<"new", NIL>>
      BY <1>1, <1>2, <2>2, <2>5 DEF ActorsAt
    <3>2. \A r \in RdyQs, b \in Actors : b \in Range(rdyQ'[r]) <=> to[b] = <<"ready", r>>
      BY <1>1, <2>2, <2>5, <2>7 DEF ActorsAt
    <3>3. \A e \in EvQs, b \in Actors : b \in Range(actQ'[e]) <=> to[b] = <<"waiting", e>>
      BY <1>1, <1>2, <2>2, <2>5 DEF ActorsAt
    <3>4. \A d \in Contexts, b \in Actors : cur'[d] = b <=> to[b] = <<"running", d>>
      BY <1>1, <1>2, <2>2, <2>5 DEF ActorsAt
    <3>5. \A d \in Contexts, b \in Actors : got'[d] = b <=> to[b] = <<"got", d>>
      BY <1>1, <1>3, <2>1, <2>2, <2>5, NilFacts DEF ActorsAt
    <3>6. \A e \in EvQs : IsInjective(actQ'[e])
      BY <1>1, <1>2 DEF ActorsAt
    <3> QED BY <2>5, <2>7, <3>1, <3>2, <3>3, <3>4, <3>5, <3>6 DEF ActorsAt
  <2> QED BY <2>8 DEF ActorsLocated
<1> QED BY <1>4, <1>5 DEF FinishPut

(* GetMsg puts the actor that runs to its ready queue, or lets it wait.    *)
LEMMA FinishGetMoves ==
  ASSUME Typed, Locals, ActorsLocated, NEW c \in RdyQs, FinishGet(c)
  PROVE  ActorsLocated'
<1>1. PICK spot : ActorsAt(spot)
  BY DEF ActorsLocated
<1>2. new' = new /\ got' = got /\ c \in Contexts
  BY DEF FinishGet, Contexts
<1>3. \A d \in Contexts : cur'[d] = IF d = c THEN NIL ELSE cur[d]
  BY DEF FinishGet, Typed, TypeOK
<1>4. PICK a \in Actors : a = cur[c]
  BY <1>2 DEF FinishGet, At, Typed, TypeOK, ActorsAtHome, HasActor
<1>5. spot[a] = <<"running", c>> /\ spot \in [Actors -> ActorSpots] /\ RdyQOf[a] \in RdyQs
  BY <1>1, <1>2, <1>4, ConfigAssumption DEF ActorsAt
<1>6. CASE HandOver(a, arg[c]) /\ UNCHANGED actQ
  <2>3. <<"ready", RdyQOf[a]>> \in ActorSpots
    BY <1>5 DEF ActorSpots
  <2>4. PICK to : to = [spot EXCEPT ![a] = <<"ready", RdyQOf[a]>>]
    OBVIOUS
  <2>5. /\ to \in [Actors -> ActorSpots] /\ to[a] = <<"ready", RdyQOf[a]>>
        /\ \A b \in Actors \ {a} : to[b] = spot[b]
    BY <1>5, <2>3, <2>4
  <2>6. PutToRdyQ(RdyQOf[a], a)
    BY <1>6 DEF HandOver
  <2>7. /\ \A r \in RdyQs : IsInjective(rdyQ'[r])
        /\ \A r \in RdyQs, b \in Actors :
             b \in Range(rdyQ'[r]) <=> b \in Range(rdyQ[r]) \/ (r = RdyQOf[a] /\ b = a)
    BY <1>1, <1>5, <2>6, PutReady
  <2>8. ActorsAt(to)'
    <3>1. \A b \in Actors : b \in new' <=> to[b] = <<"new", NIL>>
      BY <1>1, <1>2, <1>5, <2>5 DEF ActorsAt
    <3>2. \A r \in RdyQs, b \in Actors : b \in Range(rdyQ'[r]) <=> to[b] = <<"ready", r>>
      BY <1>1, <1>5, <2>5, <2>7 DEF ActorsAt
    <3>3. \A e \in EvQs, b \in Actors : b \in Range(actQ'[e]) <=> to[b] = <<"waiting", e>>
      BY <1>1, <1>5, <1>6, <2>5 DEF ActorsAt
    <3>4. \A d \in Contexts, b \in Actors : cur'[d] = b <=> to[b] = <<"running", d>>
      BY <1>1, <1>3, <1>4, <1>5, <2>5, NilFacts DEF ActorsAt
    <3>5. \A d \in Contexts, b \in Actors : got'[d] = b <=> to[b] = <<"got", d>>
      BY <1>1, <1>2, <1>5, <2>5 DEF ActorsAt
    <3>6. \A e \in EvQs : IsInjective(actQ'[e])
      BY <1>1, <1>6 DEF ActorsAt
    <3> QED BY <2>5, <2>7, <3>1, <3>2, <3>3, <3>4, <3>5, <3>6 DEF ActorsAt
  <2> QED BY <2>8 DEF ActorsLocated
<1>7. CASE PutToActQ(evq[c], a) /\ UNCHANGED rdyQ
  <2>1. PICK e \in EvQs : e = evq[c]
    BY <1>2 DEF FinishGet, Typed, At, CallsAreUsers, InCall
  <2>2. /\ actQ \in [EvQs -> Seq(Actors)] /\ actQ' = [actQ EXCEPT ![e] = Append(@, a)]
        /\ \A f \in EvQs : IsInjective(actQ[f])
        /\ a \notin Range(actQ[e])
    BY <1>1, <1>5, <1>7, <2>1 DEF PutToActQ, Typed, TypeOK, ActorsAt
  <2>3. /\ \A f \in EvQs : IsInjective(actQ'[f])
        /\ \A f \in EvQs, b \in Actors :
             b \in Range(actQ'[f]) <=> b \in Range(actQ[f]) \/ (f = e /\ b = a)
    BY <2>2, PutLast
  <2>5. <<"waiting", e>> \in ActorSpots
    BY DEF ActorSpots
  <2>6. PICK to : to = [spot EXCEPT ![a] = <<"waiting", e>>]
    OBVIOUS
  <2>7. /\ to \in [Actors -> ActorSpots] /\ to[a] = <<"waiting", e>>
        /\ \A b \in Actors \ {a} : to[b] = spot[b]
    BY <1>5, <2>5, <2>6
  <2>8. ActorsAt(to)'
    <3>1. \A b \in Actors : b \in new' <=> to[b] = <<"new", NIL>>
      BY <1>1, <1>2, <1>5, <2>7 DEF ActorsAt
    <3>2. \A r \in RdyQs, b \in Actors : b \in Range(rdyQ'[r]) <=> to[b] = <<"ready", r>>
      BY <1>1, <1>5, <1>7, <2>7 DEF ActorsAt
    <3>3. \A f \in EvQs, b \in Actors : b \in Range(actQ'[f]) <=> to[b] = <<"waiting", f>>
      BY <1>1, <1>5, <2>3, <2>7 DEF ActorsAt
    <3>4. \A d \in Contexts, b \in Actors : cur'[d] = b <=> to[b] = <<"running", d>>
      BY <1>1, <1>3, <1>4, <1>5, <2>7, NilFacts DEF ActorsAt
    <3>5. \A d \in Contexts, b \in Actors : got'[d] = b <=> to[b] = <<"got", d>>
      BY <1>1, <1>2, <1>5, <2>7 DEF ActorsAt
    <3>6. \A r \in RdyQs : IsInjective(rdyQ'[r])
      BY <1>1, <1>7 DEF ActorsAt
    <3> QED BY <2>3, <2>7, <3>1, <3>2, <3>3, <3>4, <3>5, <3>6 DEF ActorsAt
  <2> QED BY <2>8 DEF ActorsLocated
<1> QED BY <1>4, <1>6, <1>7 DEF FinishGet

LEMMA ActorsStep == Typed /\ Locals /\ ActorsLocated /\ [Next]_vars => ActorsLocated'
<1> SUFFICES ASSUME Typed, Locals, ActorsLocated, [Next]_vars PROVE ActorsLocated'
  OBVIOUS
<1>1. ASSUME UNCHANGED <<new, actQ, rdyQ, cur, got>> PROVE ActorsLocated'
  <2>1. PICK spot : ActorsAt(spot)
    BY DEF ActorsLocated
  <2>2. ActorsAt(spot)'
    BY <1>1, <2>1 DEF ActorsAt
  <2> QED BY <2>2 DEF ActorsLocated
<1>2. ASSUME NEW r \in RdyQs, TakeInterrupt(r) \/ LeaveHandler(r) \/ Recycle(r) \/ TakeMsg(r)
      PROVE  ActorsLocated'
  BY <1>1, <1>2 DEF TakeInterrupt, LeaveHandler, Recycle, TakeMsg
<1>3. ASSUME NEW r \in RdyQs, NEW e \in EvQs, BeginForward(r, e) PROVE ActorsLocated'
  BY <1>1, <1>3 DEF BeginForward
<1>4. ASSUME NEW p \in Producers, BeginProduce(p) PROVE ActorsLocated'
  BY <1>1, <1>4 DEF BeginProduce
<1>5. CASE UNCHANGED vars
  BY <1>1, <1>5 DEF vars
<1> QED
  BY <1>2, <1>3, <1>4, <1>5, RunActMoves, FetchMoves, FinishGetMoves, TakeWaitingMoves, FinishPutMoves
  DEF Next, RunQueueStep, PutStep

(* Only actors that run or have waited are given messages.                 *)
LEMMA FreshStep == Typed /\ ActorsLocated /\ Fresh /\ [Next]_vars => Fresh'
<1> SUFFICES ASSUME Typed, ActorsLocated, Fresh, [Next]_vars PROVE Fresh'
  OBVIOUS
<1>1. PICK spot : ActorsAt(spot)
  BY DEF ActorsLocated
<1>2. ASSUME new' \subseteq new, UNCHANGED actMsg PROVE Fresh'
  BY <1>2 DEF Fresh
<1>3. ASSUME NEW a \in Actors, RunAct(a) PROVE Fresh'
  BY <1>2, <1>3 DEF RunAct
<1>4. ASSUME NEW a \in Actors, NEW m, a \notin new, new' = new, HandOver(a, m) PROVE Fresh'
  BY <1>4 DEF HandOver, Fresh, Typed, TypeOK
<1>5. ASSUME NEW r \in RdyQs, FinishGet(r) PROVE Fresh'
  <2>1. new' = new
    BY <1>5 DEF FinishGet
  <2>2. cur[r] \in Actors
    BY <1>5 DEF FinishGet, At, Typed, TypeOK, ActorsAtHome, HasActor, Contexts
  <2>3. cur[r] \notin new
    BY <1>1, <2>2 DEF ActorsAt, Contexts
  <2> QED BY <1>2, <1>4, <1>5, <2>1, <2>2, <2>3 DEF FinishGet
<1>6. ASSUME NEW c \in Contexts, FinishPut(c) PROVE Fresh'
  <2>1. new' = new
    BY <1>6 DEF FinishPut
  <2>2. CASE UNCHANGED actMsg
    BY <1>2, <2>1, <2>2
  <2>3. CASE got[c] # NIL /\ HandOver(got[c], arg[c])
    <3>1. got[c] \in Actors
      BY <2>3 DEF Typed, TypeOK
    <3>2. got[c] \notin new
      BY <1>1, <3>1 DEF ActorsAt
    <3> QED BY <1>4, <2>1, <2>3, <3>1, <3>2
  <2> QED BY <1>6, <2>2, <2>3 DEF FinishPut
<1>7. ASSUME NEW r \in RdyQs,
             TakeInterrupt(r) \/ FetchActor(r) \/ LeaveHandler(r) \/ Recycle(r) \/ TakeMsg(r)
      PROVE  Fresh'
  BY <1>2, <1>7 DEF TakeInterrupt, FetchActor, LeaveHandler, Recycle, TakeMsg
<1>8. ASSUME NEW r \in RdyQs, NEW e \in EvQs, BeginForward(r, e) PROVE Fresh'
  BY <1>2, <1>8 DEF BeginForward
<1>9. ASSUME NEW p \in Producers, BeginProduce(p) PROVE Fresh'
  BY <1>2, <1>9 DEF BeginProduce
<1>10. ASSUME NEW c \in Contexts, TakeWaiting(c) PROVE Fresh'
  BY <1>2, <1>10 DEF TakeWaiting
<1>11. CASE UNCHANGED vars
  BY <1>2, <1>11 DEF vars
<1> QED
  BY <1>3, <1>5, <1>6, <1>7, <1>8, <1>9, <1>10, <1>11 DEF Next, RunQueueStep, PutStep

-----------------------------------------------------------------------------
(* Messages.                                                               *)
LEMMA MsgsInit == Init => MsgsLocated
<1> SUFFICES ASSUME Init PROVE MsgsLocated
  OBVIOUS
<1>1. PICK loc : loc = [m \in Msgs |-> <<"pool", NIL>>]
  OBVIOUS
<1>2. loc \in [Msgs -> MsgSpots] /\ \A m \in Msgs : loc[m] = <<"pool", NIL>>
  BY <1>1 DEF MsgSpots
<1>3. \A q \in {<<>>} : IsInjective(q) /\ Range(q) = {}
  BY DEF IsInjective, Range
<1>4. \A a : ~IsReady(a)
  BY <1>3 DEF Init, IsReady
<1>5. MsgsAt(loc)
  BY <1>2, <1>3, <1>4, NilFacts, PoolAssumption DEF Init, MsgsAt, Msgs, Contexts
<1> QED BY <1>5 DEF MsgsLocated

(* A message taken from the pool is the argument of the call.              *)
LEMMA PoolToArg ==
  ASSUME Typed, MsgsLocated, NEW c \in Contexts, arg[c] = NIL,
         NEW m \in Msgs, GetFromMsgPool(m), arg' = [arg EXCEPT ![c] = m],
         UNCHANGED <<msgQ, rdyQ, actMsg, held>>
  PROVE  MsgsLocated'
<1>1. PICK loc : MsgsAt(loc)
  BY DEF MsgsLocated
<1>2. /\ pool \in Seq(Msgs) /\ pool # <<>> /\ m = Head(pool) /\ pool' = Tail(pool)
      /\ IsInjective(pool)
  BY <1>1 DEF GetFromMsgPool, Typed, TypeOK, MsgsAt
<1>3. Range(pool) = {m} \cup Range(pool') /\ IsInjective(pool') /\ m \notin Range(pool')
  BY <1>2, HeadAndTail
<1>4. loc[m] = <<"pool", NIL>> /\ loc \in [Msgs -> MsgSpots]
  BY <1>1, <1>3 DEF MsgsAt
<1>5. <<"arg", c>> \in MsgSpots
  BY DEF MsgSpots
<1>6. PICK to : to = [loc EXCEPT ![m] = <<"arg", c>>]
  OBVIOUS
<1>7. /\ to \in [Msgs -> MsgSpots] /\ to[m] = <<"arg", c>>
      /\ \A n \in Msgs \ {m} : to[n] = loc[n]
  BY <1>4, <1>5, <1>6
<1>8. \A d \in Contexts : arg'[d] = IF d = c THEN m ELSE arg[d]
  BY DEF Typed, TypeOK
<1>9. MsgsAt(to)'
  <2>1. \A n \in Msgs : n \in Range(pool') <=> to[n] = <<"pool", NIL>>
    BY <1>1, <1>3, <1>4, <1>7 DEF MsgsAt
  <2>2. \A e \in EvQs, n \in Msgs : n \in Range(msgQ'[e]) <=> to[n] = <<"queued", e>>
    BY <1>1, <1>4, <1>7 DEF MsgsAt
  <2>3. \A a \in Actors, n \in Msgs : IsReady(a)' /\ actMsg'[a] = n <=> to[n] = <<"ready", a>>
    BY <1>1, <1>4, <1>7 DEF MsgsAt, IsReady
  <2>4. \A d \in Contexts, n \in Msgs : held'[d] = n <=> to[n] = <<"held", d>>
    BY <1>1, <1>4, <1>7 DEF MsgsAt
  <2>5. \A d \in Contexts, n \in Msgs : arg'[d] = n <=> to[n] = <<"arg", d>>
    BY <1>1, <1>4, <1>7, <1>8, NilFacts DEF MsgsAt
  <2>6. \A e \in EvQs : IsInjective(msgQ'[e])
    BY <1>1 DEF MsgsAt
  <2> QED BY <1>3, <1>7, <2>1, <2>2, <2>3, <2>4, <2>5, <2>6 DEF MsgsAt
<1> QED BY <1>9 DEF MsgsLocated

(* PutMsgAwaited puts its argument back into the pool.                     *)
LEMMA ArgToPool ==
  ASSUME Typed, MsgsLocated, NEW c \in Contexts, NEW m \in Msgs, arg[c] = m,
         PutToMsgPool(m), arg' = [arg EXCEPT ![c] = NIL],
         UNCHANGED <<msgQ, rdyQ, actMsg, held>>
  PROVE  MsgsLocated'
<1>1. PICK loc : MsgsAt(loc)
  BY DEF MsgsLocated
<1>2. loc[m] = <<"arg", c>> /\ loc \in [Msgs -> MsgSpots]
  BY <1>1 DEF MsgsAt
<1>3. pool \in Seq(Msgs) /\ pool' = <<m>> \o pool /\ IsInjective(pool) /\ m \notin Range(pool)
  BY <1>1, <1>2 DEF PutToMsgPool, Typed, TypeOK, MsgsAt
<1>4. Range(pool') = {m} \cup Range(pool) /\ IsInjective(pool')
  BY <1>3, InFront
<1>5. <<"pool", NIL>> \in MsgSpots
  BY DEF MsgSpots
<1>6. PICK to : to = [loc EXCEPT ![m] = <<"pool", NIL>>]
  OBVIOUS
<1>7. /\ to \in [Msgs -> MsgSpots] /\ to[m] = <<"pool", NIL>>
      /\ \A n \in Msgs \ {m} : to[n] = loc[n]
  BY <1>2, <1>5, <1>6
<1>8. \A d \in Contexts : arg'[d] = IF d = c THEN NIL ELSE arg[d]
  BY DEF Typed, TypeOK
<1>9. MsgsAt(to)'
  <2>1. \A n \in Msgs : n \in Range(pool') <=> to[n] = <<"pool", NIL>>
    BY <1>1, <1>2, <1>4, <1>7 DEF MsgsAt
  <2>2. \A e \in EvQs, n \in Msgs : n \in Range(msgQ'[e]) <=> to[n] = <<"queued", e>>
    BY <1>1, <1>2, <1>7 DEF MsgsAt
  <2>3. \A a \in Actors, n \in Msgs : IsReady(a)' /\ actMsg'[a] = n <=> to[n] = <<"ready", a>>
    BY <1>1, <1>2, <1>7 DEF MsgsAt, IsReady
  <2>4. \A d \in Contexts, n \in Msgs : held'[d] = n <=> to[n] = <<"held", d>>
    BY <1>1, <1>2, <1>7 DEF MsgsAt
  <2>5. \A d \in Contexts, n \in Msgs : arg'[d] = n <=> to[n] = <<"arg", d>>
    BY <1>1, <1>2, <1>7, <1>8, NilFacts DEF MsgsAt
  <2>6. \A e \in EvQs : IsInjective(msgQ'[e])
    BY <1>1 DEF MsgsAt
  <2> QED BY <1>4, <1>7, <2>1, <2>2, <2>3, <2>4, <2>5, <2>6 DEF MsgsAt
<1> QED BY <1>9 DEF MsgsLocated

(* RunQueue puts the message of the actor it has run back into the pool.   *)
LEMMA RecycleMoves ==
  ASSUME Typed, MsgsLocated, NEW c \in RdyQs, Recycle(c)
  PROVE  MsgsLocated'
<1>1. PICK loc : MsgsAt(loc)
  BY DEF MsgsLocated
<1>2. /\ msgQ' = msgQ /\ rdyQ' = rdyQ /\ actMsg' = actMsg /\ arg' = arg /\ c \in Contexts
      /\ \A d \in Contexts : held'[d] = IF d = c THEN NIL ELSE held[d]
  BY DEF Recycle, Typed, TypeOK, Contexts
<1>3. CASE held[c] = NIL /\ UNCHANGED pool
  <2>1. \A d \in Contexts : held'[d] = held[d]
    BY <1>2, <1>3
  <2>2. MsgsAt(loc)'
    BY <1>1, <1>2, <1>3, <2>1 DEF MsgsAt, IsReady
  <2> QED BY <2>2 DEF MsgsLocated
<1>4. CASE held[c] # NIL /\ PutToMsgPool(held[c])
  <2>1. PICK m \in Msgs : m = held[c]
    BY <1>2, <1>4 DEF Typed, TypeOK
  <2>2. loc[m] = <<"held", c>> /\ loc \in [Msgs -> MsgSpots]
    BY <1>1, <1>2, <2>1 DEF MsgsAt
  <2>3. pool \in Seq(Msgs) /\ pool' = <<m>> \o pool /\ IsInjective(pool) /\ m \notin Range(pool)
    BY <1>1, <1>4, <2>1, <2>2 DEF PutToMsgPool, Typed, TypeOK, MsgsAt
  <2>4. Range(pool') = {m} \cup Range(pool) /\ IsInjective(pool')
    BY <2>3, InFront
  <2>5. <<"pool", NIL>> \in MsgSpots
    BY DEF MsgSpots
  <2>6. PICK to : to = [loc EXCEPT ![m] = <<"pool", NIL>>]
    OBVIOUS
  <2>7. /\ to \in [Msgs -> MsgSpots] /\ to[m] = <<"pool", NIL>>
        /\ \A n \in Msgs \ {m} : to[n] = loc[n]
    BY <2>2, <2>5, <2>6
  <2>8. MsgsAt(to)'
    <3>1. \A n \in Msgs : n \in Range(pool') <=> to[n] = <<"pool", NIL>>
      BY <1>1, <2>2, <2>4, <2>7 DEF MsgsAt
    <3>2. \A e \in EvQs, n \in Msgs : n \in Range(msgQ'[e]) <=> to[n] = <<"queued", e>>
      BY <1>1, <1>2, <2>2, <2>7 DEF MsgsAt
    <3>3. \A a \in Actors, n \in Msgs : IsReady(a)' /\ actMsg'[a] = n <=> to[n] = <<"ready", a>>
      BY <1>1, <1>2, <2>2, <2>7 DEF MsgsAt, IsReady
    <3>4. \A d \in Contexts, n \in Msgs : held'[d] = n <=> to[n] = <<"held", d>>
      BY <1>1, <1>2, <2>1, <2>2, <2>7, NilFacts DEF MsgsAt
    <3>5. \A d \in Contexts, n \in Msgs : arg'[d] = n <=> to[n] = <<"arg", d>>
      BY <1>1, <1>2, <2>2, <2>7 DEF MsgsAt
    <3>6. \A e \in EvQs : IsInjective(msgQ'[e])
      BY <1>1, <1>2 DEF MsgsAt
    <3> QED BY <2>4, <2>7, <3>1, <3>2, <3>3, <3>4, <3>5, <3>6 DEF MsgsAt
  <2> QED BY <2>8 DEF MsgsLocated
<1> QED BY <1>3, <1>4 DEF Recycle

(* PutMsg adds its argument to the message queue.                          *)
LEMMA ArgToQueue ==
  ASSUME Typed, MsgsLocated, NEW c \in Contexts, NEW m \in Msgs, arg[c] = m,
         NEW e \in EvQs, PutToMsgQ(e, m), arg' = [arg EXCEPT ![c] = NIL],
         UNCHANGED <<pool, rdyQ, actMsg, held>>
  PROVE  MsgsLocated'
<1>1. PICK loc : MsgsAt(loc)
  BY DEF MsgsLocated
<1>2. loc[m] = <<"arg", c>> /\ loc \in [Msgs -> MsgSpots]
  BY <1>1 DEF MsgsAt
<1>3. /\ msgQ \in [EvQs -> Seq(Msgs)] /\ msgQ' = [msgQ EXCEPT ![e] = Append(@, m)]
      /\ \A f \in EvQs : IsInjective(msgQ[f])
      /\ m \notin Range(msgQ[e])
  BY <1>1, <1>2 DEF PutToMsgQ, Typed, TypeOK, MsgsAt
<1>4. /\ \A f \in EvQs : IsInjective(msgQ'[f])
      /\ \A f \in EvQs, n \in Msgs :
           n \in Range(msgQ'[f]) <=> n \in Range(msgQ[f]) \/ (f = e /\ n = m)
  <2>1. msgQ[e] \in Seq(Msgs) /\ IsInjective(msgQ[e])
    BY <1>3
  <2>2. /\ Range(Append(msgQ[e], m)) = Range(msgQ[e]) \cup {m}
        /\ IsInjective(Append(msgQ[e], m))
    BY <1>3, <2>1, AppendRange
  <2>3. \A f \in EvQs : msgQ'[f] = IF f = e THEN Append(msgQ[e], m) ELSE msgQ[f]
    BY <1>3
  <2> QED BY <1>3, <2>2, <2>3
<1>5. <<"queued", e>> \in MsgSpots
  BY DEF MsgSpots
<1>6. PICK to : to = [loc EXCEPT ![m] = <<"queued", e>>]
  OBVIOUS
<1>7. /\ to \in [Msgs -> MsgSpots] /\ to[m] = <<"queued", e>>
      /\ \A n \in Msgs \ {m} : to[n] = loc[n]
  BY <1>2, <1>5, <1>6
<1>8. \A d \in Contexts : arg'[d] = IF d = c THEN NIL ELSE arg[d]
  BY DEF Typed, TypeOK
<1>9. MsgsAt(to)'
  <2>1. \A n \in Msgs : n \in Range(pool') <=> to[n] = <<"pool", NIL>>
    BY <1>1, <1>2, <1>7 DEF MsgsAt
  <2>2. \A f \in EvQs, n \in Msgs : n \in Range(msgQ'[f]) <=> to[n] = <<"queued", f>>
    BY <1>1, <1>2, <1>4, <1>7 DEF MsgsAt
  <2>3. \A a \in Actors, n \in Msgs : IsReady(a)' /\ actMsg'[a] = n <=> to[n] = <<"ready", a>>
    BY <1>1, <1>2, <1>7 DEF MsgsAt, IsReady
  <2>4. \A d \in Contexts, n \in Msgs : held'[d] = n <=> to[n] = <<"held", d>>
    BY <1>1, <1>2, <1>7 DEF MsgsAt
  <2>5. \A d \in Contexts, n \in Msgs : arg'[d] = n <=> to[n] = <<"arg", d>>
    BY <1>1, <1>2, <1>7, <1>8, NilFacts DEF MsgsAt
  <2>6. IsInjective(pool')
    BY <1>1 DEF MsgsAt
  <2> QED BY <1>4, <1>7, <2>1, <2>2, <2>3, <2>4, <2>5, <2>6 DEF MsgsAt
<1> QED BY <1>9 DEF MsgsLocated

(* GetMsg takes the first message of the queue, if there is one.           *)
LEMMA TakeMsgMoves ==
  ASSUME Typed, Locals, MsgsLocated, NEW c \in RdyQs, TakeMsg(c)
  PROVE  MsgsLocated'
<1>1. PICK loc : MsgsAt(loc)
  BY DEF MsgsLocated
<1>2. pool' = pool /\ rdyQ' = rdyQ /\ actMsg' = actMsg /\ held' = held /\ c \in Contexts
  BY DEF TakeMsg, Contexts
<1>3. arg[c] = NIL
  BY <1>2 DEF TakeMsg, At, Locals
<1>4. CASE UNCHANGED <<msgQ, arg>>
  <2>1. MsgsAt(loc)'
    BY <1>1, <1>2, <1>4 DEF MsgsAt, IsReady
  <2> QED BY <2>1 DEF MsgsLocated
<1>5. ASSUME NEW e \in EvQs, msgQ[e] # <<>>, msgQ' = [msgQ EXCEPT ![e] = Tail(@)],
             arg' = [arg EXCEPT ![c] = Head(msgQ[e])]
      PROVE  MsgsLocated'
  <2>1. msgQ \in [EvQs -> Seq(Msgs)] /\ \A f \in EvQs : IsInjective(msgQ[f])
    BY <1>1 DEF Typed, TypeOK, MsgsAt
  <2>2. PICK m \in Msgs : m = Head(msgQ[e])
    BY <1>5, <2>1, HeadTail
  <2>3. m \in Range(msgQ[e]) /\ \A f \in EvQs : IsInjective(msgQ'[f])
    BY <1>5, <2>1, <2>2, TakeHead
  <2>4. \A f \in EvQs, n \in Msgs :
          n \in Range(msgQ'[f]) <=> n \in Range(msgQ[f]) /\ ~(f = e /\ n = m)
    BY <1>5, <2>1, <2>2, TakeHead
  <2>5. loc[m] = <<"queued", e>> /\ loc \in [Msgs -> MsgSpots]
    BY <1>1, <2>3 DEF MsgsAt
  <2>6. <<"arg", c>> \in MsgSpots
    BY <1>2 DEF MsgSpots
  <2>7. PICK to : to = [loc EXCEPT ![m] = <<"arg", c>>]
    OBVIOUS
  <2>8. /\ to \in [Msgs -> MsgSpots] /\ to[m] = <<"arg", c>>
        /\ \A n \in Msgs \ {m} : to[n] = loc[n]
    BY <2>5, <2>6, <2>7
  <2>9. \A d \in Contexts : arg'[d] = IF d = c THEN m ELSE arg[d]
    BY <1>5, <2>2 DEF Typed, TypeOK
  <2>10. MsgsAt(to)'
    <3>1. \A n \in Msgs : n \in Range(pool') <=> to[n] = <<"pool", NIL>>
      BY <1>1, <1>2, <2>5, <2>8 DEF MsgsAt
    <3>2. \A f \in EvQs, n \in Msgs : n \in Range(msgQ'[f]) <=> to[n] = <<"queued", f>>
      BY <1>1, <2>4, <2>5, <2>8 DEF MsgsAt
    <3>3. \A a \in Actors, n \in Msgs : IsReady(a)' /\ actMsg'[a] = n <=> to[n] = <<"ready", a>>
      BY <1>1, <1>2, <2>5, <2>8 DEF MsgsAt, IsReady
    <3>4. \A d \in Contexts, n \in Msgs : held'[d] = n <=> to[n] = <<"held", d>>
      BY <1>1, <1>2, <2>5, <2>8 DEF MsgsAt
    <3>5. \A d \in Contexts, n \in Msgs : arg'[d] = n <=> to[n] = <<"arg", d>>
      BY <1>1, <1>2, <1>3, <2>5, <2>8, <2>9, NilFacts DEF MsgsAt
    <3>6. IsInjective(pool')
      BY <1>1, <1>2 DEF MsgsAt
    <3> QED BY <2>3, <2>8, <3>1, <3>2, <3>3, <3>4, <3>5, <3>6 DEF MsgsAt
  <2> QED BY <2>10 DEF MsgsLocated
<1> QED BY <1>4, <1>5 DEF TakeMsg

(* PutToRdyQ makes the actor ready, and no other.                          *)
LEMMA MadeReady ==
  ASSUME Typed, NEW a \in Actors, PutToRdyQ(RdyQOf[a], a)
  PROVE  \A b \in Actors : IsReady(b)' <=> IsReady(b) \/ b = a
<1>1. PICK r \in RdyQs : r = RdyQOf[a]
  BY ConfigAssumption
<1>2. rdyQ[r] \in Seq(Actors)
  BY DEF Typed, TypeOK
<1>3. Range(Append(rdyQ[r], a)) = Range(rdyQ[r]) \cup {a}
  BY <1>2, AppendRange
<1>4. \A s \in RdyQs : rdyQ'[s] = IF s = r THEN Append(rdyQ[r], a) ELSE rdyQ[s]
  BY <1>1 DEF PutToRdyQ, Typed, TypeOK
<1>5. \A s \in RdyQs, b \in Actors : b \in Range(rdyQ'[s]) <=> b \in Range(rdyQ[s]) \/ (s = r /\ b = a)
  BY <1>3, <1>4
<1> QED BY <1>5 DEF IsReady

(* The message of a call is given to an actor that was in no ready queue.  *)
LEMMA ArgToReady ==
  ASSUME Typed, MsgsLocated, NEW c \in Contexts, NEW m \in Msgs, arg[c] = m,
         NEW a \in Actors, ~IsReady(a), HandOver(a, m), arg' = [arg EXCEPT ![c] = NIL],
         UNCHANGED <<pool, msgQ, held>>
  PROVE  MsgsLocated'
<1>1. PICK loc : MsgsAt(loc)
  BY DEF MsgsLocated
<1>2. loc[m] = <<"arg", c>> /\ loc \in [Msgs -> MsgSpots]
  BY <1>1 DEF MsgsAt
<1>3. \A b \in Actors : actMsg'[b] = IF b = a THEN m ELSE actMsg[b]
  BY DEF HandOver, Typed, TypeOK
<1>4. \A b \in Actors : IsReady(b)' <=> IsReady(b) \/ b = a
  BY MadeReady DEF HandOver
<1>5. <<"ready", a>> \in MsgSpots
  BY DEF MsgSpots
<1>6. PICK to : to = [loc EXCEPT ![m] = <<"ready", a>>]
  OBVIOUS
<1>7. /\ to \in [Msgs -> MsgSpots] /\ to[m] = <<"ready", a>>
      /\ \A n \in Msgs \ {m} : to[n] = loc[n]
  BY <1>2, <1>5, <1>6
<1>8. \A d \in Contexts : arg'[d] = IF d = c THEN NIL ELSE arg[d]
  BY DEF Typed, TypeOK
<1>9. MsgsAt(to)'
  <2>1. \A n \in Msgs : n \in Range(pool') <=> to[n] = <<"pool", NIL>>
    BY <1>1, <1>2, <1>7 DEF MsgsAt
  <2>2. \A e \in EvQs, n \in Msgs : n \in Range(msgQ'[e]) <=> to[n] = <<"queued", e>>
    BY <1>1, <1>2, <1>7 DEF MsgsAt
  <2>3. \A b \in Actors, n \in Msgs : IsReady(b)' /\ actMsg'[b] = n <=> to[n] = <<"ready", b>>
    <3>1. \A b \in Actors, n \in Msgs : IsReady(b) /\ actMsg[b] = n <=> loc[n] = <<"ready", b>>
      BY <1>1 DEF MsgsAt
    <3> QED BY <1>2, <1>3, <1>4, <1>7, <3>1
  <2>4. \A d \in Contexts, n \in Msgs : held'[d] = n <=> to[n] = <<"held", d>>
    BY <1>1, <1>2, <1>7 DEF MsgsAt
  <2>5. \A d \in Contexts, n \in Msgs : arg'[d] = n <=> to[n] = <<"arg", d>>
    BY <1>1, <1>2, <1>7, <1>8, NilFacts DEF MsgsAt
  <2>6. IsInjective(pool') /\ \A e \in EvQs : IsInjective(msgQ'[e])
    BY <1>1 DEF MsgsAt
  <2> QED BY <1>7, <2>1, <2>2, <2>3, <2>4, <2>5, <2>6 DEF MsgsAt
<1> QED BY <1>9 DEF MsgsLocated

(* An actor that was never run brings no message into its ready queue.     *)
LEMMA RunActKeepsMsgs ==
  ASSUME Typed, Fresh, MsgsLocated, NEW a \in Actors, RunAct(a)
  PROVE  MsgsLocated'
<1>1. PICK loc : MsgsAt(loc)
  BY DEF MsgsLocated
<1>2. /\ pool' = pool /\ msgQ' = msgQ /\ actMsg' = actMsg /\ held' = held /\ arg' = arg
      /\ actMsg[a] = NIL
  BY DEF RunAct, Fresh
<1>3. \A b \in Actors : IsReady(b)' <=> IsReady(b) \/ b = a
  BY MadeReady DEF RunAct
<1>4. \A b \in Actors, m \in Msgs : IsReady(b)' /\ actMsg'[b] = m <=> IsReady(b) /\ actMsg[b] = m
  BY <1>2, <1>3, NilFacts
<1>5. MsgsAt(loc)'
  BY <1>1, <1>2, <1>4 DEF MsgsAt
<1> QED BY <1>5 DEF MsgsLocated

(* RunQueue takes the message of the actor that it fetches.                *)
LEMMA FetchMovesMsg ==
  ASSUME Typed, Locals, ActorsLocated, MsgsLocated, NEW r \in RdyQs, FetchActor(r)
  PROVE  MsgsLocated'
<1>1. PICK loc : MsgsAt(loc)
  BY DEF MsgsLocated
<1>2. /\ rdyQ \in [RdyQs -> Seq(Actors)] /\ rdyQ[r] # <<>>
      /\ rdyQ' = [rdyQ EXCEPT ![r] = Tail(@)]
      /\ \A q \in RdyQs : IsInjective(rdyQ[q])
  BY DEF FetchActor, Typed, TypeOK, ActorsLocated, ActorsAt
<1>3. PICK a \in Actors : a = Head(rdyQ[r])
  BY <1>2, HeadTail
<1>4. \A q \in RdyQs, b \in Actors :
        b \in Range(rdyQ'[q]) <=> b \in Range(rdyQ[q]) /\ ~(q = r /\ b = a)
  BY <1>2, <1>3, TakeHead
<1>5. a \in Range(rdyQ[r])
  BY <1>2, <1>3, TakeHead
<1>6. \A q \in RdyQs : a \in Range(rdyQ[q]) => q = r
  BY <1>5 DEF ActorsLocated, ActorsAt
<1>7. IsReady(a) /\ \A b \in Actors : IsReady(b)' <=> IsReady(b) /\ b # a
  BY <1>4, <1>5, <1>6 DEF IsReady
<1>8. /\ pool' = pool /\ msgQ' = msgQ /\ actMsg' = actMsg /\ arg' = arg
      /\ r \in Contexts /\ held[r] = NIL
      /\ \A c \in Contexts : held'[c] = IF c = r THEN actMsg[a] ELSE held[c]
  BY <1>3 DEF FetchActor, At, Locals, Typed, TypeOK, Contexts
<1>9. \A b \in Actors, m \in Msgs : IsReady(b) /\ actMsg[b] = m <=> loc[m] = <<"ready", b>>
  BY <1>1 DEF MsgsAt
<1>10. CASE actMsg[a] = NIL
  <2>1. \A b \in Actors, m \in Msgs : IsReady(b)' /\ actMsg'[b] = m <=> loc[m] = <<"ready", b>>
    BY <1>7, <1>8, <1>9, <1>10, NilFacts
  <2>2. \A c \in Contexts : held'[c] = held[c]
    BY <1>8, <1>10
  <2>3. MsgsAt(loc)'
    BY <1>1, <1>8, <2>1, <2>2 DEF MsgsAt
  <2> QED BY <2>3 DEF MsgsLocated
<1>11. CASE actMsg[a] # NIL
  <2>1. PICK m \in Msgs : m = actMsg[a]
    BY <1>11 DEF Typed, TypeOK
  <2>2. loc[m] = <<"ready", a>> /\ loc \in [Msgs -> MsgSpots]
    BY <1>1, <1>7, <1>9, <2>1 DEF MsgsAt
  <2>3. <<"held", r>> \in MsgSpots
    BY <1>8 DEF MsgSpots
  <2>4. PICK to : to = [loc EXCEPT ![m] = <<"held", r>>]
    OBVIOUS
  <2>5. /\ to \in [Msgs -> MsgSpots] /\ to[m] = <<"held", r>>
        /\ \A n \in Msgs \ {m} : to[n] = loc[n]
    BY <2>2, <2>3, <2>4
  <2>6. MsgsAt(to)'
    <3>1. \A n \in Msgs : n \in Range(pool') <=> to[n] = <<"pool", NIL>>
      BY <1>1, <1>8, <2>2, <2>5 DEF MsgsAt
    <3>2. \A e \in EvQs, n \in Msgs : n \in Range(msgQ'[e]) <=> to[n] = <<"queued", e>>
      BY <1>1, <1>8, <2>2, <2>5 DEF MsgsAt
    <3>3. \A b \in Actors, n \in Msgs : IsReady(b)' /\ actMsg'[b] = n <=> to[n] = <<"ready", b>>
      BY <1>7, <1>8, <1>9, <2>1, <2>2, <2>5
    <3>4. \A d \in Contexts, n \in Msgs : held'[d] = n <=> to[n] = <<"held", d>>
      BY <1>1, <1>8, <2>1, <2>2, <2>5, NilFacts DEF MsgsAt
    <3>5. \A d \in Contexts, n \in Msgs : arg'[d] = n <=> to[n] = <<"arg", d>>
      BY <1>1, <1>8, <2>2, <2>5 DEF MsgsAt
    <3>6. IsInjective(pool') /\ \A e \in EvQs : IsInjective(msgQ'[e])
      BY <1>1, <1>8 DEF MsgsAt
    <3> QED BY <2>5, <3>1, <3>2, <3>3, <3>4, <3>5, <3>6 DEF MsgsAt
  <2> QED BY <2>6 DEF MsgsLocated
<1> QED BY <1>10, <1>11

LEMMA MsgsStep ==
  Typed /\ Locals /\ Fresh /\ ActorsLocated /\ MsgsLocated /\ [Next]_vars => MsgsLocated'
<1> SUFFICES ASSUME Typed, Locals, Fresh, ActorsLocated, MsgsLocated, [Next]_vars
             PROVE  MsgsLocated'
  OBVIOUS
<1>1. ASSUME UNCHANGED <<pool, msgQ, rdyQ, actMsg, held, arg>> PROVE MsgsLocated'
  <2>1. PICK loc : MsgsAt(loc)
    BY DEF MsgsLocated
  <2>2. MsgsAt(loc)'
    BY <1>1, <2>1 DEF MsgsAt, IsReady
  <2> QED BY <2>2 DEF MsgsLocated
<1>2. ASSUME NEW r \in RdyQs, TakeInterrupt(r) \/ LeaveHandler(r) PROVE MsgsLocated'
  BY <1>1, <1>2 DEF TakeInterrupt, LeaveHandler
<1>3. ASSUME NEW c \in Contexts, TakeWaiting(c) PROVE MsgsLocated'
  BY <1>1, <1>3 DEF TakeWaiting
<1>4. ASSUME NEW r \in RdyQs, NEW e \in EvQs, BeginForward(r, e) PROVE MsgsLocated'
  <2>1. r \in Contexts
    BY DEF Contexts
  <2>2. arg[r] = NIL /\ UNCHANGED <<msgQ, rdyQ, actMsg, held>>
    BY <1>4, <2>1 DEF BeginForward, At, Locals
  <2>3. PICK m \in Msgs : GetFromMsgPool(m) /\ arg' = [arg EXCEPT ![r] = m]
    BY <1>4 DEF BeginForward
  <2> QED BY <2>1, <2>2, <2>3, PoolToArg
<1>5. ASSUME NEW p \in Producers, BeginProduce(p) PROVE MsgsLocated'
  <2>1. p \in Contexts
    BY DEF Contexts
  <2>2. arg[p] = NIL /\ UNCHANGED <<msgQ, rdyQ, actMsg, held>>
    BY <1>5, <2>1 DEF BeginProduce, At, Locals
  <2>3. CASE UNCHANGED <<pool, arg, evq, pc>>
    BY <1>1, <2>2, <2>3
  <2>4. CASE \E m \in Msgs : GetFromMsgPool(m) /\ arg' = [arg EXCEPT ![p] = m]
    BY <2>1, <2>2, <2>4, PoolToArg
  <2> QED BY <1>5, <2>3, <2>4 DEF BeginProduce
<1>6. PICK spot : ActorsAt(spot)
  BY DEF ActorsLocated
<1>7. ASSUME NEW c \in Contexts, FinishPut(c) PROVE MsgsLocated'
  <2>1. /\ held' = held /\ arg' = [arg EXCEPT ![c] = NIL]
    BY <1>7 DEF FinishPut, PutReturn
  <2>2. PICK m \in Msgs : m = arg[c]
    BY <1>7 DEF FinishPut, At, Typed, TypeOK, CallsAreUsers
  <2>3. CASE got[c] # NIL /\ HandOver(got[c], arg[c]) /\ UNCHANGED <<msgQ, pool>>
    <3>1. PICK a \in Actors : a = got[c]
      BY <2>3 DEF Typed, TypeOK
    <3>2. spot[a] = <<"got", c>>
      BY <1>6, <3>1 DEF ActorsAt
    <3>3. ~IsReady(a)
      BY <1>6, <3>2 DEF ActorsAt, IsReady
    <3> QED BY <2>1, <2>2, <2>3, <3>1, <3>3, ArgToReady
  <2>4. CASE Deposit(c) /\ UNCHANGED <<actMsg, rdyQ>>
    <3>1. PICK e \in EvQs : e = evq[c]
      BY <1>7 DEF FinishPut, At, Typed, CallsAreUsers, InCall
    <3>2. PutToMsgQ(e, m) /\ UNCHANGED <<pool, rdyQ, actMsg, held>>
      BY <2>1, <2>2, <2>4, <3>1 DEF Deposit
    <3> QED BY <2>1, <2>2, <3>2, ArgToQueue
  <2>5. CASE Drop(c) /\ UNCHANGED <<actMsg, rdyQ>>
    <3>1. PutToMsgPool(m) /\ UNCHANGED <<msgQ, rdyQ, actMsg, held>>
      BY <2>1, <2>2, <2>5 DEF Drop
    <3> QED BY <2>1, <2>2, <3>1, ArgToPool
  <2> QED BY <1>7, <2>3, <2>4, <2>5 DEF FinishPut
<1>8. ASSUME NEW r \in RdyQs, FinishGet(r) PROVE MsgsLocated'
  <2>1. /\ held' = held /\ pool' = pool /\ msgQ' = msgQ /\ arg' = [arg EXCEPT ![r] = NIL]
        /\ r \in Contexts
    BY <1>8 DEF FinishGet, Contexts
  <2>2. CASE arg[r] # NIL /\ HandOver(cur[r], arg[r])
    <3>1. PICK m \in Msgs : m = arg[r]
      BY <2>1, <2>2 DEF Typed, TypeOK
    <3>2. PICK a \in Actors : a = cur[r]
      BY <1>8, <2>1 DEF FinishGet, At, Typed, TypeOK, ActorsAtHome, HasActor
    <3>3. spot[a] = <<"running", r>>
      BY <1>6, <2>1, <3>2 DEF ActorsAt
    <3>4. ~IsReady(a)
      BY <1>6, <3>3 DEF ActorsAt, IsReady
    <3> QED BY <2>1, <2>2, <3>1, <3>2, <3>4, ArgToReady
  <2>3. CASE arg[r] = NIL /\ UNCHANGED <<actMsg, rdyQ>>
    <3>1. arg' = arg
      BY <2>1, <2>3 DEF Typed, TypeOK
    <3> QED BY <1>1, <2>1, <2>3, <3>1
  <2> QED BY <1>8, <2>2, <2>3 DEF FinishGet
<1>9. CASE UNCHANGED vars
  BY <1>1, <1>9 DEF vars
<1> QED
  BY <1>2, <1>3, <1>4, <1>5, <1>7, <1>8, <1>9, RunActKeepsMsgs, FetchMovesMsg, RecycleMoves,
     TakeMsgMoves
  DEF Next, RunQueueStep, PutStep

-----------------------------------------------------------------------------
(* What is at one spot, at one position of a queue, is in one place.       *)
LEMMA OnePosition ==
  ASSUME NEW q, NEW x, IsInjective(q)
  PROVE  /\ x \notin Range(q) => Positions(q, x) = {}
         /\ x \in Range(q) => \E i : Positions(q, x) = {i}
BY DEF Positions, Range, IsInjective

LEMMA ActorPlacesAre ==
  ASSUME NEW a, NEW x
  PROVE  x \in ActorPlaces(a) <=>
           \/ a \in new /\ x = <<"new", a, 1>>
           \/ \E e \in EvQs : \E i \in Positions(actQ[e], a) : x = <<"waiting", e, i>>
           \/ \E r \in RdyQs : \E i \in Positions(rdyQ[r], a) : x = <<"ready", r, i>>
           \/ \E c \in Contexts : cur[c] = a /\ x = <<"running", c, 1>>
           \/ \E c \in Contexts : got[c] = a /\ x = <<"got", c, 1>>
<1> DEFINE Waiting == UNION {{"waiting"} \X {e} \X Positions(actQ[e], a) : e \in EvQs}
           Ready == UNION {{"ready"} \X {r} \X Positions(rdyQ[r], a) : r \in RdyQs}
           Running == {"running"} \X {c \in Contexts : cur[c] = a} \X {1}
           Got == {"got"} \X {c \in Contexts : got[c] = a} \X {1}
           New == {"new"} \X {a} \X (IF a \in new THEN {1} ELSE {})
<1>1. \A k, S, T : x \in {k} \X S \X T <=> \E s \in S, t \in T : x = <<k, s, t>>
  OBVIOUS
<1>2. x \in Waiting <=> \E e \in EvQs : \E i \in Positions(actQ[e], a) : x = <<"waiting", e, i>>
  <2>1. x \in Waiting <=> \E e \in EvQs : x \in {"waiting"} \X {e} \X Positions(actQ[e], a)
    OBVIOUS
  <2> QED BY <1>1, <2>1
<1>3. x \in Ready <=> \E r \in RdyQs : \E i \in Positions(rdyQ[r], a) : x = <<"ready", r, i>>
  <2>1. x \in Ready <=> \E r \in RdyQs : x \in {"ready"} \X {r} \X Positions(rdyQ[r], a)
    OBVIOUS
  <2> QED BY <1>1, <2>1
<1>4. x \in Running <=> \E c \in Contexts : cur[c] = a /\ x = <<"running", c, 1>>
  BY <1>1
<1>5. x \in Got <=> \E c \in Contexts : got[c] = a /\ x = <<"got", c, 1>>
  BY <1>1
<1>6. x \in New <=> a \in new /\ x = <<"new", a, 1>>
  BY <1>1
<1>7. ActorPlaces(a) = New \cup Waiting \cup Ready \cup Running \cup Got
  BY Zenon DEF ActorPlaces
<1> HIDE DEF New, Waiting, Ready, Running, Got
<1> QED BY <1>2, <1>3, <1>4, <1>5, <1>6, <1>7

LEMMA ActorPlace ==
  ASSUME ActorsLocated, NEW a \in Actors
  PROVE  IsSingleton(ActorPlaces(a))
<1>1. PICK spot : ActorsAt(spot)
  BY DEF ActorsLocated
<1>2. /\ a \in new <=> spot[a] = <<"new", NIL>>
      /\ \A e \in EvQs : IF spot[a] = <<"waiting", e>> THEN \E i : Positions(actQ[e], a) = {i}
                         ELSE Positions(actQ[e], a) = {}
      /\ \A r \in RdyQs : IF spot[a] = <<"ready", r>> THEN \E i : Positions(rdyQ[r], a) = {i}
                          ELSE Positions(rdyQ[r], a) = {}
      /\ \A c \in Contexts : cur[c] = a <=> spot[a] = <<"running", c>>
      /\ \A c \in Contexts : got[c] = a <=> spot[a] = <<"got", c>>
  BY <1>1, OnePosition DEF ActorsAt
<1>3. spot[a] \in ActorSpots
  BY <1>1 DEF ActorsAt
<1>4. CASE spot[a] = <<"new", NIL>>
  <2>1. ActorPlaces(a) = {<<"new", a, 1>>}
    BY <1>2, <1>4, ActorPlacesAre
  <2> QED BY <2>1 DEF IsSingleton
<1>5. ASSUME NEW e \in EvQs, spot[a] = <<"waiting", e>> PROVE IsSingleton(ActorPlaces(a))
  <2>1. PICK i : Positions(actQ[e], a) = {i}
    BY <1>2, <1>5
  <2>2. ActorPlaces(a) = {<<"waiting", e, i>>}
    BY <1>2, <1>5, <2>1, ActorPlacesAre
  <2> QED BY <2>2 DEF IsSingleton
<1>6. ASSUME NEW r \in RdyQs, spot[a] = <<"ready", r>> PROVE IsSingleton(ActorPlaces(a))
  <2>1. PICK i : Positions(rdyQ[r], a) = {i}
    BY <1>2, <1>6
  <2>2. ActorPlaces(a) = {<<"ready", r, i>>}
    BY <1>2, <1>6, <2>1, ActorPlacesAre
  <2> QED BY <2>2 DEF IsSingleton
<1>7. ASSUME NEW c \in Contexts, spot[a] = <<"running", c>> PROVE IsSingleton(ActorPlaces(a))
  <2>1. ActorPlaces(a) = {<<"running", c, 1>>}
    BY <1>2, <1>7, ActorPlacesAre
  <2> QED BY <2>1 DEF IsSingleton
<1>8. ASSUME NEW c \in Contexts, spot[a] = <<"got", c>> PROVE IsSingleton(ActorPlaces(a))
  <2>1. ActorPlaces(a) = {<<"got", c, 1>>}
    BY <1>2, <1>8, ActorPlacesAre
  <2> QED BY <2>1 DEF IsSingleton
<1> QED BY <1>3, <1>4, <1>5, <1>6, <1>7, <1>8 DEF ActorSpots

LEMMA MsgPlacesAre ==
  ASSUME NEW m, NEW x
  PROVE  x \in MsgPlaces(m) <=>
           \/ \E i \in Positions(pool, m) : x = <<"pool", NIL, i>>
           \/ \E e \in EvQs : \E i \in Positions(msgQ[e], m) : x = <<"queued", e, i>>
           \/ \E r \in RdyQs : \E i \in DOMAIN rdyQ[r] :
                actMsg[rdyQ[r][i]] = m /\ x = <<"ready", r, i>>
           \/ \E c \in Contexts : held[c] = m /\ x = <<"held", c, 1>>
           \/ \E c \in Contexts : arg[c] = m /\ x = <<"arg", c, 1>>
<1> DEFINE Given(r) == {i \in DOMAIN rdyQ[r] : actMsg[rdyQ[r][i]] = m}
           Pooled == {"pool"} \X {NIL} \X Positions(pool, m)
           Queued == UNION {{"queued"} \X {e} \X Positions(msgQ[e], m) : e \in EvQs}
           Ready == UNION {{"ready"} \X {r} \X Given(r) : r \in RdyQs}
           Held == {"held"} \X {c \in Contexts : held[c] = m} \X {1}
           Arg == {"arg"} \X {c \in Contexts : arg[c] = m} \X {1}
<1>1. \A k, S, T : x \in {k} \X S \X T <=> \E s \in S, t \in T : x = <<k, s, t>>
  OBVIOUS
<1>2. x \in Pooled <=> \E i \in Positions(pool, m) : x = <<"pool", NIL, i>>
  BY <1>1
<1>3. x \in Queued <=> \E e \in EvQs : \E i \in Positions(msgQ[e], m) : x = <<"queued", e, i>>
  <2>1. x \in Queued <=> \E e \in EvQs : x \in {"queued"} \X {e} \X Positions(msgQ[e], m)
    OBVIOUS
  <2> QED BY <1>1, <2>1
<1>4. x \in Ready <=> \E r \in RdyQs : \E i \in DOMAIN rdyQ[r] :
                        actMsg[rdyQ[r][i]] = m /\ x = <<"ready", r, i>>
  <2>1. x \in Ready <=> \E r \in RdyQs : x \in {"ready"} \X {r} \X Given(r)
    OBVIOUS
  <2>2. \A r : x \in {"ready"} \X {r} \X Given(r) <=> \E i \in Given(r) : x = <<"ready", r, i>>
    BY <1>1
  <2> QED BY <2>1, <2>2
<1>5. x \in Held <=> \E c \in Contexts : held[c] = m /\ x = <<"held", c, 1>>
  BY <1>1
<1>6. x \in Arg <=> \E c \in Contexts : arg[c] = m /\ x = <<"arg", c, 1>>
  BY <1>1
<1>7. MsgPlaces(m) = Pooled \cup Queued \cup Ready \cup Held \cup Arg
  BY Zenon DEF MsgPlaces
<1> HIDE DEF Pooled, Queued, Ready, Held, Arg
<1> QED BY <1>2, <1>3, <1>4, <1>5, <1>6, <1>7

LEMMA MsgPlace ==
  ASSUME Typed, ActorsLocated, MsgsLocated, NEW m \in Msgs
  PROVE  IsSingleton(MsgPlaces(m))
<1>1. PICK spot : ActorsAt(spot)
  BY DEF ActorsLocated
<1>2. PICK loc : MsgsAt(loc)
  BY DEF MsgsLocated
<1>3. /\ IF loc[m] = <<"pool", NIL>> THEN \E i : Positions(pool, m) = {i}
         ELSE Positions(pool, m) = {}
      /\ \A e \in EvQs : IF loc[m] = <<"queued", e>> THEN \E i : Positions(msgQ[e], m) = {i}
                         ELSE Positions(msgQ[e], m) = {}
      /\ \A c \in Contexts : held[c] = m <=> loc[m] = <<"held", c>>
      /\ \A c \in Contexts : arg[c] = m <=> loc[m] = <<"arg", c>>
  BY <1>2, OnePosition DEF MsgsAt
<1>4. /\ loc[m] \in MsgSpots
      /\ \A a \in Actors : IsReady(a) /\ actMsg[a] = m <=> loc[m] = <<"ready", a>>
  BY <1>2 DEF MsgsAt
<1>5. \A r \in RdyQs : \A i \in DOMAIN rdyQ[r] :
        /\ rdyQ[r][i] \in Actors /\ rdyQ[r][i] \in Range(rdyQ[r])
        /\ actMsg[rdyQ[r][i]] = m => loc[m] = <<"ready", rdyQ[r][i]>>
  <2>1. \A r \in RdyQs : \A i \in DOMAIN rdyQ[r] :
          rdyQ[r][i] \in Actors /\ rdyQ[r][i] \in Range(rdyQ[r])
    BY DEF Typed, TypeOK, Range
  <2> QED BY <1>4, <2>1 DEF IsReady
<1>6. CASE loc[m] = <<"pool", NIL>>
  <2>1. PICK i : Positions(pool, m) = {i}
    BY <1>3, <1>6
  <2>2. MsgPlaces(m) = {<<"pool", NIL, i>>}
    BY <1>3, <1>5, <1>6, <2>1, MsgPlacesAre
  <2> QED BY <2>2 DEF IsSingleton
<1>7. ASSUME NEW e \in EvQs, loc[m] = <<"queued", e>> PROVE IsSingleton(MsgPlaces(m))
  <2>1. PICK i : Positions(msgQ[e], m) = {i}
    BY <1>3, <1>7
  <2>2. MsgPlaces(m) = {<<"queued", e, i>>}
    BY <1>3, <1>5, <1>7, <2>1, MsgPlacesAre
  <2> QED BY <2>2 DEF IsSingleton
<1>8. ASSUME NEW a \in Actors, loc[m] = <<"ready", a>> PROVE IsSingleton(MsgPlaces(m))
  <2>1. IsReady(a) /\ actMsg[a] = m
    BY <1>4, <1>8
  <2>2. PICK r \in RdyQs : a \in Range(rdyQ[r])
    BY <2>1 DEF IsReady
  <2>3. \A s \in RdyQs : a \in Range(rdyQ[s]) => s = r
    BY <1>1, <2>2 DEF ActorsAt
  <2>4. PICK i : Positions(rdyQ[r], a) = {i}
    BY <1>1, <2>2, OnePosition DEF ActorsAt
  <2>5. i \in DOMAIN rdyQ[r] /\ rdyQ[r][i] = a
    BY <2>4 DEF Positions
  <2>6. ASSUME NEW s \in RdyQs, NEW j \in DOMAIN rdyQ[s]
        PROVE  actMsg[rdyQ[s][j]] = m <=> s = r /\ j = i
    <3>1. ASSUME actMsg[rdyQ[s][j]] = m PROVE s = r /\ j = i
      <4>1. rdyQ[s][j] = a
        BY <1>5, <1>8, <3>1
      <4>2. s = r
        BY <1>5, <2>3, <4>1
      <4>3. j \in Positions(rdyQ[r], a)
        BY <4>1, <4>2 DEF Positions
      <4> QED BY <2>4, <4>2, <4>3
    <3> QED BY <2>1, <2>5, <3>1
  <2>7. MsgPlaces(m) = {<<"ready", r, i>>}
    BY <1>3, <1>8, <2>5, <2>6, MsgPlacesAre
  <2> QED BY <2>7 DEF IsSingleton
<1>9. ASSUME NEW c \in Contexts, loc[m] = <<"held", c>> PROVE IsSingleton(MsgPlaces(m))
  <2>1. MsgPlaces(m) = {<<"held", c, 1>>}
    BY <1>3, <1>5, <1>9, MsgPlacesAre
  <2> QED BY <2>1 DEF IsSingleton
<1>10. ASSUME NEW c \in Contexts, loc[m] = <<"arg", c>> PROVE IsSingleton(MsgPlaces(m))
  <2>1. MsgPlaces(m) = {<<"arg", c, 1>>}
    BY <1>3, <1>5, <1>10, MsgPlacesAre
  <2> QED BY <2>1 DEF IsSingleton
<1> QED BY <1>4, <1>6, <1>7, <1>8, <1>9, <1>10 DEF MsgSpots

(* Neither a message nor an actor is ever lost, or in two places: in the   *)
(* pool, in a queue, with an actor or in a call in progress, whatever the  *)
(* numbers of queues, actors and producers, and whatever their priorities. *)
THEOREM MessagesAndActorsConserved == Spec => []Conserved
<1>1. Typed /\ ActorsLocated /\ MsgsLocated => Conserved
  BY ActorPlace, MsgPlace DEF Conserved
<1>2. QED
  BY <1>1, TypedAlways, LocalsInit, LocalsStep, ActorsInit, ActorsStep, FreshStep, MsgsInit,
     MsgsStep, PTL DEF Spec

-----------------------------------------------------------------------------
(* KernelV4 implements Mailboxes when the users of each event queue have   *)
(* one priority: PutMsg and GetMsg, of several critical sections each, look  *)
(* atomic to the actors.                                                   *)

OnePriorities == \A e \in EvQs : OnePriority(e)

\* GetMsg gets from the queue that the actor in hand serves
GetsOwn == \A r \in RdyQs : pc[r] = "get" => evq[r] = Serves[cur[r]]

MailInv == Typed /\ Locals /\ Fresh /\ ActorsLocated /\ StillEmpty /\ GetsOwn

\* The variables of Mailboxes, as KernelV4 substitutes them
BoxOf(e) == InHand(InGetMsg(e), arg) \o msgQ[e]
WaitOf(e) == InHand(InPutMsg(e), got) \o actQ[e]
InboxOf(a) == IF a \in Range(rdyQ[RdyQOf[a]]) THEN actMsg[a] ELSE NIL

Boxes == [e \in EvQs |-> BoxOf(e)]
Waits == [e \in EvQs |-> WaitOf(e)]
Inboxes == [a \in Actors |-> InboxOf(a)]

Mails == <<Boxes, Waits, Inboxes>>

-----------------------------------------------------------------------------
(* What a call in progress adds to a queue: nothing, or one element.       *)
LEMMA Fronts ==
  ASSUME NEW S, NEW q \in Seq(S), NEW local
  PROVE  /\ InHand({}, local) \o q = q
         /\ \A c : InHand({c}, local) \o q = <<local[c]>> \o q
<1>1. \A c : (CHOOSE d \in {c} : TRUE) = c
  OBVIOUS
<1>2. \A c : {c} # {}
  OBVIOUS
<1>3. InHand({}, local) = <<>> /\ \A c : InHand({c}, local) = <<local[c]>>
  BY <1>1, <1>2 DEF InHand
<1>4. <<>> \o q = q
  OBVIOUS
<1>5. InHand({}, local) \o q = q
  BY <1>3, <1>4
<1>6. \A c : InHand({c}, local) \o q = <<local[c]>> \o q
  BY <1>3, Zenon
<1> QED BY <1>5, <1>6

LEMMA BoxKept ==
  ASSUME NEW e \in EvQs, msgQ'[e] = msgQ[e],
         \A c \in Contexts :
           \/ evq'[c] = evq[c] /\ pc'[c] = pc[c] /\ arg'[c] = arg[c]
           \/ /\ ~(evq[c] = e /\ pc[c] = "get" /\ arg[c] # NIL)
              /\ ~(evq'[c] = e /\ pc'[c] = "get" /\ arg'[c] # NIL)
  PROVE  BoxOf(e)' = BoxOf(e)
<1>1. InGetMsg(e)' = InGetMsg(e) /\ \A c \in InGetMsg(e) : arg'[c] = arg[c]
  BY DEF InGetMsg
<1>2. InGetMsg(e) # {} => (CHOOSE c \in InGetMsg(e) : TRUE) \in InGetMsg(e)
  OBVIOUS
<1>3. InHand(InGetMsg(e), arg)' = InHand(InGetMsg(e), arg)
  BY <1>1, <1>2 DEF InHand
<1> QED BY <1>3 DEF BoxOf

LEMMA WaitKept ==
  ASSUME NEW e \in EvQs, actQ'[e] = actQ[e],
         \A c \in Contexts :
           \/ evq'[c] = evq[c] /\ got'[c] = got[c]
           \/ ~(evq[c] = e /\ got[c] # NIL) /\ ~(evq'[c] = e /\ got'[c] # NIL)
  PROVE  WaitOf(e)' = WaitOf(e)
<1>1. InPutMsg(e)' = InPutMsg(e) /\ \A c \in InPutMsg(e) : got'[c] = got[c]
  BY DEF InPutMsg
<1>2. InPutMsg(e) # {} => (CHOOSE c \in InPutMsg(e) : TRUE) \in InPutMsg(e)
  OBVIOUS
<1>3. InHand(InPutMsg(e), got)' = InHand(InPutMsg(e), got)
  BY <1>1, <1>2 DEF InHand
<1> QED BY <1>3 DEF WaitOf

\* Calls that are past neither of their two primitives
LEMMA BoxesKept ==
  ASSUME msgQ' = msgQ,
         \A c \in Contexts :
           \/ evq'[c] = evq[c] /\ pc'[c] = pc[c] /\ arg'[c] = arg[c]
           \/ pc[c] # "get" /\ pc'[c] # "get"
  PROVE  Boxes' = Boxes
<1>1. \A e \in EvQs : BoxOf(e)' = BoxOf(e)
  BY BoxKept
<1> QED BY <1>1 DEF Boxes

LEMMA WaitsKept ==
  ASSUME actQ' = actQ,
         \A c \in Contexts :
           \/ evq'[c] = evq[c] /\ got'[c] = got[c]
           \/ got[c] = NIL /\ got'[c] = NIL
  PROVE  Waits' = Waits
<1>1. \A e \in EvQs : WaitOf(e)' = WaitOf(e)
  BY WaitKept
<1> QED BY <1>1 DEF Waits

LEMMA InboxesKept ==
  ASSUME UNCHANGED <<rdyQ, actMsg>>
  PROVE  Inboxes' = Inboxes
BY DEF Inboxes, InboxOf

\* Who is put to the ready queue of his
LEMMA PutHome ==
  ASSUME Typed, NEW a \in Actors, PutToRdyQ(RdyQOf[a], a)
  PROVE  \A b \in Actors : b \in Range(rdyQ'[RdyQOf[b]]) <=> b \in Range(rdyQ[RdyQOf[b]]) \/ b = a
<1>1. /\ rdyQ \in [RdyQs -> Seq(Actors)] /\ rdyQ' = [rdyQ EXCEPT ![RdyQOf[a]] = Append(@, a)]
      /\ \A b \in Actors : RdyQOf[b] \in RdyQs
  BY ConfigAssumption DEF Typed, TypeOK, PutToRdyQ
<1>2. Range(Append(rdyQ[RdyQOf[a]], a)) = Range(rdyQ[RdyQOf[a]]) \cup {a}
  <2>1. rdyQ[RdyQOf[a]] \in Seq(Actors)
    BY <1>1
  <2> QED BY <2>1, AppendRange
<1>3. \A r \in RdyQs : rdyQ'[r] = IF r = RdyQOf[a] THEN Append(rdyQ[r], a) ELSE rdyQ[r]
  BY <1>1
<1> QED BY <1>1, <1>2, <1>3

\* The calls in progress on an event queue, when a user of it runs
LEMMA OnlyCaller ==
  ASSUME MailInv, OnePriorities, NEW e \in EvQs,
         NEW c \in Contexts, c \in Users(e), MostUrgent(c)
  PROVE  \A d \in Contexts \ {c} : d \notin InGetMsg(e) /\ d \notin InPutMsg(e)
<1> SUFFICES ASSUME NEW d \in Contexts, d \in InGetMsg(e) \/ d \in InPutMsg(e)
             PROVE  d = c
  OBVIOUS
<1>1. evq[d] = e /\ InCall(d)
  BY DEF InGetMsg, InPutMsg, InCall, MailInv, Locals
<1> QED BY <1>1, Alone DEF MailInv, OnePriorities

-----------------------------------------------------------------------------
(* Steps that Mailboxes does not see.                                      *)
LEMMA UnseenSteps ==
  ASSUME MailInv, NEW r \in RdyQs, TakeInterrupt(r) \/ LeaveHandler(r) \/ Recycle(r)
  PROVE  Mails' = Mails
<1>1. /\ UNCHANGED <<msgQ, actQ, rdyQ, actMsg, evq, arg, got>>
      /\ pc[r] # "get" /\ pc'[r] # "get" /\ \A c \in Contexts \ {r} : pc'[c] = pc[c]
  BY DEF TakeInterrupt, LeaveHandler, Recycle, At, Goto, MailInv, Typed, TypeOK, Contexts
<1>2. Boxes' = Boxes
  BY <1>1, BoxesKept
<1>3. Waits' = Waits
  BY <1>1, WaitsKept
<1>4. Inboxes' = Inboxes
  BY <1>1, InboxesKept
<1> QED BY <1>2, <1>3, <1>4 DEF Mails

LEMMA RunActUnseen ==
  ASSUME MailInv, NEW a \in Actors, RunAct(a)
  PROVE  Mails' = Mails
<1>1. /\ UNCHANGED <<msgQ, actQ, actMsg, evq, arg, got, pc>>
      /\ PutToRdyQ(RdyQOf[a], a) /\ actMsg[a] = NIL
  BY DEF RunAct, MailInv, Fresh
<1>2. \A b \in Actors : b \in Range(rdyQ'[RdyQOf[b]]) <=> b \in Range(rdyQ[RdyQOf[b]]) \/ b = a
  BY <1>1, PutHome DEF MailInv
<1>3. \A b \in Actors : InboxOf(b)' = InboxOf(b)
  BY <1>1, <1>2 DEF InboxOf
<1>4. Inboxes' = Inboxes
  BY <1>3 DEF Inboxes
<1>5. Boxes' = Boxes
  BY <1>1, BoxesKept
<1>6. Waits' = Waits
  BY <1>1, WaitsKept
<1> QED BY <1>4, <1>5, <1>6 DEF Mails

\* A message is taken from the pool for PutMsg
LEMMA BeginPutUnseen ==
  ASSUME MailInv, \/ \E r \in RdyQs, e \in EvQs : BeginForward(r, e)
                  \/ \E p \in Producers : BeginProduce(p)
  PROVE  Mails' = Mails
<1>1. PICK c \in Contexts :
        /\ pc[c] \in {"run", "off"} /\ pc'[c] # "get"
        /\ \A d \in Contexts \ {c} : pc'[d] = pc[d] /\ arg'[d] = arg[d] /\ evq'[d] = evq[d]
  <2>1. ASSUME NEW r \in RdyQs, NEW e \in EvQs, BeginForward(r, e)
        PROVE  /\ pc[r] \in {"run", "off"} /\ pc'[r] # "get"
               /\ \A d \in Contexts \ {r} : pc'[d] = pc[d] /\ arg'[d] = arg[d] /\ evq'[d] = evq[d]
    BY <2>1 DEF BeginForward, At, Goto, MailInv, Typed, TypeOK, Contexts
  <2>2. ASSUME NEW p \in Producers, BeginProduce(p)
        PROVE  /\ pc[p] \in {"run", "off"} /\ pc'[p] # "get"
               /\ \A d \in Contexts \ {p} : pc'[d] = pc[d] /\ arg'[d] = arg[d] /\ evq'[d] = evq[d]
    BY <2>2 DEF BeginProduce, At, Goto, MailInv, Typed, TypeOK, Contexts
  <2> QED BY <2>1, <2>2 DEF Contexts
<1>2. UNCHANGED <<msgQ, actQ, rdyQ, actMsg, got>>
  BY DEF BeginForward, BeginProduce
<1>3. got[c] = NIL
  BY <1>1 DEF MailInv, Locals
<1>4. Boxes' = Boxes
  BY <1>1, <1>2, BoxesKept
<1>5. Waits' = Waits
  BY <1>1, <1>2, <1>3, WaitsKept
<1>6. Inboxes' = Inboxes
  BY <1>2, InboxesKept
<1> QED BY <1>4, <1>5, <1>6 DEF Mails

(* PutMsg takes an actor that waits: it is still the first to wait.        *)
LEMMA TakeWaitingUnseen ==
  ASSUME MailInv, OnePriorities, NEW c \in Contexts, TakeWaiting(c)
  PROVE  Mails' = Mails
<1>1. /\ pc[c] = "put" /\ MostUrgent(c)
      /\ UNCHANGED <<msgQ, rdyQ, actMsg, evq, arg>>
      /\ \A d \in Contexts : pc'[d] = IF d = c THEN "hand" ELSE pc[d]
  BY DEF TakeWaiting, At, Goto, MailInv, Typed, TypeOK
<1>2. PICK e \in EvQs : evq[c] = e /\ c \in Users(e)
  BY <1>1 DEF MailInv, Typed, CallsAreUsers, InCall
<1>3. Boxes' = Boxes
  BY <1>1, BoxesKept
<1>4. Inboxes' = Inboxes
  BY <1>1, InboxesKept
<1>5. CASE UNCHANGED <<actQ, got>>
  <2>1. Waits' = Waits
    BY <1>1, <1>5, WaitsKept
  <2> QED BY <1>3, <1>4, <2>1 DEF Mails
<1>6. CASE /\ actQ[e] # <<>>
           /\ actQ' = [actQ EXCEPT ![e] = Tail(@)]
           /\ got' = [got EXCEPT ![c] = Head(actQ[e])]
  <2>1. /\ actQ \in [EvQs -> Seq(Actors)] /\ actQ[e] \in Seq(Actors)
        /\ \A d \in Contexts : got'[d] = IF d = c THEN Head(actQ[e]) ELSE got[d]
        /\ \A f \in EvQs : actQ'[f] = IF f = e THEN Tail(actQ[e]) ELSE actQ[f]
    BY <1>6 DEF MailInv, Typed, TypeOK
  <2>2. /\ Head(actQ[e]) \in Actors /\ Tail(actQ[e]) \in Seq(Actors)
        /\ <<Head(actQ[e])>> \o Tail(actQ[e]) = actQ[e]
    BY <1>6, <2>1, HeadAndTail
  <2>3. Head(actQ[e]) # NIL /\ got[c] = NIL
    BY <1>1, <2>2, NilFacts DEF MailInv, Locals
  <2>4. InPutMsg(e) = {} /\ InPutMsg(e)' = {c}
    <3>1. \A d \in Contexts \ {c} : d \notin InPutMsg(e)
      BY <1>1, <1>2, OnlyCaller
    <3> QED BY <1>1, <1>2, <2>1, <2>3, <3>1 DEF InPutMsg
  <2>5. WaitOf(e) = actQ[e]
    BY <2>1, <2>4, Fronts DEF WaitOf
  <2>6. WaitOf(e)' = <<got'[c]>> \o actQ'[e]
    <3>1. actQ'[e] \in Seq(Actors)
      BY <2>1, <2>2
    <3>2. InHand({c}, got') \o actQ'[e] = <<got'[c]>> \o actQ'[e]
      BY <3>1, Fronts
    <3>3. WaitOf(e)' = InHand(InPutMsg(e)', got') \o actQ'[e]
      BY DEF WaitOf
    <3> QED BY <2>4, <3>2, <3>3
  <2>7. WaitOf(e)' = WaitOf(e)
    BY <2>1, <2>2, <2>5, <2>6
  <2>8. ASSUME NEW f \in EvQs, f # e PROVE WaitOf(f)' = WaitOf(f)
    <3>1. actQ'[f] = actQ[f]
      BY <2>1, <2>8
    <3>2. \A d \in Contexts :
            \/ evq'[d] = evq[d] /\ got'[d] = got[d]
            \/ ~(evq[d] = f /\ got[d] # NIL) /\ ~(evq'[d] = f /\ got'[d] # NIL)
      BY <1>1, <1>2, <2>1, <2>8
    <3> QED BY <3>1, <3>2, WaitKept
  <2>9. Waits' = Waits
    BY <2>7, <2>8 DEF Waits
  <2> QED BY <1>3, <1>4, <2>9 DEF Mails
<1> QED BY <1>2, <1>5, <1>6 DEF TakeWaiting

(* GetMsg takes a message: it is still the first in the queue.             *)
LEMMA TakeMsgUnseen ==
  ASSUME MailInv, OnePriorities, NEW r \in RdyQs, TakeMsg(r)
  PROVE  Mails' = Mails
<1>0. r \in Contexts
  BY DEF Contexts
<1>1. /\ pc[r] = "run" /\ MostUrgent(r)
      /\ UNCHANGED <<actQ, rdyQ, actMsg, got>>
      /\ \A d \in Contexts : pc'[d] = IF d = r THEN "get" ELSE pc[d]
  BY <1>0 DEF TakeMsg, At, Goto, MailInv, Typed, TypeOK
<1>2. cur[r] \in Actors /\ RdyQOf[cur[r]] = r
  BY <1>0, <1>1 DEF MailInv, Typed, TypeOK, ActorsAtHome, HasActor, RunAtHome
<1>3. PICK e \in EvQs :
        /\ e = Serves[cur[r]]
        /\ evq' = [evq EXCEPT ![r] = e]
        /\ \/ msgQ[e] = <<>> /\ UNCHANGED <<msgQ, arg>>
           \/ /\ msgQ[e] # <<>>
              /\ msgQ' = [msgQ EXCEPT ![e] = Tail(@)]
              /\ arg' = [arg EXCEPT ![r] = Head(msgQ[e])]
  BY DEF TakeMsg
<1>4. r \in Users(e)
  BY <1>2, <1>3, UserFacts
<1>5. \A d \in Contexts : evq'[d] = IF d = r THEN e ELSE evq[d]
  BY <1>3 DEF MailInv, Typed, TypeOK
<1>6. got[r] = NIL /\ arg[r] = NIL
  BY <1>0, <1>1 DEF MailInv, Locals
<1>7. Waits' = Waits
  BY <1>1, <1>5, <1>6, WaitsKept
<1>8. Inboxes' = Inboxes
  BY <1>1, InboxesKept
<1>9. CASE UNCHANGED <<msgQ, arg>>
  <2>1. ASSUME NEW f \in EvQs PROVE BoxOf(f)' = BoxOf(f)
    <3>1. \A c \in Contexts :
            \/ evq'[c] = evq[c] /\ pc'[c] = pc[c] /\ arg'[c] = arg[c]
            \/ /\ ~(evq[c] = f /\ pc[c] = "get" /\ arg[c] # NIL)
               /\ ~(evq'[c] = f /\ pc'[c] = "get" /\ arg'[c] # NIL)
      BY <1>1, <1>5, <1>6, <1>9
    <3> QED BY <1>9, <3>1, BoxKept
  <2>2. Boxes' = Boxes
    BY <2>1 DEF Boxes
  <2> QED BY <1>7, <1>8, <2>2 DEF Mails
<1>10. CASE /\ msgQ[e] # <<>>
            /\ msgQ' = [msgQ EXCEPT ![e] = Tail(@)]
            /\ arg' = [arg EXCEPT ![r] = Head(msgQ[e])]
  <2>1. /\ msgQ[e] \in Seq(Msgs)
        /\ \A d \in Contexts : arg'[d] = IF d = r THEN Head(msgQ[e]) ELSE arg[d]
        /\ \A f \in EvQs : msgQ'[f] = IF f = e THEN Tail(msgQ[e]) ELSE msgQ[f]
    BY <1>10 DEF MailInv, Typed, TypeOK
  <2>2. /\ Head(msgQ[e]) \in Msgs /\ Tail(msgQ[e]) \in Seq(Msgs)
        /\ <<Head(msgQ[e])>> \o Tail(msgQ[e]) = msgQ[e]
    BY <1>10, <2>1, HeadAndTail
  <2>3. Head(msgQ[e]) # NIL
    BY <2>2, NilFacts
  <2>4. InGetMsg(e) = {} /\ InGetMsg(e)' = {r}
    <3>1. \A d \in Contexts \ {r} : d \notin InGetMsg(e)
      BY <1>0, <1>1, <1>4, OnlyCaller
    <3> QED BY <1>0, <1>1, <1>5, <1>6, <2>1, <2>3, <3>1 DEF InGetMsg
  <2>5. BoxOf(e) = msgQ[e]
    BY <2>1, <2>4, Fronts DEF BoxOf
  <2>6. BoxOf(e)' = <<arg'[r]>> \o msgQ'[e]
    <3>1. msgQ'[e] \in Seq(Msgs)
      BY <2>1, <2>2
    <3>2. InHand({r}, arg') \o msgQ'[e] = <<arg'[r]>> \o msgQ'[e]
      BY <3>1, Fronts
    <3>3. BoxOf(e)' = InHand(InGetMsg(e)', arg') \o msgQ'[e]
      BY DEF BoxOf
    <3> QED BY <2>4, <3>2, <3>3
  <2>7. BoxOf(e)' = BoxOf(e)
    BY <1>0, <2>1, <2>2, <2>5, <2>6
  <2>8. ASSUME NEW f \in EvQs, f # e PROVE BoxOf(f)' = BoxOf(f)
    <3>1. msgQ'[f] = msgQ[f]
      BY <2>1, <2>8
    <3>2. \A c \in Contexts :
            \/ evq'[c] = evq[c] /\ pc'[c] = pc[c] /\ arg'[c] = arg[c]
            \/ /\ ~(evq[c] = f /\ pc[c] = "get" /\ arg[c] # NIL)
               /\ ~(evq'[c] = f /\ pc'[c] = "get" /\ arg'[c] # NIL)
      BY <1>1, <1>5, <2>1, <2>8
    <3> QED BY <3>1, <3>2, BoxKept
  <2>9. Boxes' = Boxes
    BY <2>7, <2>8 DEF Boxes
  <2> QED BY <1>7, <1>8, <2>9 DEF Mails
<1> QED BY <1>3, <1>9, <1>10

-----------------------------------------------------------------------------
(* The steps of Mailboxes.                                                 *)
LEMMA MailboxUse ==
  ASSUME NEW a \in Actors, Inboxes[a] # NIL,
         Inboxes' = [Inboxes EXCEPT ![a] = NIL], UNCHANGED <<Boxes, Waits>>
  PROVE  Mailbox!Next
<1>1. Mailbox!Use(a)
  BY Zenon DEF Mailbox!Use, Inboxes, InboxOf, Boxes, BoxOf, Waits, WaitOf
<1> QED BY <1>1 DEF Mailbox!Next

LEMMA MailboxPut ==
  ASSUME NEW e \in EvQs, NEW m \in Msgs,
         \/ /\ Waits[e] # <<>>
            /\ Inboxes' = [Inboxes EXCEPT ![Head(Waits[e])] = m]
            /\ Waits' = [Waits EXCEPT ![e] = Tail(@)]
            /\ UNCHANGED Boxes
         \/ /\ Waits[e] = <<>>
            /\ Boxes' = [Boxes EXCEPT ![e] = Append(@, m)]
            /\ UNCHANGED <<Waits, Inboxes>>
  PROVE  Mailbox!Next
<1>1. Mailbox!Put(e, m)
  BY Zenon DEF Mailbox!Put, Mailbox!Give, Inboxes, InboxOf, Boxes, BoxOf, Waits, WaitOf
<1> QED BY <1>1 DEF Mailbox!Next

LEMMA MailboxGet ==
  ASSUME NEW a \in Actors,
         Inboxes[a] = NIL, a \notin Range(Waits[Serves[a]]),
         \/ /\ Boxes[Serves[a]] # <<>>
            /\ Inboxes' = [Inboxes EXCEPT ![a] = Head(Boxes[Serves[a]])]
            /\ Boxes' = [Boxes EXCEPT ![Serves[a]] = Tail(@)]
            /\ UNCHANGED Waits
         \/ /\ Boxes[Serves[a]] = <<>>
            /\ Waits' = [Waits EXCEPT ![Serves[a]] = Append(@, a)]
            /\ UNCHANGED <<Boxes, Inboxes>>
  PROVE  Mailbox!Next
<1>1. CASE /\ Boxes[Serves[a]] # <<>>
           /\ Inboxes' = [Inboxes EXCEPT ![a] = Head(Boxes[Serves[a]])]
           /\ Boxes' = [Boxes EXCEPT ![Serves[a]] = Tail(@)]
           /\ UNCHANGED Waits
  <2>1. Mailbox!Get(a)
    BY <1>1, Zenon DEF Mailbox!Get, Mailbox!Give, Mailbox!Range, Range, Inboxes, InboxOf, Boxes, BoxOf, Waits, WaitOf
  <2> QED BY <2>1 DEF Mailbox!Next
<1>2. CASE /\ Boxes[Serves[a]] = <<>>
           /\ Waits' = [Waits EXCEPT ![Serves[a]] = Append(@, a)]
           /\ UNCHANGED <<Boxes, Inboxes>>
  <2>1. Mailbox!Get(a)
    BY <1>2, Zenon DEF Mailbox!Get, Mailbox!Give, Mailbox!Range, Range, Inboxes, InboxOf, Boxes, BoxOf, Waits, WaitOf
  <2> QED BY <2>1 DEF Mailbox!Next
<1> QED BY <1>1, <1>2

-----------------------------------------------------------------------------
(* Steps that Mailboxes sees.  RunQueue fetches an actor: it runs, and     *)
(* uses its message if it was given one.                                   *)
LEMMA FetchSeen ==
  ASSUME MailInv, NEW r \in RdyQs, FetchActor(r)
  PROVE  Mailbox!Next \/ Mails' = Mails
<1>1. /\ pc[r] = "fetch" /\ rdyQ[r] # <<>>
      /\ UNCHANGED <<msgQ, actQ, actMsg, evq, arg, got>>
      /\ rdyQ \in [RdyQs -> Seq(Actors)]
      /\ rdyQ' = [rdyQ EXCEPT ![r] = Tail(@)]
      /\ \A d \in Contexts : pc'[d] = IF d = r THEN "run" ELSE pc[d]
  BY DEF FetchActor, At, Goto, MailInv, Typed, TypeOK, Contexts
<1>2. \A q \in RdyQs : IsInjective(rdyQ[q])
  BY DEF MailInv, ActorsLocated, ActorsAt
<1>3. PICK a \in Actors : a = Head(rdyQ[r]) /\ a \in Range(rdyQ[r])
  BY <1>1, <1>2, TakeHead
<1>4. RdyQOf[a] = r
  <2>1. PICK i \in DOMAIN rdyQ[r] : rdyQ[r][i] = a
    BY <1>3 DEF Range
  <2> QED BY <2>1 DEF MailInv, Typed, ActorsAtHome, QueuedAtHome
<1>5. \A q \in RdyQs, b \in Actors :
        b \in Range(rdyQ'[q]) <=> b \in Range(rdyQ[q]) /\ ~(q = r /\ b = a)
  BY <1>1, <1>2, <1>3, TakeHead
<1>6. \A b \in Actors : RdyQOf[b] \in RdyQs
  BY ConfigAssumption
<1>7. \A b \in Actors : InboxOf(b)' = IF b = a THEN NIL ELSE InboxOf(b)
  BY <1>1, <1>4, <1>5, <1>6 DEF InboxOf
<1>8. Inboxes' = [Inboxes EXCEPT ![a] = NIL]
  BY <1>7 DEF Inboxes
<1>9. Boxes' = Boxes
  BY <1>1, BoxesKept
<1>10. Waits' = Waits
  BY <1>1, WaitsKept
<1>11. CASE Inboxes[a] # NIL
  BY <1>8, <1>9, <1>10, <1>11, MailboxUse
<1>12. CASE Inboxes[a] = NIL
  <2>1. Inboxes' = Inboxes
    BY <1>8, <1>12 DEF Inboxes
  <2> QED BY <1>9, <1>10, <2>1 DEF Mails
<1> QED BY <1>11, <1>12

(* An actor is handed a message.                                           *)
LEMMA HandedOver ==
  ASSUME Typed, NEW a \in Actors, NEW m \in Msgs, HandOver(a, m)
  PROVE  Inboxes' = [Inboxes EXCEPT ![a] = m]
<1>1. PutToRdyQ(RdyQOf[a], a) /\ \A b \in Actors : actMsg'[b] = IF b = a THEN m ELSE actMsg[b]
  BY DEF HandOver, Typed, TypeOK
<1>2. \A b \in Actors : b \in Range(rdyQ'[RdyQOf[b]]) <=> b \in Range(rdyQ[RdyQOf[b]]) \/ b = a
  BY <1>1, PutHome
<1>3. \A b \in Actors : InboxOf(b)' = IF b = a THEN m ELSE InboxOf(b)
  BY <1>1, <1>2 DEF InboxOf
<1> QED BY <1>3 DEF Inboxes

(* PutMsg has taken an actor: it gives it the message.                     *)
LEMMA PutGives ==
  ASSUME MailInv, OnePriorities, NEW c \in Contexts, FinishPut(c), got[c] # NIL
  PROVE  Mailbox!Next
<1>1. /\ pc[c] = "hand" /\ MostUrgent(c)
      /\ HandOver(got[c], arg[c]) /\ UNCHANGED <<msgQ, actQ>>
      /\ \A d \in Contexts : got'[d] = IF d = c THEN NIL ELSE got[d]
      /\ \A d \in Contexts \ {c} : pc'[d] = pc[d] /\ evq'[d] = evq[d] /\ arg'[d] = arg[d]
      /\ pc'[c] # "get"
  BY DEF FinishPut, PutReturn, Goto, At, MailInv, Typed, TypeOK
<1>2. PICK e \in EvQs : evq[c] = e /\ c \in Users(e)
  BY <1>1 DEF MailInv, Typed, CallsAreUsers, InCall
<1>3. PICK a \in Actors : a = got[c]
  BY DEF MailInv, Typed, TypeOK
<1>4. PICK m \in Msgs : m = arg[c]
  BY <1>1 DEF MailInv, Typed, TypeOK, CallsAreUsers
<1>5. Inboxes' = [Inboxes EXCEPT ![a] = m]
  BY <1>1, <1>3, <1>4, HandedOver DEF MailInv
<1>6. Boxes' = Boxes
  BY <1>1, BoxesKept
<1>7. InPutMsg(e) = {c} /\ InPutMsg(e)' = {}
  <2>1. \A d \in Contexts \ {c} : d \notin InPutMsg(e)
    BY <1>1, <1>2, OnlyCaller
  <2> QED BY <1>1, <1>2, <2>1 DEF InPutMsg
<1>8. actQ[e] \in Seq(Actors) /\ actQ'[e] = actQ[e]
  BY <1>1 DEF MailInv, Typed, TypeOK
<1>9. WaitOf(e) = <<a>> \o actQ[e]
  <2>1. InHand({c}, got) \o actQ[e] = <<got[c]>> \o actQ[e]
    BY <1>8, Fronts
  <2> QED BY <1>3, <1>7, <2>1 DEF WaitOf
<1>10. WaitOf(e)' = actQ[e]
  <2>1. WaitOf(e)' = InHand({}, got') \o actQ[e]
    BY <1>7, <1>8 DEF WaitOf
  <2> QED BY <1>8, <2>1, Fronts
<1>11. WaitOf(e) # <<>> /\ Head(WaitOf(e)) = a /\ Tail(WaitOf(e)) = actQ[e]
  BY <1>8, <1>9, InFront
<1>12. \A f \in EvQs \ {e} : WaitOf(f)' = WaitOf(f)
  BY <1>1, <1>2, WaitKept
<1>13. Waits' = [Waits EXCEPT ![e] = Tail(@)]
  BY <1>10, <1>11, <1>12 DEF Waits
<1>14. Waits[e] # <<>> /\ Head(Waits[e]) = a
  BY <1>11 DEF Waits
<1> QED BY <1>5, <1>6, <1>13, <1>14, MailboxPut

(* PutMsg has found no actor: none has come meanwhile, and the message is  *)
(* queued, or dropped by PutMsgAwaited.                                    *)
LEMMA PutDeposits ==
  ASSUME MailInv, OnePriorities, NEW c \in Contexts, FinishPut(c), got[c] = NIL
  PROVE  Mailbox!Next \/ Mails' = Mails
<1>1. /\ pc[c] = "hand" /\ MostUrgent(c)
      /\ UNCHANGED <<actQ, actMsg, rdyQ>>
      /\ \A d \in Contexts : got'[d] = got[d]
      /\ \A d \in Contexts \ {c} : pc'[d] = pc[d] /\ evq'[d] = evq[d] /\ arg'[d] = arg[d]
      /\ pc'[c] # "get"
  BY DEF FinishPut, PutReturn, Goto, At, MailInv, Typed, TypeOK
<1>2. PICK e \in EvQs : evq[c] = e /\ c \in Users(e)
  BY <1>1 DEF MailInv, Typed, CallsAreUsers, InCall
<1>3. PICK m \in Msgs : m = arg[c]
  BY <1>1 DEF MailInv, Typed, TypeOK, CallsAreUsers
<1>4. \A d \in Contexts : d \notin InGetMsg(e) /\ d \notin InPutMsg(e)
  <2>1. \A d \in Contexts \ {c} : d \notin InGetMsg(e) /\ d \notin InPutMsg(e)
    BY <1>1, <1>2, OnlyCaller
  <2> QED BY <1>1, <2>1 DEF InGetMsg, InPutMsg
<1>5. InGetMsg(e) = {} /\ InPutMsg(e) = {} /\ InGetMsg(e)' = {}
  <2>1. InGetMsg(e) = {} /\ InPutMsg(e) = {}
    BY <1>4 DEF InGetMsg, InPutMsg
  <2>2. InGetMsg(e)' = {}
    BY <1>1, <2>1 DEF InGetMsg
  <2> QED BY <2>1, <2>2
<1>6. Waits' = Waits
  <2>1. \A d \in Contexts :
          \/ evq'[d] = evq[d] /\ got'[d] = got[d]
          \/ got[d] = NIL /\ got'[d] = NIL
    BY <1>1
  <2> QED BY <1>1, <2>1, WaitsKept
<1>7. Inboxes' = Inboxes
  BY <1>1, InboxesKept
<1>8. Waits[e] = <<>>
  <2>1. OnePriority(e)
    BY DEF OnePriorities
  <2>2. actQ[e] = <<>>
    BY <1>1, <1>2, <2>1 DEF MailInv, StillEmpty, InCall
  <2>3. WaitOf(e) = InHand({}, got) \o actQ[e]
    BY <1>5 DEF WaitOf
  <2>4. actQ[e] \in Seq(Actors)
    BY DEF MailInv, Typed, TypeOK
  <2>5. WaitOf(e) = actQ[e]
    BY <2>3, <2>4, Fronts
  <2> QED BY <2>2, <2>5 DEF Waits
<1>9. \A f \in EvQs \ {e} : msgQ'[f] = msgQ[f] => BoxOf(f)' = BoxOf(f)
  BY <1>1, <1>2, BoxKept
<1>10. CASE Deposit(c)
  <2>1. \A f \in EvQs : msgQ'[f] = IF f = e THEN Append(msgQ[e], m) ELSE msgQ[f]
    BY <1>2, <1>3, <1>10 DEF Deposit, PutToMsgQ, MailInv, Typed, TypeOK
  <2>2. msgQ[e] \in Seq(Msgs) /\ Append(msgQ[e], m) \in Seq(Msgs)
    BY DEF MailInv, Typed, TypeOK
  <2>3. BoxOf(e) = msgQ[e]
    <3>1. BoxOf(e) = InHand({}, arg) \o msgQ[e]
      BY <1>5 DEF BoxOf
    <3> QED BY <2>2, <3>1, Fronts
  <2>4. BoxOf(e)' = Append(msgQ[e], m)
    <3>1. BoxOf(e)' = InHand({}, arg') \o msgQ'[e]
      BY <1>5 DEF BoxOf
    <3>2. msgQ'[e] = Append(msgQ[e], m)
      BY <2>1
    <3>3. InHand({}, arg') \o Append(msgQ[e], m) = Append(msgQ[e], m)
      BY <2>2, Fronts
    <3> QED BY <3>1, <3>2, <3>3
  <2>5. \A f \in EvQs \ {e} : BoxOf(f)' = BoxOf(f)
    BY <1>9, <2>1
  <2>6. Boxes' = [Boxes EXCEPT ![e] = Append(@, m)]
    BY <2>3, <2>4, <2>5 DEF Boxes
  <2> QED BY <1>6, <1>7, <1>8, <2>6, MailboxPut
<1>11. CASE Drop(c)
  <2>1. Boxes' = Boxes
    <3>1. msgQ' = msgQ
      BY <1>11 DEF Drop
    <3> QED BY <1>1, <3>1, BoxesKept
  <2> QED BY <1>6, <1>7, <2>1 DEF Mails
<1> QED BY <1>10, <1>11 DEF FinishPut

(* The actor in hand serves the queue of its GetMsg, and waits nowhere.    *)
LEMMA GetterRuns ==
  ASSUME MailInv, NEW r \in RdyQs, pc[r] = "get"
  PROVE  /\ r \in Contexts /\ cur[r] \in Actors
         /\ evq[r] = Serves[cur[r]] /\ Serves[cur[r]] \in EvQs /\ r \in Users(evq[r])
         /\ InboxOf(cur[r]) = NIL
         /\ \A e \in EvQs : cur[r] \notin Range(actQ[e])
<1>1. r \in Contexts
  BY DEF Contexts
<1>2. cur[r] \in Actors
  BY <1>1 DEF MailInv, Typed, TypeOK, ActorsAtHome, HasActor
<1>3. Serves[cur[r]] \in EvQs /\ RdyQOf[cur[r]] \in RdyQs
  BY <1>2, ConfigAssumption
<1>4. PICK spot : ActorsAt(spot)
  BY DEF MailInv, ActorsLocated
<1>5. spot[cur[r]] = <<"running", r>>
  BY <1>1, <1>2, <1>4 DEF ActorsAt
<1>6. cur[r] \notin Range(rdyQ[RdyQOf[cur[r]]]) /\ \A e \in EvQs : cur[r] \notin Range(actQ[e])
  BY <1>2, <1>3, <1>4, <1>5 DEF ActorsAt
<1>7. evq[r] = Serves[cur[r]] /\ r \in Users(evq[r])
  BY <1>1 DEF MailInv, GetsOwn, Typed, CallsAreUsers, InCall
<1> QED BY <1>1, <1>2, <1>3, <1>6, <1>7 DEF InboxOf

(* GetMsg has taken a message: it gives it to the actor.                   *)
LEMMA GetGives ==
  ASSUME MailInv, OnePriorities, NEW r \in RdyQs, FinishGet(r), arg[r] # NIL
  PROVE  Mailbox!Next
<1>1. /\ pc[r] = "get" /\ MostUrgent(r) /\ r \in Contexts
      /\ HandOver(cur[r], arg[r]) /\ UNCHANGED <<msgQ, actQ, got>>
      /\ \A d \in Contexts \ {r} : pc'[d] = pc[d] /\ evq'[d] = evq[d] /\ arg'[d] = arg[d]
      /\ pc'[r] # "get" /\ got[r] = NIL
  BY DEF FinishGet, Goto, At, MailInv, Typed, TypeOK, Contexts, Locals
<1>2. PICK a \in Actors : a = cur[r]
  BY <1>1, GetterRuns
<1>3. PICK e \in EvQs : e = evq[r] /\ e = Serves[a] /\ r \in Users(e)
  BY <1>1, <1>2, GetterRuns
<1>4. PICK m \in Msgs : m = arg[r]
  BY <1>1 DEF MailInv, Typed, TypeOK
<1>5. \A d \in Contexts \ {r} : d \notin InGetMsg(e) /\ d \notin InPutMsg(e)
  BY <1>1, <1>3, OnlyCaller
<1>6. InGetMsg(e) = {r} /\ InGetMsg(e)' = {} /\ InPutMsg(e) = {}
  <2>1. InGetMsg(e) = {r}
    BY <1>1, <1>3, <1>5 DEF InGetMsg
  <2>2. InGetMsg(e)' = {}
    BY <1>1, <1>5 DEF InGetMsg
  <2>3. InPutMsg(e) = {}
    BY <1>1, <1>5 DEF InPutMsg
  <2> QED BY <2>1, <2>2, <2>3
<1>7. Inboxes' = [Inboxes EXCEPT ![a] = m]
  BY <1>1, <1>2, <1>4, HandedOver DEF MailInv
<1>8. Waits' = Waits
  <2>1. \A d \in Contexts :
          \/ evq'[d] = evq[d] /\ got'[d] = got[d]
          \/ got[d] = NIL /\ got'[d] = NIL
    BY <1>1
  <2> QED BY <1>1, <2>1, WaitsKept
<1>9. msgQ[e] \in Seq(Msgs) /\ msgQ'[e] = msgQ[e]
  BY <1>1 DEF MailInv, Typed, TypeOK
<1>10. BoxOf(e) = <<m>> \o msgQ[e]
  <2>1. InHand({r}, arg) \o msgQ[e] = <<arg[r]>> \o msgQ[e]
    BY <1>9, Fronts
  <2> QED BY <1>4, <1>6, <2>1 DEF BoxOf
<1>11. BoxOf(e)' = msgQ[e]
  <2>1. BoxOf(e)' = InHand({}, arg') \o msgQ[e]
    BY <1>6, <1>9 DEF BoxOf
  <2> QED BY <1>9, <2>1, Fronts
<1>12. BoxOf(e) # <<>> /\ Head(BoxOf(e)) = m /\ Tail(BoxOf(e)) = msgQ[e]
  BY <1>9, <1>10, InFront
<1>13. \A f \in EvQs \ {e} : BoxOf(f)' = BoxOf(f)
  BY <1>1, <1>3, BoxKept
<1>14. Boxes' = [Boxes EXCEPT ![e] = Tail(@)]
  BY <1>11, <1>12, <1>13 DEF Boxes
<1>15. Boxes[e] # <<>> /\ Head(Boxes[e]) = m
  BY <1>12 DEF Boxes
<1>16. Inboxes[a] = NIL /\ a \notin Range(Waits[e])
  <2>1. WaitOf(e) = InHand({}, got) \o actQ[e]
    BY <1>6 DEF WaitOf
  <2>2. actQ[e] \in Seq(Actors)
    BY DEF MailInv, Typed, TypeOK
  <2>3. WaitOf(e) = actQ[e]
    BY <2>1, <2>2, Fronts
  <2> QED BY <1>1, <1>2, <2>3, GetterRuns DEF Waits, Inboxes
<1> QED BY <1>3, <1>7, <1>8, <1>14, <1>15, <1>16, MailboxGet

(* GetMsg has found no message: none has come meanwhile, and the actor     *)
(* waits.                                                                  *)
LEMMA GetWaits ==
  ASSUME MailInv, OnePriorities, NEW r \in RdyQs, FinishGet(r), arg[r] = NIL
  PROVE  Mailbox!Next
<1>1. /\ pc[r] = "get" /\ MostUrgent(r) /\ r \in Contexts
      /\ PutToActQ(evq[r], cur[r]) /\ UNCHANGED <<msgQ, actMsg, rdyQ, got>>
      /\ \A d \in Contexts : arg'[d] = arg[d]
      /\ \A d \in Contexts \ {r} : pc'[d] = pc[d] /\ evq'[d] = evq[d]
      /\ pc'[r] # "get" /\ got[r] = NIL
  BY DEF FinishGet, Goto, At, MailInv, Typed, TypeOK, Contexts, Locals
<1>2. PICK a \in Actors : a = cur[r]
  BY <1>1, GetterRuns
<1>3. PICK e \in EvQs : e = evq[r] /\ e = Serves[a] /\ r \in Users(e)
  BY <1>1, <1>2, GetterRuns
<1>4. \A d \in Contexts : d \notin InGetMsg(e) /\ d \notin InPutMsg(e)
  <2>1. \A d \in Contexts \ {r} : d \notin InGetMsg(e) /\ d \notin InPutMsg(e)
    BY <1>1, <1>3, OnlyCaller
  <2> QED BY <1>1, <2>1 DEF InGetMsg, InPutMsg
<1>5. InGetMsg(e) = {} /\ InPutMsg(e) = {} /\ InPutMsg(e)' = {}
  <2>1. InGetMsg(e) = {} /\ InPutMsg(e) = {}
    BY <1>4 DEF InGetMsg, InPutMsg
  <2>2. InPutMsg(e)' = {}
    BY <1>1, <2>1 DEF InPutMsg
  <2> QED BY <2>1, <2>2
<1>6. Boxes' = Boxes
  <2>1. \A f \in EvQs : BoxOf(f)' = BoxOf(f)
    <3>1. \A f \in EvQs : \A d \in Contexts :
            \/ evq'[d] = evq[d] /\ pc'[d] = pc[d] /\ arg'[d] = arg[d]
            \/ /\ ~(evq[d] = f /\ pc[d] = "get" /\ arg[d] # NIL)
               /\ ~(evq'[d] = f /\ pc'[d] = "get" /\ arg'[d] # NIL)
      BY <1>1
    <3> QED BY <1>1, <3>1, BoxKept
  <2> QED BY <2>1 DEF Boxes
<1>7. Inboxes' = Inboxes
  BY <1>1, InboxesKept
<1>8. Boxes[e] = <<>>
  <2>1. OnePriority(e)
    BY DEF OnePriorities
  <2>2. msgQ[e] = <<>>
    BY <1>1, <1>3, <2>1 DEF MailInv, StillEmpty, InCall
  <2>3. BoxOf(e) = InHand({}, arg) \o msgQ[e]
    BY <1>5 DEF BoxOf
  <2>4. msgQ[e] \in Seq(Msgs)
    BY DEF MailInv, Typed, TypeOK
  <2>5. BoxOf(e) = msgQ[e]
    BY <2>3, <2>4, Fronts
  <2> QED BY <2>2, <2>5 DEF Boxes
<1>9. \A f \in EvQs : actQ'[f] = IF f = e THEN Append(actQ[e], a) ELSE actQ[f]
  BY <1>1, <1>2, <1>3 DEF PutToActQ, MailInv, Typed, TypeOK
<1>10. actQ[e] \in Seq(Actors) /\ Append(actQ[e], a) \in Seq(Actors)
  BY DEF MailInv, Typed, TypeOK
<1>11. WaitOf(e) = actQ[e]
  <2>1. WaitOf(e) = InHand({}, got) \o actQ[e]
    BY <1>5 DEF WaitOf
  <2> QED BY <1>10, <2>1, Fronts
<1>12. WaitOf(e)' = Append(actQ[e], a)
  <2>1. WaitOf(e)' = InHand({}, got') \o actQ'[e]
    BY <1>5 DEF WaitOf
  <2>2. actQ'[e] = Append(actQ[e], a)
    BY <1>9
  <2>3. InHand({}, got') \o Append(actQ[e], a) = Append(actQ[e], a)
    BY <1>10, Fronts
  <2> QED BY <2>1, <2>2, <2>3
<1>13. \A f \in EvQs \ {e} : WaitOf(f)' = WaitOf(f)
  <2>1. \A d \in Contexts :
          \/ evq'[d] = evq[d] /\ got'[d] = got[d]
          \/ got[d] = NIL /\ got'[d] = NIL
    BY <1>1
  <2> QED BY <1>9, <2>1, WaitKept
<1>14. Waits' = [Waits EXCEPT ![e] = Append(@, a)]
  BY <1>11, <1>12, <1>13 DEF Waits
<1>15. Inboxes[a] = NIL /\ a \notin Range(Waits[e])
  BY <1>1, <1>2, <1>11, GetterRuns DEF Waits, Inboxes
<1> QED BY <1>3, <1>6, <1>7, <1>8, <1>14, <1>15, MailboxGet

-----------------------------------------------------------------------------
LEMMA GetsOwnStep == Typed /\ GetsOwn /\ [Next]_vars => GetsOwn'
<1> SUFFICES ASSUME Typed, GetsOwn, [Next]_vars, NEW r \in RdyQs, pc'[r] = "get"
             PROVE  evq'[r] = Serves[cur'[r]]
  BY DEF GetsOwn
<1> USE DEF Typed, TypeOK, Contexts
<1>1. CASE pc[r] = "get" /\ evq'[r] = evq[r] /\ cur'[r] = cur[r]
  BY <1>1 DEF GetsOwn
<1>2. ASSUME NEW a \in Actors, RunAct(a) PROVE evq'[r] = Serves[cur'[r]]
  BY <1>1, <1>2 DEF RunAct
<1>3. ASSUME NEW q \in RdyQs, TakeInterrupt(q) \/ FetchActor(q) \/ LeaveHandler(q) \/ Recycle(q)
      PROVE  evq'[r] = Serves[cur'[r]]
  BY <1>1, <1>3 DEF TakeInterrupt, FetchActor, LeaveHandler, Recycle, At, Goto
<1>4. ASSUME NEW q \in RdyQs, TakeMsg(q) PROVE evq'[r] = Serves[cur'[r]]
  <2>1. evq' = [evq EXCEPT ![q] = Serves[cur[q]]] /\ cur' = cur /\ pc' = [pc EXCEPT ![q] = "get"]
    BY <1>4 DEF TakeMsg, Goto
  <2> QED BY <1>1, <2>1
<1>5. ASSUME NEW q \in RdyQs, FinishGet(q) PROVE evq'[r] = Serves[cur'[r]]
  BY <1>1, <1>5 DEF FinishGet, Goto
<1>6. ASSUME NEW q \in RdyQs, NEW e \in EvQs, BeginForward(q, e) PROVE evq'[r] = Serves[cur'[r]]
  BY <1>1, <1>6 DEF BeginForward, Goto
<1>7. ASSUME NEW p \in Producers, BeginProduce(p) PROVE evq'[r] = Serves[cur'[r]]
  BY <1>1, <1>7, ConfigAssumption DEF BeginProduce, Goto
<1>8. ASSUME NEW c \in Contexts, TakeWaiting(c) PROVE evq'[r] = Serves[cur'[r]]
  BY <1>1, <1>8 DEF TakeWaiting, Goto
<1>9. ASSUME NEW c \in Contexts, FinishPut(c) PROVE evq'[r] = Serves[cur'[r]]
  BY <1>1, <1>9 DEF FinishPut, PutReturn, Goto
<1>10. CASE UNCHANGED vars
  BY <1>1, <1>10 DEF vars
<1> QED BY <1>2, <1>3, <1>4, <1>5, <1>6, <1>7, <1>8, <1>9, <1>10 DEF Next, RunQueueStep, PutStep

LEMMA MailboxInit == Init => Mailbox!Init /\ GetsOwn
<1> SUFFICES ASSUME Init PROVE Mailbox!Init /\ GetsOwn
  OBVIOUS
<1>1. \A e \in EvQs : InGetMsg(e) = {} /\ InPutMsg(e) = {} /\ msgQ[e] = <<>> /\ actQ[e] = <<>>
  BY DEF Init, InGetMsg, InPutMsg
<1>2. \A e \in EvQs : BoxOf(e) = <<>> /\ WaitOf(e) = <<>>
  BY <1>1 DEF BoxOf, WaitOf, InHand
<1>3. \A a \in Actors : InboxOf(a) = NIL
  BY DEF Init, InboxOf
<1>4. /\ Boxes = [e \in EvQs |-> <<>>] /\ Waits = [e \in EvQs |-> <<>>]
      /\ Inboxes = [a \in Actors |-> NIL]
  BY <1>2, <1>3 DEF Boxes, Waits, Inboxes
<1>5. Mailbox!Init
  BY <1>4, Zenon DEF Mailbox!Init, Inboxes, InboxOf, Boxes, BoxOf, Waits, WaitOf
<1>6. GetsOwn
  BY DEF Init, GetsOwn, Contexts
<1> QED BY <1>5, <1>6

LEMMA MailboxStep ==
  MailInv /\ OnePriorities /\ [Next]_vars => [Mailbox!Next]_(Mailbox!vars)
<1> SUFFICES ASSUME MailInv, OnePriorities, [Next]_vars
             PROVE  Mailbox!Next \/ UNCHANGED Mailbox!vars
  OBVIOUS
<1>1. CASE Mails' = Mails
  <2>1. UNCHANGED Mailbox!vars
    BY <1>1, Zenon DEF Mails, Mailbox!vars, Inboxes, InboxOf, Boxes, BoxOf, Waits, WaitOf
  <2> QED BY <2>1
<1>2. CASE UNCHANGED vars
  <2>1. UNCHANGED <<msgQ, actQ, rdyQ, actMsg, evq, arg, got, pc>>
    BY <1>2 DEF vars
  <2>2. Boxes' = Boxes
    BY <2>1, BoxesKept
  <2>3. Waits' = Waits
    BY <2>1, WaitsKept
  <2>4. Inboxes' = Inboxes
    BY <2>1, InboxesKept
  <2> QED BY <1>1, <2>2, <2>3, <2>4 DEF Mails
<1>3. ASSUME NEW c \in Contexts, FinishPut(c) PROVE Mailbox!Next \/ Mails' = Mails
  BY <1>3, PutGives, PutDeposits
<1>4. ASSUME NEW r \in RdyQs, FinishGet(r) PROVE Mailbox!Next
  BY <1>4, GetGives, GetWaits
<1>5. ASSUME NEW r \in RdyQs, RunQueueStep(r) PROVE Mailbox!Next \/ Mails' = Mails
  BY <1>4, <1>5, UnseenSteps, FetchSeen, TakeMsgUnseen DEF RunQueueStep
<1>6. ASSUME NEW c \in Contexts, PutStep(c) PROVE Mailbox!Next \/ Mails' = Mails
  BY <1>3, <1>6, TakeWaitingUnseen DEF PutStep
<1> QED BY <1>1, <1>2, <1>5, <1>6, RunActUnseen, BeginPutUnseen DEF Next

(* When the users of each event queue have one priority, every step of     *)
(* PutMsg, PutMsgAwaited, GetMsg and RunQueue is a step of Mailboxes or no *)
(* step of it: a message goes to the actor that waits longest, each        *)
(* message to one actor, and no actor waits while a message does, whatever *)
(* the numbers of queues, actors, messages and producers.                  *)
THEOREM MailboxesImplemented ==
  ASSUME OnePriorities
  PROVE  Spec => ImplementsMailboxes
<1>1. MailInv /\ [Next]_vars => [Mailbox!Next]_(Mailbox!vars)
  BY MailboxStep
<1>2. Typed /\ Locals /\ Fresh /\ ActorsLocated /\ StillEmpty /\ GetsOwn => MailInv
  BY DEF MailInv
<1>3. Spec => [](Typed /\ Locals /\ Fresh /\ ActorsLocated)
  BY TypedAlways, LocalsInit, LocalsStep, ActorsInit, ActorsStep, FreshStep, PTL DEF Spec
<1>4. Spec => []StillEmpty
  BY TypedAlways, WakeupInit, WakeupStep, PTL DEF Spec
<1>5. Spec => []GetsOwn
  BY TypedAlways, MailboxInit, GetsOwnStep, PTL DEF Spec
<1>6. Spec => []MailInv
  BY <1>2, <1>3, <1>4, <1>5, PTL
<1> QED BY <1>1, <1>6, MailboxInit, PTL DEF Spec, ImplementsMailboxes, Mailbox!Spec
=============================================================================
