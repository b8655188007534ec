------------------------------- MODULE ListsV4 --------------------------------
(***************************************************************************)
(* The linked lists of kernel-v4/Kernel.mod: ready queues, actor queues    *)
(* and message queues, which are one program text on records of different  *)
(* types, and message pools.  An actor or a message has one link field,    *)
(* next, for all of them.                                                  *)
(*                                                                         *)
(* Each procedure is a critical section and one step.  KernelV4 has        *)
(* sequences in place of the lists, and shows what is assumed here of the  *)
(* callers: an item is put only by who has got it.                         *)
(***************************************************************************)
EXTENDS Integers, Sequences, Functions

CONSTANTS
  Items,     \* actors or messages
  Queues,    \* ready queues, actor queues, message queues
  Pools,     \* message pools
  PoolStart, \* the messages that NewMsgPool has made for each pool, head first
  NoItem     \* NIL

PoolItems(p) == Range(PoolStart[p])

ASSUME ListsAssumption ==
  /\ Queues \cap Pools = {}
  /\ NoItem \notin Items
  /\ PoolStart \in [Pools -> Seq(Items)]
  /\ \A p \in Pools : IsInjective(PoolStart[p])
  /\ \A p, q \in Pools : p # q => PoolItems(p) \cap PoolItems(q) = {}

VARIABLES
  head,     \* head of each queue and pool
  tail,     \* tail of each queue
  link,     \* next of each item
  poolCnt,  \* cnt of each pool
  loose,    \* the items that somebody has got: those in no list
  contents  \* history: what is in each list, by the calls that there have been

listVars == <<head, tail, link, poolCnt, loose, contents>>

First(s) == IF s = <<>> THEN NoItem ELSE s[1]

(* NewRdyQ, NewActQ and NewMsgQ leave empty queues; NewMsgPool links each  *)
(* message to the one made before it, the first one to mp.head as NEW has  *)
(* left it, which is taken to be NIL.                                      *)
ListsInit ==
  /\ contents = [l \in Queues \cup Pools |-> IF l \in Pools THEN PoolStart[l] ELSE <<>>]
  /\ head = [l \in Queues \cup Pools |-> First(contents[l])]
  /\ tail = [q \in Queues |-> NoItem]
  /\ link \in [Items -> Items \cup {NoItem}]
  /\ \A p \in Pools : \A i \in DOMAIN PoolStart[p] :
       link[PoolStart[p][i]] = IF i = Len(PoolStart[p]) THEN NoItem ELSE PoolStart[p][i + 1]
  /\ poolCnt = [p \in Pools |-> Len(PoolStart[p])]
  /\ loose = {x \in Items : \A p \in Pools : x \notin PoolItems(p)}

-----------------------------------------------------------------------------
\* Mutant of PutToQ: the item keeps its link
PutToQ_KeepsLink(q, x) ==
  /\ x \in loose
  /\ head' = [head EXCEPT ![q] = IF @ = NoItem THEN x ELSE @]
  /\ link' = [y \in Items |-> IF head[q] # NoItem /\ y = tail[q] THEN x ELSE link[y]]
  /\ tail' = [tail EXCEPT ![q] = x]
  /\ loose' = loose \ {x}
  /\ contents' = [contents EXCEPT ![q] = Append(@, x)]
  /\ UNCHANGED poolCnt

\* PutToRdyQ, PutToActQ, PutToMsgQ
PutToQ(q, x) ==
  /\ x \in loose
  /\ head' = [head EXCEPT ![q] = IF @ = NoItem THEN x ELSE @]
  /\ link' = [y \in Items |-> IF y = x THEN NoItem
                              ELSE IF head[q] # NoItem /\ y = tail[q] THEN x
                              ELSE link[y]]
  /\ tail' = [tail EXCEPT ![q] = x]
  /\ loose' = loose \ {x}
  /\ contents' = [contents EXCEPT ![q] = Append(@, x)]
  /\ UNCHANGED poolCnt

\* GetFromRdyQ, GetFromActQ, GetFromMsgQ: tail and the link stay as they are
GetFromQ(q) ==
  /\ head[q] # NoItem
  /\ head' = [head EXCEPT ![q] = link[@]]
  /\ loose' = loose \cup {head[q]}
  /\ contents' = [contents EXCEPT ![q] = Tail(@)]
  /\ UNCHANGED <<tail, link, poolCnt>>

\* PutToMsgPool; p is the pool of the message, x.pool
PutToPool(p, x) ==
  /\ x \in loose
  /\ x \in PoolItems(p)
  /\ link' = [link EXCEPT ![x] = head[p]]
  /\ head' = [head EXCEPT ![p] = x]
  /\ poolCnt' = [poolCnt EXCEPT ![p] = @ + 1]
  /\ loose' = loose \ {x}
  /\ contents' = [contents EXCEPT ![p] = <<x>> \o @]
  /\ UNCHANGED tail

GetFromPool(p) ==
  /\ head[p] # NoItem
  /\ head' = [head EXCEPT ![p] = link[@]]
  /\ poolCnt' = [poolCnt EXCEPT ![p] = @ - 1]
  /\ loose' = loose \cup {head[p]}
  /\ contents' = [contents EXCEPT ![p] = Tail(@)]
  /\ UNCHANGED <<tail, link>>

ListsNext ==
  \/ \E q \in Queues, x \in Items : PutToQ(q, x)
  \/ \E q \in Queues : GetFromQ(q)
  \/ \E p \in Pools, x \in Items : PutToPool(p, x)
  \/ \E p \in Pools : GetFromPool(p)

ListsSpec == ListsInit /\ [][ListsNext]_listVars

-----------------------------------------------------------------------------
\* The list from h by next is s, and ends there
Linked(h, s) ==
  /\ h = First(s)
  /\ \A i \in DOMAIN s : link[s[i]] = IF i = Len(s) THEN NoItem ELSE s[i + 1]

(* The lists are first-in first-out queues, and a pool a stack, although   *)
(* tail and next are left stale by the procedures that take an item: from  *)
(* head, by next, one gets to what has been put and not taken, in order,   *)
(* and no further; tail is the last of them, if there are any.             *)
ListsAreQueues ==
  /\ \A l \in Queues \cup Pools : Linked(head[l], contents[l])
  /\ \A q \in Queues : contents[q] # <<>> => tail[q] = contents[q][Len(contents[q])]

(* What somebody has got is in no list, and every other item in one list,  *)
(* once; so who gets an item is the only one to have it.                   *)
ItemsApart ==
  \A x \in Items :
    \/ x \in loose /\ \A l \in Queues \cup Pools : x \notin Range(contents[l])
    \/ /\ x \notin loose
       /\ \E l \in Queues \cup Pools :
            /\ \E i \in DOMAIN contents[l] : {j \in DOMAIN contents[l] : contents[l][j] = x} = {i}
            /\ \A k \in (Queues \cup Pools) \ {l} : x \notin Range(contents[k])

\* A pool holds none but its own messages, as many as it counts.
PoolsCount ==
  \A p \in Pools : poolCnt[p] = Len(contents[p]) /\ Range(contents[p]) \subseteq PoolItems(p)

ListsSound == ListsAreQueues /\ ItemsApart /\ PoolsCount
=============================================================================
