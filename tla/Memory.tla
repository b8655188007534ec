------------------------------- MODULE Memory -------------------------------
(***************************************************************************)
(* Dynamic memory of one core (Memory.mod): a heap that grows upwards from *)
(* HeapStart, for records and their type tags, and thread stacks that are  *)
(* allocated downwards below the main stack.  Each core has its own heap   *)
(* and stacks.  Addresses and sizes count words.                           *)
(***************************************************************************)
EXTENDS Integers

CONSTANTS
  HeapStart,     \* MemMap.HeapMem.start
  HeapLimits,    \* possible values of MemMap.HeapMem.limit, 0 for none
  StackStart,    \* MemMap.StackMem.start, where the main stack begins
  MainStackSize, \* default size of the main stack
  MainSizes,     \* arguments of SetMainStackSize
  RecSizes,      \* sizes of the records of NEW
  StackSizes,    \* sizes of thread stacks and of the stack of the scheduler
  Checks         \* arguments of EnableStackCheck

ASSUME LayoutAssumption ==
  /\ HeapStart \in Nat \ {0}
  /\ StackStart \in Nat
  /\ MainStackSize \in Nat
  /\ HeapStart <= StackStart - MainStackSize
  /\ HeapLimits \subseteq Nat
  /\ \A lim \in HeapLimits :
       (lim # 0 => HeapStart <= lim) /\ lim <= StackStart - MainStackSize
  /\ MainSizes \subseteq Nat
  /\ RecSizes \subseteq Nat \ {0}
  /\ StackSizes \subseteq Nat \ {0}
  /\ Checks \subseteq BOOLEAN

VARIABLES
  heapTop,      \* heaps[cid].heapTop
  heapLimit,    \* heaps[cid].heapLimit
  stacksBottom, \* stacks[cid].stacksBottom
  stackCheck,   \* stacks[cid].stackCheckEnabled
  mainLimit,    \* the lowest word of the main stack
  recs,         \* the live records
  stacks,       \* the allocated stacks
  sealed        \* the words that hold the value StackSeal

heap == <<heapTop, heapLimit, recs>>
memoryVars == <<heap, stacksBottom, stackCheck, mainLimit, stacks, sealed>>

WordsOf(a) == a.addr .. (a.addr + a.size - 1)

MemoryInit ==
  /\ heapTop = HeapStart
  /\ heapLimit \in HeapLimits
  /\ stacksBottom = StackStart - MainStackSize
  /\ stackCheck = FALSE
  /\ mainLimit = StackStart - MainStackSize
  /\ recs = {}
  /\ stacks = {}
  /\ sealed = {StackStart}

-----------------------------------------------------------------------------
(* Heap.  With no room left the procedures return NIL and change nothing.  *)

\* Mutant of AllocLimit: the stacks are not looked at
AllocLimit_Main == IF heapLimit = 0 THEN mainLimit ELSE heapLimit

AllocLimit == IF heapLimit = 0 THEN stacksBottom ELSE heapLimit

\* The word before the record takes the type tag
Allocate(size) ==
  /\ heapTop + 1 + size <= AllocLimit
  /\ heapTop' = heapTop + 1 + size
  /\ recs' = recs \cup {[addr |-> heapTop + 1, size |-> size]}
  /\ sealed' = sealed \ (heapTop .. (heapTop + size))
  /\ UNCHANGED <<heapLimit, stacksBottom, stackCheck, mainLimit, stacks>>

\* Only the most recent allocation is reclaimed
Deallocate(r) ==
  /\ recs' = recs \ {r}
  /\ \/ heapTop - r.size = r.addr /\ heapTop' = r.addr - 1
     \/ heapTop - r.size # r.addr /\ UNCHANGED heapTop
  /\ UNCHANGED <<heapLimit, stacksBottom, stackCheck, mainLimit, stacks, sealed>>

LockHeaps ==
  /\ heapLimit' = heapTop
  /\ UNCHANGED <<heapTop, recs, stacksBottom, stackCheck, mainLimit, stacks, sealed>>

-----------------------------------------------------------------------------
(* Stacks                                                                  *)

StackLimit == IF heapLimit = 0 THEN heapTop ELSE heapLimit

\* Mutant of AllocStack: the seal is written after stacksBottom has been moved
AllocStack_SealBelow(size) ==
  /\ stacksBottom - size > StackLimit
  /\ stacksBottom' = stacksBottom - size
  /\ stacks' = stacks \cup {[addr |-> stacksBottom', size |-> size]}
  /\ sealed' = sealed \cup {stacksBottom' - 1}
  /\ UNCHANGED <<heap, stackCheck, mainLimit>>

\* AllocThreadStack and AllocLoopStack: allocStack, then the check pattern
AllocStack(size) ==
  LET s == [addr |-> stacksBottom - size, size |-> size] IN
    /\ stacksBottom - size > StackLimit
    /\ stacksBottom' = s.addr
    /\ stacks' = stacks \cup {s}
    /\ \/ ~stackCheck /\ sealed' = sealed \cup {stacksBottom - 1}
       \/ stackCheck /\ sealed' = (sealed \cup {stacksBottom - 1}) \ WordsOf(s)
    /\ UNCHANGED <<heap, stackCheck, mainLimit>>

EnableStackCheck(on) ==
  /\ stackCheck' = on
  /\ UNCHANGED <<heap, stacksBottom, mainLimit, stacks, sealed>>

\* "must be used before Kernel.Install", which allocates the first stack, and
\* with a size that leaves what the heap has allocated alone
SetMainStackSize(size) ==
  /\ stacks = {}
  /\ heapTop <= StackStart - size
  /\ heapLimit <= StackStart - size
  /\ stacksBottom' = StackStart - size
  /\ mainLimit' = StackStart - size
  /\ UNCHANGED <<heap, stackCheck, stacks, sealed>>

-----------------------------------------------------------------------------
MemoryNext ==
  \/ \E n \in RecSizes : Allocate(n)
  \/ \E r \in recs : Deallocate(r)
  \/ LockHeaps
  \/ \E n \in StackSizes : AllocStack(n)
  \/ \E on \in Checks : EnableStackCheck(on)
  \/ \E n \in MainSizes : SetMainStackSize(n)

MemorySpec == MemoryInit /\ [][MemoryNext]_memoryVars

-----------------------------------------------------------------------------
AreaSet == [addr : Nat, size : Nat \ {0}]

MemoryTypeOK ==
  /\ heapTop \in Nat
  /\ heapLimit \in Nat
  /\ stacksBottom \in Nat
  /\ stackCheck \in BOOLEAN
  /\ mainLimit \in Nat
  /\ recs \subseteq AreaSet
  /\ stacks \subseteq AreaSet
  /\ sealed \subseteq Nat

Apart(a, b) == a.addr + a.size <= b.addr \/ b.addr + b.size <= a.addr
TagsApart(a, b) == a.addr + a.size < b.addr \/ b.addr + b.size < a.addr

(* No two live records, with their type tags, and no two stacks share a    *)
(* word, records stay below all stacks, and stacks below the main stack:   *)
(* whatever the order of NEW, DISPOSE, LockHeaps and stack allocations,    *)
(* and with either limit of the heap.                                      *)
Disjoint ==
  /\ \A a, b \in recs : a # b => TagsApart(a, b)
  /\ \A a, b \in stacks : a # b => Apart(a, b)
  /\ \A a \in recs, b \in stacks : a.addr + a.size <= b.addr
  /\ \A a \in recs : HeapStart < a.addr /\ a.addr + a.size <= mainLimit
  /\ \A b \in stacks : b.addr + b.size <= mainLimit

(* The top word of each stack holds the stack seal, which a coroutine      *)
(* skips when it sets up its stack.                                        *)
SealsIntact == \A s \in stacks : s.addr + s.size - 1 \in sealed

-----------------------------------------------------------------------------
(* Why Disjoint holds: the heap ends below the stacks, also when its limit *)
(* is fixed, and every area lies on its side.                              *)
Gap ==
  /\ HeapStart <= heapTop
  /\ heapTop <= stacksBottom
  /\ heapLimit # 0 => heapTop <= heapLimit /\ heapLimit <= stacksBottom
  /\ stacksBottom <= mainLimit
  /\ stacks = {} => stacksBottom = mainLimit

Sides ==
  /\ \A a \in recs : HeapStart < a.addr /\ a.addr + a.size <= heapTop
  /\ \A b \in stacks : stacksBottom <= b.addr /\ b.addr + b.size <= mainLimit

MemoryInv == MemoryTypeOK /\ Gap /\ Sides /\ Disjoint
=============================================================================
