---------------------------- MODULE Devices_proofs ----------------------------
(***************************************************************************)
(* Proofs about five of the components that MC_Devices checks side by      *)
(* side: heap records and stacks of Memory never overlap, the transfers of *)
(* SPIdata lose no byte, the linked lists of ListsV4 are queues and        *)
(* stacks, the alarms of AlarmsV4 fire when they are due, and SemaphoresV4 *)
(* is a lock, first come first served if all have one priority; for all    *)
(* constants.                                                              *)
(***************************************************************************)
EXTENDS Memory, SPIdata, ListsV4, AlarmsV4, SemaphoresV4, QueueLemmas,
        SequenceTheorems, FunctionTheorems, FiniteSetTheorems

-----------------------------------------------------------------------------
(* Memory, for every memory layout and all sizes.                          *)

(* The initial state of the memory satisfies the invariant.                *)
LEMMA MemoryInitially == MemoryInit => MemoryInv
<1> SUFFICES ASSUME MemoryInit PROVE MemoryInv
  OBVIOUS
<1> USE LayoutAssumption DEF LayoutAssumption, MemoryInit
<1>1. MemoryTypeOK
  <2>1. StackStart - MainStackSize \in Nat
    OBVIOUS
  <2>2. stackCheck \in BOOLEAN
    OBVIOUS
  <2>3. sealed \subseteq Nat
    OBVIOUS
  <2> QED BY <2>1, <2>2, <2>3 DEF MemoryTypeOK
<1>2. Gap
  BY DEF Gap
<1>3. Sides /\ Disjoint
  BY DEF Sides, Disjoint
<1> QED BY <1>1, <1>2, <1>3 DEF MemoryInv

(* Every operation keeps the invariant.                                    *)
LEMMA MemoryStep == MemoryInv /\ [MemoryNext]_memoryVars => MemoryInv'
<1> SUFFICES ASSUME MemoryInv, [MemoryNext]_memoryVars PROVE MemoryInv'
  OBVIOUS
<1> USE LayoutAssumption DEF LayoutAssumption, MemoryInv, MemoryTypeOK, AreaSet
<1>1. ASSUME NEW w \in RecSizes, Allocate(w) PROVE MemoryInv'
  <2> DEFINE r == [addr |-> heapTop + 1, size |-> w]
  <2>1. /\ w \in Nat \ {0}
        /\ heapTop' = heapTop + 1 + w
        /\ recs' = recs \cup {r}
        /\ heapTop' <= AllocLimit
        /\ UNCHANGED <<heapLimit, stacksBottom, stackCheck, mainLimit, stacks>>
    BY <1>1 DEF Allocate
  <2>2. r \in AreaSet /\ r.addr = heapTop + 1 /\ r.size = w
    BY <2>1
  <2>3. MemoryTypeOK'
    <3>1. sealed' \subseteq Nat
      BY <1>1 DEF Allocate
    <3>2. heapTop' \in Nat
      BY <2>1
    <3> QED BY <2>1, <2>2, <3>1, <3>2
  <2>4. Gap'
    BY <2>1 DEF Gap, AllocLimit
  <2>5. Sides'
    BY <2>1, <2>2 DEF Sides, Gap
  <2>6. Disjoint'
    <3>1. \A a \in recs : TagsApart(a, r) /\ TagsApart(r, a)
      BY <2>2 DEF Sides, TagsApart
    <3>2. \A a, b \in recs' : a # b => TagsApart(a, b)
      BY <2>1, <3>1 DEF Disjoint
    <3>3. \A b \in stacks : r.addr + r.size <= b.addr
      <4>1. r.addr + r.size <= stacksBottom
        BY <2>1, <2>2, <2>4 DEF Gap
      <4> QED BY <4>1, <2>1, <2>2 DEF Sides
    <3>4. r.addr + r.size <= mainLimit /\ HeapStart < r.addr
      BY <2>1, <2>2, <2>4 DEF Gap
    <3> QED BY <2>1, <3>2, <3>3, <3>4 DEF Disjoint
  <2> QED BY <2>3, <2>4, <2>5, <2>6
<1>2. ASSUME NEW r \in recs, Deallocate(r) PROVE MemoryInv'
  <2>1. /\ recs' \subseteq recs
        /\ UNCHANGED <<heapLimit, stacksBottom, stackCheck, mainLimit, stacks, sealed>>
    BY <1>2 DEF Deallocate
  <2>2. heapTop' \in Nat /\ HeapStart <= heapTop' /\ heapTop' <= heapTop
    BY <1>2 DEF Deallocate, Sides, Gap
  <2>3. Gap'
    BY <2>1, <2>2 DEF Gap
  <2>4. \A a \in recs' : a.addr + a.size <= heapTop'
    <3> SUFFICES ASSUME NEW a \in recs' PROVE a.addr + a.size <= heapTop'
      OBVIOUS
    <3>1. a \in recs /\ a # r
      BY <1>2 DEF Deallocate
    <3>2. CASE heapTop - r.size = r.addr /\ heapTop' = r.addr - 1
      <4>1. TagsApart(a, r) /\ a.addr + a.size <= heapTop
        BY <3>1 DEF Disjoint, Sides
      <4> QED BY <3>1, <3>2, <4>1 DEF TagsApart
    <3>3. CASE UNCHANGED heapTop
      BY <3>1, <3>3 DEF Sides
    <3> QED BY <1>2, <3>2, <3>3 DEF Deallocate
  <2>5. Sides' /\ Disjoint'
    BY <2>1, <2>2, <2>4 DEF Sides, Disjoint, Apart, TagsApart
  <2> QED BY <2>1, <2>2, <2>3, <2>5
<1>3. CASE LockHeaps
  BY <1>3 DEF LockHeaps, Gap, Sides, Disjoint, Apart, TagsApart
<1>4. ASSUME NEW w \in StackSizes, AllocStack(w) PROVE MemoryInv'
  <2> DEFINE s == [addr |-> stacksBottom - w, size |-> w]
  <2>1. /\ w \in Nat \ {0}
        /\ stacksBottom - w > StackLimit
        /\ stacksBottom' = stacksBottom - w
        /\ stacks' = stacks \cup {s}
        /\ UNCHANGED <<heapTop, heapLimit, recs, stackCheck, mainLimit>>
    BY <1>4 DEF AllocStack, heap
  <2>2. stacksBottom' \in Nat /\ s \in AreaSet /\ s.addr = stacksBottom' /\ s.size = w
    BY <2>1 DEF StackLimit
  <2>3. sealed' \subseteq Nat
    <3>1. stacksBottom - 1 \in Nat
      BY <2>1, <2>2
    <3>2. sealed' \subseteq sealed \cup {stacksBottom - 1}
      BY <1>4 DEF AllocStack
    <3> QED BY <3>1, <3>2
  <2>4. Gap'
    <3>1. s \in stacks' /\ stacksBottom' <= mainLimit
      BY <2>1, <2>2 DEF Gap
    <3>2. heapTop <= stacksBottom' /\ (heapLimit # 0 => heapLimit <= stacksBottom')
      BY <2>1, <2>2 DEF StackLimit, Gap
    <3> QED BY <2>1, <3>1, <3>2 DEF Gap
  <2>5. Sides'
    BY <2>1, <2>2 DEF Sides, Gap, heap
  <2>6. Disjoint'
    <3>1. \A b \in stacks : Apart(b, s) /\ Apart(s, b)
      BY <2>1, <2>2 DEF Sides, Apart
    <3>2. \A a, b \in stacks' : a # b => Apart(a, b)
      BY <2>1, <3>1 DEF Disjoint
    <3>3. \A a \in recs : a.addr + a.size <= s.addr
      BY <2>1, <2>2, <2>4 DEF Sides, Gap, heap
    <3>4. s.addr + s.size <= mainLimit
      BY <2>1, <2>2 DEF Gap
    <3> QED BY <2>1, <3>2, <3>3, <3>4 DEF Disjoint, heap
  <2> QED BY <2>1, <2>2, <2>3, <2>4, <2>5, <2>6 DEF heap
<1>5. ASSUME NEW on \in Checks, EnableStackCheck(on) PROVE MemoryInv'
  BY <1>5 DEF EnableStackCheck, heap, Gap, Sides, Disjoint, Apart, TagsApart
<1>6. ASSUME NEW w \in MainSizes, SetMainStackSize(w) PROVE MemoryInv'
  <2>1. /\ w \in Nat
        /\ stacks = {}
        /\ heapTop <= StackStart - w /\ heapLimit <= StackStart - w
        /\ stacksBottom' = StackStart - w /\ mainLimit' = StackStart - w
        /\ UNCHANGED <<heap, stackCheck, stacks, sealed>>
    BY <1>6 DEF SetMainStackSize
  <2>2. MemoryTypeOK' /\ Gap'
    BY <2>1 DEF Gap, heap
  <2>3. Sides' /\ Disjoint'
    BY <2>1 DEF Sides, Disjoint, Apart, TagsApart, heap
  <2> QED BY <2>2, <2>3
<1>7. CASE UNCHANGED memoryVars
  BY <1>7 DEF memoryVars, heap, Gap, Sides, Disjoint, Apart, TagsApart
<1> QED BY <1>1, <1>2, <1>3, <1>4, <1>5, <1>6, <1>7 DEF MemoryNext

(* Whatever is allocated and released, in whatever order, live records and *)
(* stacks share no word, and nobody reaches into the main stack.           *)
THEOREM AreasAreDisjoint == MemorySpec => []Disjoint
<1>1. MemoryInv => Disjoint
  BY DEF MemoryInv
<1> QED BY MemoryInitially, MemoryStep, <1>1, PTL DEF MemorySpec

(* The variables of the memory keep their types; no address gets negative. *)
THEOREM MemoryTypes == MemorySpec => []MemoryTypeOK
<1>1. MemoryInv => MemoryTypeOK
  BY DEF MemoryInv
<1> QED BY MemoryInitially, MemoryStep, <1>1, PTL DEF MemorySpec

\* The seals, as long as nobody asks for the check pattern
SealsInv == MemoryInv /\ ~stackCheck /\ SealsIntact

(* What NEW writes ends below the stacks, and with them below the seals.   *)
LEMMA SealsStep ==
  ASSUME TRUE \notin Checks
  PROVE  SealsInv /\ [MemoryNext]_memoryVars => SealsInv'
<1> SUFFICES ASSUME SealsInv, [MemoryNext]_memoryVars PROVE SealsInv'
  OBVIOUS
<1>1. MemoryInv /\ MemoryInv' /\ ~stackCheck /\ SealsIntact
  BY MemoryStep DEF SealsInv
<1>2. ~stackCheck'
  BY <1>1, LayoutAssumption
  DEF MemoryNext, memoryVars, heap, Allocate, Deallocate, LockHeaps, AllocStack,
      EnableStackCheck, SetMainStackSize, LayoutAssumption
<1>3. ASSUME NEW w \in RecSizes, Allocate(w) PROVE SealsIntact'
  <2>1. /\ w \in Nat /\ heapTop + 1 + w <= stacksBottom /\ heapTop \in Nat
        /\ stacksBottom \in Nat
    BY <1>1, <1>3, LayoutAssumption
    DEF LayoutAssumption, MemoryInv, MemoryTypeOK, Gap, Allocate, AllocLimit
  <2>2. ASSUME NEW b \in stacks PROVE b.addr + b.size - 1 \notin heapTop .. (heapTop + w)
    <3>1. b.addr \in Nat /\ b.size \in Nat \ {0} /\ stacksBottom <= b.addr
      BY <1>1 DEF MemoryInv, MemoryTypeOK, AreaSet, Sides
    <3> QED BY <2>1, <3>1
  <2> QED BY <1>1, <1>3, <2>2 DEF Allocate, SealsIntact
<1>4. ASSUME NEW w \in StackSizes, AllocStack(w) PROVE SealsIntact'
  <2> DEFINE b == [addr |-> stacksBottom - w, size |-> w]
  <2>1. stacks' = stacks \cup {b} /\ sealed' = sealed \cup {stacksBottom - 1}
    BY <1>1, <1>4 DEF AllocStack
  <2>2. w \in Int /\ stacksBottom \in Int
    <3>1. StackSizes \subseteq Nat
      BY LayoutAssumption DEF LayoutAssumption
    <3>2. stacksBottom \in Nat
      BY <1>1 DEF MemoryInv, MemoryTypeOK
    <3> QED BY <3>1, <3>2
  <2>3. b.addr + b.size - 1 = stacksBottom - 1
    BY <2>2
  <2> QED BY <1>1, <2>1, <2>3 DEF SealsIntact
<1>5. ASSUME UNCHANGED <<stacks, sealed>> PROVE SealsIntact'
  BY <1>1, <1>5 DEF SealsIntact
<1>6. ASSUME NEW r \in recs, Deallocate(r) PROVE UNCHANGED <<stacks, sealed>>
  BY <1>6 DEF Deallocate
<1>7. ASSUME NEW on \in Checks, EnableStackCheck(on) PROVE UNCHANGED <<stacks, sealed>>
  BY <1>7 DEF EnableStackCheck
<1>8. ASSUME NEW w \in MainSizes, SetMainStackSize(w) PROVE UNCHANGED <<stacks, sealed>>
  BY <1>8 DEF SetMainStackSize
<1>9. LockHeaps \/ UNCHANGED memoryVars => UNCHANGED <<stacks, sealed>>
  BY DEF LockHeaps, memoryVars
<1>10. SealsIntact'
  BY <1>3, <1>4, <1>5, <1>6, <1>7, <1>8, <1>9 DEF MemoryNext
<1> QED BY <1>1, <1>2, <1>10 DEF SealsInv

(* Without the stack check the top word of every stack keeps its seal,     *)
(* whatever is allocated and released; with it see the run memory_checked. *)
THEOREM SealsStay == TRUE \notin Checks => (MemorySpec => []SealsIntact)
<1> SUFFICES ASSUME TRUE \notin Checks PROVE MemorySpec => []SealsIntact
  OBVIOUS
<1>1. MemoryInit => SealsInv
  BY MemoryInitially DEF SealsInv, MemoryInit, SealsIntact
<1>2. SealsInv /\ [MemoryNext]_memoryVars => SealsInv'
  BY SealsStep
<1>3. SealsInv => SealsIntact
  BY DEF SealsInv
<1> QED BY <1>1, <1>2, <1>3, PTL DEF MemorySpec

-----------------------------------------------------------------------------
(* SPIdata, for every depth of the FIFOs and all lengths of transfers.     *)

(* Facts of arithmetic.                                                    *)
LEMMA OneAtMost == \A k \in Nat : k # 0 /\ k <= 1 => k = 1
<1> QED OBVIOUS

LEMMA NoDifference == \A k \in Nat : k - k = 0
<1> QED OBVIOUS

(* The initial state satisfies the invariant.                              *)
LEMMA SPIInitially == SPIInit => SPIInv
<1> SUFFICES ASSUME SPIInit PROVE SPIInv
  OBVIOUS
<1> USE SPIAssumption DEF SPIAssumption, SPIInit
<1>1. SPITypeOK
  <2>1. overrun \in BOOLEAN
    OBVIOUS
  <2>2. n \in Nat /\ nw \in 0..n /\ nr \in 0..n /\ loop \in {"idle", "write", "read"}
    OBVIOUS
  <2>3. tx \in Seq(Nat) /\ shift \in Seq(Nat) /\ rx \in Seq(Nat) /\ rxData \in Seq(Nat)
    OBVIOUS
  <2> QED BY <2>1, <2>2, <2>3 DEF SPITypeOK
<1>2. Credit
  BY DEF Credit
<1>3. InOrder
  BY DEF InOrder
<1>4. NoOverrun
  BY Zenon DEF NoOverrun
<1> QED BY <1>1, <1>2, <1>3, <1>4 DEF SPIInv

(* A new call finds nothing left from the one before.                      *)
LEMMA CallStep == SPIInv /\ Transfer => SPIInv'
<1> SUFFICES ASSUME SPIInv, Transfer PROVE SPIInv'
  OBVIOUS
<1> USE SPIAssumption DEF SPIAssumption
<1>1. /\ loop = "idle" /\ nr = 0 /\ nw = 0
      /\ n' \in Nat /\ nw' = n' /\ nr' = n' /\ rxData' = <<>>
      /\ loop' = IF n' > 0 THEN "write" ELSE "idle"
      /\ tx' = tx /\ shift' = shift /\ rx' = rx /\ overrun' = overrun
  BY DEF Transfer, controller, SPIInv
<1>2. tx = <<>> /\ shift = <<>> /\ rx = <<>>
  <2>1. Len(rx) \in Nat /\ Len(shift) \in Nat /\ Len(tx) \in Nat
    BY DEF SPIInv, SPITypeOK
  <2>2. Len(rx) = 0 /\ Len(shift) = 0 /\ Len(tx) = 0
    BY <1>1, <2>1 DEF SPIInv, Credit
  <2> QED BY <2>2 DEF SPIInv, SPITypeOK
<1>3. SPITypeOK'
  <2>1. overrun' \in BOOLEAN
    BY <1>1 DEF SPIInv, SPITypeOK
  <2> QED BY <1>1, <1>2, <2>1 DEF SPITypeOK
<1>4. Credit' /\ InOrder'
  <2>1. /\ Len(tx') = 0 /\ Len(shift') = 0 /\ Len(rx') = 0 /\ Len(rxData') = 0
        /\ shift' = <<>>
        /\ DOMAIN tx' = {} /\ DOMAIN rx' = {} /\ DOMAIN rxData' = {}
    BY <1>1, <1>2
  <2>2. nr' - nw' = 0 /\ n' - nr' = 0
    <3>1. n' \in Nat /\ nw' = n' /\ nr' = n'
      BY <1>1
    <3> QED BY <3>1, NoDifference
  <2>3. Credit'
    BY <2>1, <2>2 DEF Credit
  <2> QED BY <2>1, <2>2, <2>3 DEF InOrder
<1>5. NoOverrun'
  BY <1>1, Zenon DEF SPIInv, NoOverrun
<1> QED BY <1>1, <1>3, <1>4, <1>5 DEF SPIInv

(* The byte written goes to the end of those on their way.                 *)
LEMMA WriteStep == SPIInv /\ Write => SPIInv'
<1> SUFFICES ASSUME SPIInv, Write PROVE SPIInv'
  OBVIOUS
<1> USE SPIAssumption DEF SPIAssumption
<1>1. /\ loop = "write" /\ nw > 0 /\ nr < nw + FifoDepth
      /\ tx' = Append(tx, n - nw) /\ nw' = nw - 1
      /\ loop' = loop /\ n' = n /\ nr' = nr /\ rxData' = rxData
      /\ shift' = shift /\ rx' = rx /\ overrun' = overrun
  BY DEF Write, MayWrite
<1>2. /\ n \in Nat /\ nw \in 0..n /\ nr \in 0..n
      /\ tx \in Seq(Nat) /\ shift \in Seq(Nat) /\ rx \in Seq(Nat) /\ rxData \in Seq(Nat)
  BY DEF SPIInv, SPITypeOK
<1>3. SPITypeOK'
  <2>1. overrun' \in BOOLEAN
    BY <1>1 DEF SPIInv, SPITypeOK
  <2>2. n - nw \in Nat
    BY <1>2
  <2>3. tx' \in Seq(Nat)
    BY <1>1, <1>2, <2>2
  <2> QED BY <1>1, <1>2, <2>1, <2>3 DEF SPITypeOK
<1>4. /\ Len(tx') = Len(tx) + 1 /\ \A i \in DOMAIN tx : tx'[i] = tx[i]
      /\ Len(tx) \in Nat /\ Len(shift) \in Nat /\ Len(rx) \in Nat
  BY <1>1, <1>2, SMTT(30)
<1>5. Credit'
  <2>1. Len(shift) <= 1 /\ Len(rx) + Len(shift) + Len(tx) = nr - nw
    BY DEF SPIInv, Credit
  <2>2. Len(rx') + Len(shift') + Len(tx') = nr' - nw' /\ nr' - nw' <= FifoDepth
    BY <1>1, <1>2, <1>4, <2>1
  <2> QED BY <1>1, <2>1, <2>2 DEF Credit
<1>6. InOrder'
  <2>1. tx'[Len(tx) + 1] = n - nw
    BY <1>1, <1>2
  <2>2. n - nw = n - nr + Len(rx) + Len(shift) + Len(tx)
    BY <1>2 DEF SPIInv, Credit
  <2>3. \A i \in DOMAIN tx' : tx'[i] = n - nr + Len(rx) + Len(shift) + i - 1
    <3> SUFFICES ASSUME NEW i \in DOMAIN tx'
                 PROVE  tx'[i] = n - nr + Len(rx) + Len(shift) + i - 1
      OBVIOUS
    <3>1. DOMAIN tx' = 1..(Len(tx) + 1) /\ DOMAIN tx = 1..Len(tx) /\ Len(tx) \in Nat
      BY <1>1, <1>2, <1>4
    <3>2. CASE i \in DOMAIN tx
      BY <1>4, <3>2 DEF SPIInv, InOrder
    <3>3. CASE i = Len(tx) + 1
      <4>1. /\ Len(tx) \in Nat /\ Len(shift) \in Nat /\ Len(rx) \in Nat
            /\ n \in Nat /\ nr \in Int /\ nw \in Int
        BY <1>2
      <4>2. n - nr + Len(rx) + Len(shift) + Len(tx)
              = n - nr + Len(rx) + Len(shift) + (Len(tx) + 1) - 1
        BY ONLY <4>1, SMT
      <4> QED BY <2>1, <2>2, <3>3, <4>2
    <3> QED BY <3>1, <3>2, <3>3
  <2> QED BY <1>1, <2>3 DEF SPIInv, InOrder
<1>7. NoOverrun'
  BY <1>1, Zenon DEF SPIInv, NoOverrun
<1> QED BY <1>1, <1>3, <1>5, <1>6, <1>7 DEF SPIInv

(* The byte read is the first of those on their way.                       *)
LEMMA ReadStep == SPIInv /\ Read => SPIInv'
<1> SUFFICES ASSUME SPIInv, Read PROVE SPIInv'
  OBVIOUS
<1> USE SPIAssumption DEF SPIAssumption
<1>1. /\ n' = n /\ nw' = nw /\ tx' = tx /\ shift' = shift /\ overrun' = overrun
      /\ loop' = IF nw > 0 \/ nr' > 0 THEN "write" ELSE "idle"
  BY DEF Read, AfterRead
<1>2. /\ n \in Nat /\ nw \in 0..n /\ nr \in 0..n
      /\ tx \in Seq(Nat) /\ shift \in Seq(Nat) /\ rx \in Seq(Nat) /\ rxData \in Seq(Nat)
  BY DEF SPIInv, SPITypeOK
<1>3. overrun' \in BOOLEAN
  BY <1>1 DEF SPIInv, SPITypeOK
<1>4. NoOverrun'
  BY <1>1, Zenon DEF SPIInv, NoOverrun
<1>5. CASE nr > 0 /\ rx # <<>> /\ rxData' = Append(rxData, Head(rx)) /\ rx' = Tail(rx)
           /\ nr' = nr - 1
  <2>1. /\ rx' \in Seq(Nat) /\ Len(rx') = Len(rx) - 1 /\ Head(rx) = rx[1] /\ Len(rx) > 0
        /\ \A i \in DOMAIN rx' : rx'[i] = rx[i + 1] /\ i + 1 \in DOMAIN rx
    BY <1>2, <1>5
  <2>2. rx[1] = n - nr /\ n - nr \in Nat
    <3>1. 1 \in DOMAIN rx
      BY <1>2, <2>1
    <3>2. rx[1] = n - nr + 1 - 1
      BY <3>1 DEF SPIInv, InOrder
    <3> QED BY <1>2, <3>2
  <2>3. /\ rxData' \in Seq(Nat) /\ Len(rxData') = Len(rxData) + 1
        /\ rxData'[Len(rxData) + 1] = n - nr
        /\ \A i \in DOMAIN rxData : rxData'[i] = rxData[i]
    BY <1>2, <1>5, <2>1, <2>2
  <2>4. SPITypeOK'
    BY <1>1, <1>2, <1>3, <1>5, <2>1, <2>3 DEF SPITypeOK
  <2>5. Credit'
    BY <1>1, <1>2, <1>5, <2>1 DEF SPIInv, Credit
  <2>6. InOrder'
    <3>1. Len(rxData) = n - nr /\ Len(rxData) \in Nat
      BY <1>2 DEF SPIInv, InOrder
    <3>2. \A i \in DOMAIN rxData' : rxData'[i] = i - 1
      <4> SUFFICES ASSUME NEW i \in DOMAIN rxData' PROVE rxData'[i] = i - 1
        OBVIOUS
      <4>1. DOMAIN rxData' = 1..(Len(rxData) + 1) /\ DOMAIN rxData = 1..Len(rxData)
        BY <1>2, <2>3
      <4>2. CASE i \in DOMAIN rxData
        BY <2>3, <4>2 DEF SPIInv, InOrder
      <4>3. CASE i = Len(rxData) + 1
        BY <2>3, <3>1, <4>3
      <4> QED BY <3>1, <4>1, <4>2, <4>3
    <3>3. \A i \in DOMAIN rx' : rx'[i] = n' - nr' + i - 1
      <4> SUFFICES ASSUME NEW i \in DOMAIN rx' PROVE rx'[i] = n' - nr' + i - 1
        OBVIOUS
      <4>1. i \in Nat /\ i + 1 \in DOMAIN rx /\ rx'[i] = rx[i + 1]
        BY <2>1
      <4>2. rx[i + 1] = n - nr + (i + 1) - 1
        BY <4>1 DEF SPIInv, InOrder
      <4> QED BY <1>1, <1>2, <1>5, <4>1, <4>2
    <3>4. shift' # <<>> => shift'[1] = n' - nr' + Len(rx')
      BY <1>1, <1>2, <1>5, <2>1 DEF SPIInv, InOrder
    <3>5. \A i \in DOMAIN tx' : tx'[i] = n' - nr' + Len(rx') + Len(shift') + i - 1
      <4> SUFFICES ASSUME NEW i \in DOMAIN tx'
                   PROVE  tx'[i] = n' - nr' + Len(rx') + Len(shift') + i - 1
        OBVIOUS
      <4>1. i \in DOMAIN tx
        BY <1>1
      <4>2. i \in Nat /\ Len(shift) \in Nat /\ Len(rx) \in Nat
        BY <1>2, <4>1
      <4>3. tx[i] = n - nr + Len(rx) + Len(shift) + i - 1
        BY <4>1 DEF SPIInv, InOrder
      <4>4. tx'[i] = tx[i] /\ Len(shift') = Len(shift) /\ Len(rx') = Len(rx) - 1
            /\ n' = n /\ nr' = nr - 1
        BY <1>1, <1>5, <2>1
      <4> QED BY <1>2, <4>2, <4>3, <4>4
    <3>6. Len(rxData') = n' - nr'
      BY <1>1, <1>2, <1>5, <2>3, <3>1
    <3> QED BY <3>2, <3>3, <3>4, <3>5, <3>6 DEF InOrder
  <2>7. loop' = "idle" => nr' = 0 /\ nw' = 0
    BY <1>1, <1>2, <1>5
  <2> QED BY <1>4, <2>4, <2>5, <2>6, <2>7 DEF SPIInv
<1>6. CASE UNCHANGED <<rxData, rx, nr>>
  <2>1. SPITypeOK'
    BY <1>1, <1>2, <1>3, <1>6 DEF SPITypeOK
  <2>2. Credit' /\ InOrder'
    BY <1>1, <1>6 DEF SPIInv, Credit, InOrder
  <2>3. loop' = "idle" => nr' = 0 /\ nw' = 0
    BY <1>1, <1>2, <1>6
  <2> QED BY <1>4, <2>1, <2>2, <2>3 DEF SPIInv
<1> QED BY <1>5, <1>6 DEF Read

(* A frame starts: the first byte of the transmit FIFO is shifted out.     *)
LEMMA StartStep == SPIInv /\ StartFrame => SPIInv'
<1> SUFFICES ASSUME SPIInv, StartFrame PROVE SPIInv'
  OBVIOUS
<1> USE SPIAssumption DEF SPIAssumption
<1>1. /\ shift = <<>> /\ tx # <<>> /\ shift' = <<Head(tx)>> /\ tx' = Tail(tx)
      /\ loop' = loop /\ n' = n /\ nw' = nw /\ nr' = nr /\ rxData' = rxData
      /\ rx' = rx /\ overrun' = overrun
  BY DEF StartFrame, spiDriver
<1>2. /\ n \in Nat /\ nw \in 0..n /\ nr \in 0..n
      /\ tx \in Seq(Nat) /\ rx \in Seq(Nat) /\ rxData \in Seq(Nat)
  BY DEF SPIInv, SPITypeOK
<1>3. /\ tx' \in Seq(Nat) /\ Len(tx') = Len(tx) - 1 /\ Len(tx) > 0 /\ Head(tx) = tx[1]
      /\ Head(tx) \in Nat
      /\ \A i \in DOMAIN tx' : tx'[i] = tx[i + 1] /\ i + 1 \in DOMAIN tx
  BY <1>1, <1>2
<1>4. shift' \in Seq(Nat) /\ Len(shift') = 1 /\ shift'[1] = tx[1] /\ Len(shift) = 0
  BY <1>1, <1>3
<1>5. SPITypeOK'
  <2>1. overrun' \in BOOLEAN
    BY <1>1 DEF SPIInv, SPITypeOK
  <2>2. loop' \in {"idle", "write", "read"}
    BY <1>1 DEF SPIInv, SPITypeOK
  <2> QED BY <1>1, <1>2, <1>3, <1>4, <2>1, <2>2 DEF SPITypeOK
<1>6. Credit'
  BY <1>1, <1>2, <1>3, <1>4, SMTT(30) DEF SPIInv, Credit
<1>7. InOrder'
  <2>1. tx[1] = n - nr + Len(rx)
    <3>1. 1 \in DOMAIN tx /\ Len(rx) \in Nat
      BY <1>2, <1>3
    <3>2. tx[1] = n - nr + Len(rx) + Len(shift) + 1 - 1
      BY <3>1 DEF SPIInv, InOrder
    <3> QED BY <1>2, <1>4, <3>1, <3>2
  <2>2. \A i \in DOMAIN tx' : tx'[i] = n - nr + Len(rx) + 1 + i - 1
    <3> SUFFICES ASSUME NEW i \in DOMAIN tx' PROVE tx'[i] = n - nr + Len(rx) + 1 + i - 1
      OBVIOUS
    <3>1. i \in Nat /\ i + 1 \in DOMAIN tx /\ tx'[i] = tx[i + 1] /\ Len(rx) \in Nat
      BY <1>2, <1>3, SMTT(30)
    <3>2. tx[i + 1] = n - nr + Len(rx) + Len(shift) + (i + 1) - 1
      BY <3>1 DEF SPIInv, InOrder
    <3> QED BY <1>2, <1>4, <3>1, <3>2
  <2> QED BY <1>1, <1>4, <2>1, <2>2 DEF SPIInv, InOrder
<1>8. NoOverrun'
  BY <1>1, Zenon DEF SPIInv, NoOverrun
<1> QED BY <1>1, <1>5, <1>6, <1>7, <1>8 DEF SPIInv

(* A frame ends: by Credit the receive FIFO has room for the byte.         *)
LEMMA EndStep == SPIInv /\ EndFrame => SPIInv'
<1> SUFFICES ASSUME SPIInv, EndFrame PROVE SPIInv'
  OBVIOUS
<1> USE SPIAssumption DEF SPIAssumption
<1>1. /\ n \in Nat /\ nw \in 0..n /\ nr \in 0..n
      /\ tx \in Seq(Nat) /\ shift \in Seq(Nat) /\ rx \in Seq(Nat) /\ rxData \in Seq(Nat)
      /\ Len(tx) \in Nat /\ Len(shift) \in Nat /\ Len(rx) \in Nat
  BY DEF SPIInv, SPITypeOK
<1>2. Len(shift) = 1
  <2>1. shift # <<>>
    BY DEF EndFrame
  <2>2. Len(shift) # 0
    BY <1>1, <2>1
  <2>3. Len(shift) <= 1
    BY DEF SPIInv, Credit
  <2>4. Len(shift) \in Nat
    BY <1>1
  <2> QED BY <2>2, <2>3, <2>4, OneAtMost
<1>3. Len(rx) < FifoDepth
  BY <1>1, <1>2 DEF SPIInv, Credit
<1>4. /\ shift' = <<>> /\ rx' = rx \o shift /\ overrun' = overrun
      /\ loop' = loop /\ n' = n /\ nw' = nw /\ nr' = nr /\ rxData' = rxData /\ tx' = tx
  BY <1>1, <1>3 DEF EndFrame, spiDriver
<1>5. /\ rx' \in Seq(Nat) /\ Len(rx') = Len(rx) + 1 /\ rx'[Len(rx) + 1] = shift[1]
      /\ \A i \in DOMAIN rx : rx'[i] = rx[i]
  <2>1. rx \o shift \in Seq(Nat) /\ Len(rx \o shift) = Len(rx) + 1
    BY <1>1, <1>2, ConcatProperties
  <2>2. \A i \in 1..(Len(rx) + 1) :
          (rx \o shift)[i] = IF i <= Len(rx) THEN rx[i] ELSE shift[i - Len(rx)]
    BY <1>1, <1>2, ConcatProperties
  <2>3. (rx \o shift)[Len(rx) + 1] = shift[1]
    <3>1. Len(rx) + 1 \in 1..(Len(rx) + 1) /\ ~(Len(rx) + 1 <= Len(rx))
          /\ (Len(rx) + 1) - Len(rx) = 1
      BY <1>1
    <3> QED BY <2>2, <3>1
  <2>4. \A i \in DOMAIN rx : (rx \o shift)[i] = rx[i]
    BY <1>1, <2>2
  <2> QED BY <1>4, <2>1, <2>3, <2>4
<1>6. SPITypeOK'
  <2>1. overrun' \in BOOLEAN
    BY <1>4 DEF SPIInv, SPITypeOK
  <2>2. loop' \in {"idle", "write", "read"}
    BY <1>4 DEF SPIInv, SPITypeOK
  <2>3. shift' \in Seq(Nat)
    BY <1>4
  <2> QED BY <1>1, <1>4, <1>5, <2>1, <2>2, <2>3 DEF SPITypeOK
<1>7. Credit'
  BY <1>1, <1>2, <1>4, <1>5 DEF SPIInv, Credit
<1>8. InOrder'
  <2>1. shift[1] = n - nr + Len(rx)
    BY <1>2 DEF SPIInv, InOrder
  <2>2. \A i \in DOMAIN rx' : rx'[i] = n - nr + i - 1
    <3> SUFFICES ASSUME NEW i \in DOMAIN rx' PROVE rx'[i] = n - nr + i - 1
      OBVIOUS
    <3>1. DOMAIN rx' = 1..(Len(rx) + 1) /\ DOMAIN rx = 1..Len(rx)
      BY <1>1, <1>5
    <3>2. CASE i \in DOMAIN rx
      BY <1>5, <3>2 DEF SPIInv, InOrder
    <3>3. CASE i = Len(rx) + 1
      BY <1>1, <1>5, <2>1, <3>3
    <3> QED BY <1>1, <3>1, <3>2, <3>3
  <2>3. \A i \in DOMAIN tx : tx[i] = n - nr + (Len(rx) + 1) + 0 + i - 1
    BY <1>1, <1>2 DEF SPIInv, InOrder
  <2> QED BY <1>4, <1>5, <2>2, <2>3 DEF SPIInv, InOrder
<1>9. NoOverrun'
  BY <1>4, Zenon DEF SPIInv, NoOverrun
<1> QED BY <1>4, <1>6, <1>7, <1>8, <1>9 DEF SPIInv

(* Every step keeps the invariant.                                         *)
LEMMA SPIStep == SPIInv /\ [SPINext]_spiVars => SPIInv'
<1> SUFFICES ASSUME SPIInv, [SPINext]_spiVars PROVE SPIInv'
  OBVIOUS
<1>1. CASE WriteNoMore
  <2>1. loop' = "read" /\ UNCHANGED <<n, nw, nr, rxData, tx, shift, rx, overrun>>
    BY <1>1 DEF WriteNoMore, controller
  <2>2. SPITypeOK'
    <3>1. overrun' \in BOOLEAN
      BY <2>1 DEF SPIInv, SPITypeOK
    <3> QED BY <2>1, <3>1 DEF SPIInv, SPITypeOK
  <2>3. Credit' /\ InOrder'
    BY <2>1 DEF SPIInv, Credit, InOrder
  <2>4. NoOverrun'
    BY <2>1, Zenon DEF SPIInv, NoOverrun
  <2> QED BY <2>1, <2>2, <2>3, <2>4 DEF SPIInv
<1>2. CASE UNCHANGED spiVars
  <2>1. UNCHANGED <<loop, n, nw, nr, rxData, tx, shift, rx, overrun>>
    BY <1>2 DEF spiVars, spiDriver, controller
  <2>2. SPITypeOK'
    <3>1. overrun' \in BOOLEAN
      BY <2>1 DEF SPIInv, SPITypeOK
    <3> QED BY <2>1, <3>1 DEF SPIInv, SPITypeOK
  <2>3. Credit' /\ InOrder'
    BY <2>1 DEF SPIInv, Credit, InOrder
  <2>4. NoOverrun'
    BY <2>1, Zenon DEF SPIInv, NoOverrun
  <2> QED BY <2>1, <2>2, <2>3, <2>4 DEF SPIInv
<1> QED BY <1>1, <1>2, CallStep, WriteStep, ReadStep, StartStep, EndStep
        DEF SPINext, SPIDriver, Controller

(* The invariant holds.                                                    *)
LEMMA SPIInvariant == SPISpec => []SPIInv
<1> QED BY SPIInitially, SPIStep, PTL DEF SPISpec

(* Whatever the depth of the FIFOs and the speed of the spiDriver, no byte    *)
(* that comes in finds the receive FIFO full.                              *)
THEOREM ReceiveFifoNeverOverruns == SPISpec => []NoOverrun
<1>1. SPIInv => NoOverrun
  BY DEF SPIInv
<1> QED BY <1>1, SPIInvariant, PTL

(* Whatever the depth of the FIFOs and the lengths of the transfers, each  *)
(* byte read answers the byte written with the same index, and no call     *)
(* leaves a byte behind.                                                   *)
THEOREM BytesAreMatched == SPISpec => []BytesMatch
<1>1. SPIInv => BytesMatch
  <2> SUFFICES ASSUME SPIInv PROVE BytesMatch
    OBVIOUS
  <2>1. \A i \in DOMAIN rxData : rxData[i] = i - 1
    BY DEF SPIInv, InOrder
  <2>2. ASSUME loop = "idle" PROVE Len(rxData) = n /\ tx \o shift \o rx = <<>>
    <3>1. /\ nr = 0 /\ nw = 0 /\ n \in Nat
          /\ Len(rx) \in Nat /\ Len(shift) \in Nat /\ Len(tx) \in Nat
      BY <2>2 DEF SPIInv, SPITypeOK
    <3>2. Len(rx) = 0 /\ Len(shift) = 0 /\ Len(tx) = 0
      BY <3>1 DEF SPIInv, Credit
    <3>3. rx = <<>> /\ shift = <<>> /\ tx = <<>>
      BY <3>2 DEF SPIInv, SPITypeOK
    <3>4. Len(rxData) = n
      BY <3>1 DEF SPIInv, InOrder
    <3> QED BY <3>3, <3>4
  <2> QED BY <2>1, <2>2 DEF BytesMatch
<1> QED BY <1>1, SPIInvariant, PTL

-----------------------------------------------------------------------------
(* ListsV4, for any number of lists and items.                             *)

Lists == Queues \cup Pools

ListsTypeOK ==
  /\ head \in [Lists -> Items \cup {NoItem}]
  /\ tail \in [Queues -> Items \cup {NoItem}]
  /\ link \in [Items -> Items \cup {NoItem}]
  /\ poolCnt \in [Pools -> Int]
  /\ loose \subseteq Items
  /\ contents \in [Lists -> Seq(Items)]

\* No item is in a list twice, or in two of them, or in one and loose
Unshared ==
  /\ \A l \in Lists : IsInjective(contents[l])
  /\ \A l, k \in Lists : l # k => Range(contents[l]) \cap Range(contents[k]) = {}
  /\ \A x \in Items : x \in loose <=> \A l \in Lists : x \notin Range(contents[l])

ListsInv == ListsTypeOK /\ Unshared /\ ListsAreQueues /\ PoolsCount

-----------------------------------------------------------------------------
(* Where the elements of a sequence are after each operation.              *)
LEMMA EmptyOrNot ==
  ASSUME NEW S, NEW s \in Seq(S)
  PROVE  /\ Len(s) \in Nat /\ DOMAIN s = 1..Len(s)
         /\ s = <<>> <=> Len(s) = 0
OBVIOUS

LEMMA Appended ==
  ASSUME NEW S, NEW s \in Seq(S), NEW x \in S
  PROVE  /\ Append(s, x) \in Seq(S) /\ Len(Append(s, x)) = Len(s) + 1
         /\ \A i \in 1..Len(s) : Append(s, x)[i] = s[i]
         /\ Append(s, x)[Len(s) + 1] = x
OBVIOUS

LEMMA Shortened ==
  ASSUME NEW S, NEW s \in Seq(S), s # <<>>
  PROVE  /\ Tail(s) \in Seq(S) /\ Len(Tail(s)) = Len(s) - 1
         /\ \A i \in 1..(Len(s) - 1) : Tail(s)[i] = s[i + 1]
         /\ s[1] \in S /\ Head(s) = s[1]
OBVIOUS

LEMMA Preceded ==
  ASSUME NEW S, NEW s \in Seq(S), NEW x \in S
  PROVE  LET q == <<x>> \o s
         IN  /\ q \in Seq(S) /\ Len(q) = Len(s) + 1
             /\ q[1] = x /\ \A i \in 1..Len(s) : q[i + 1] = s[i]
OBVIOUS

(* An empty list has head NIL, and only that.                              *)
LEMMA HeadOfList ==
  ASSUME ListsInv, NEW l \in Lists
  PROVE  /\ contents[l] \in Seq(Items)
         /\ head[l] = NoItem <=> contents[l] = <<>>
         /\ contents[l] # <<>> => head[l] = contents[l][1] /\ head[l] \in Items
<1>1. contents[l] \in Seq(Items) /\ head[l] = First(contents[l])
  BY DEF ListsInv, ListsTypeOK, ListsAreQueues, Linked, Lists
<1>2. contents[l] # <<>> => contents[l][1] \in Items
  BY <1>1, Shortened
<1> QED BY <1>1, <1>2, ListsAssumption DEF First

(* What has been taken from a list is its head, and the rest is linked.    *)
LEMMA TakenFirst ==
  ASSUME ListsInv, NEW l \in Lists, head[l] # NoItem
  PROVE  /\ head[l] \in Range(contents[l])
         /\ Range(contents[l]) = {head[l]} \cup Range(Tail(contents[l]))
         /\ head[l] \notin Range(Tail(contents[l])) /\ IsInjective(Tail(contents[l]))
         /\ Linked(link[head[l]], Tail(contents[l]))
         /\ Len(Tail(contents[l])) = Len(contents[l]) - 1
         /\ Tail(contents[l]) # <<>> =>
              Tail(contents[l])[Len(Tail(contents[l]))] = contents[l][Len(contents[l])]
<1>1. /\ contents[l] \in Seq(Items) /\ contents[l] # <<>> /\ head[l] = contents[l][1]
      /\ IsInjective(contents[l])
  BY HeadOfList DEF ListsInv, Unshared
<1>2. PICK s \in Seq(Items) : s = contents[l] /\ s # <<>> /\ IsInjective(s)
  BY <1>1
<1>3. head[l] = Head(s)
  BY <1>1, <1>2, Shortened
<1>4. /\ Range(s) = {head[l]} \cup Range(Tail(s))
      /\ head[l] \notin Range(Tail(s)) /\ IsInjective(Tail(s))
  BY <1>2, <1>3, HeadAndTail
<1>5. /\ Tail(s) \in Seq(Items) /\ Len(Tail(s)) = Len(s) - 1 /\ Len(s) \in Nat \ {0}
      /\ DOMAIN s = 1..Len(s)
      /\ \A i \in 1..(Len(s) - 1) : Tail(s)[i] = s[i + 1]
  BY <1>2, Shortened, EmptyOrNot
<1>50. PICK len \in Nat \ {0} : len = Len(s)
  BY <1>5
<1>51. PICK t \in Seq(Items) : t = Tail(s)
  BY <1>5
<1>52. /\ Len(t) = len - 1 /\ DOMAIN t = 1..(len - 1) /\ (t = <<>> <=> len = 1)
       /\ \A i \in 1..(len - 1) : t[i] = s[i + 1]
  <2>1. DOMAIN t = 1..Len(t) /\ (t = <<>> <=> Len(t) = 0)
    BY EmptyOrNot
  <2> QED BY <1>5, <1>50, <1>51, <2>1
<1>6. \A i \in 1..len : link[s[i]] = IF i = len THEN NoItem ELSE s[i + 1]
  BY <1>2, <1>5, <1>50 DEF ListsInv, ListsAreQueues, Linked, Lists
<1>7. Linked(link[head[l]], t)
  <2>1. link[head[l]] = First(t)
    <3>1. link[s[1]] = IF len = 1 THEN NoItem ELSE s[2]
      BY <1>6, <1>50
    <3>2. len # 1 => t[1] = s[2]
      BY <1>52, <1>50
    <3> QED BY <1>1, <1>2, <1>52, <3>1, <3>2 DEF First
  <2>2. ASSUME NEW i \in 1..(len - 1)
        PROVE  link[t[i]] = IF i = len - 1 THEN NoItem ELSE t[i + 1]
    <3>1. i + 1 \in 1..len /\ (i = len - 1 <=> i + 1 = len)
      BY <1>50
    <3>2. link[s[i + 1]] = IF i + 1 = len THEN NoItem ELSE s[(i + 1) + 1]
      BY <1>6, <3>1
    <3>3. i + 1 # len => i + 1 \in 1..(len - 1)
      BY <1>50
    <3>4. i + 1 # len => t[i + 1] = s[(i + 1) + 1]
      BY <1>52, <3>3
    <3> QED BY <1>52, <3>1, <3>2, <3>4
  <2> QED BY <1>52, <2>1, <2>2 DEF Linked
<1>8. t # <<>> => t[Len(t)] = s[Len(s)]
  <2>1. len # 1 => len - 1 \in 1..(len - 1) /\ (len - 1) + 1 = len
    BY <1>50
  <2> QED BY <1>50, <1>52, <2>1
<1> QED BY <1>2, <1>4, <1>5, <1>51, <1>7, <1>8

-----------------------------------------------------------------------------
LEMMA ListsInitially == ListsInit => ListsInv
<1> SUFFICES ASSUME ListsInit PROVE ListsInv
  OBVIOUS
<1> USE ListsAssumption DEF ListsInit
<1>1. \A l \in Lists : contents[l] = IF l \in Pools THEN PoolStart[l] ELSE <<>>
  BY DEF Lists
<1>2. \A l \in Lists : contents[l] \in Seq(Items)
  BY <1>1 DEF Lists
<1>3. \A s \in Seq(Items) : First(s) \in Items \cup {NoItem}
  BY DEF First
<1>4. \A l \in Lists : head[l] = First(contents[l])
  BY DEF Lists
<1>5. \A p \in Pools : Len(PoolStart[p]) \in Nat
  OBVIOUS
<1>6. ListsTypeOK
  <2>1. head \in [Lists -> Items \cup {NoItem}]
    BY <1>2, <1>3, <1>4 DEF Lists
  <2>2. tail \in [Queues -> Items \cup {NoItem}] /\ loose \subseteq Items
    OBVIOUS
  <2>3. poolCnt \in [Pools -> Int]
    BY <1>5
  <2>4. contents \in [Lists -> Seq(Items)]
    BY <1>2 DEF Lists
  <2> QED BY <2>1, <2>2, <2>3, <2>4 DEF ListsTypeOK
<1>7. Range(<<>>) = {} /\ IsInjective(<<>>)
  BY DEF Range, IsInjective
<1>8. Unshared
  <2>1. \A l \in Lists : IsInjective(contents[l])
    BY <1>1, <1>7
  <2>2. \A l, k \in Lists : l # k => Range(contents[l]) \cap Range(contents[k]) = {}
    BY <1>1, <1>7 DEF PoolItems
  <2>3. \A x \in Items : x \in loose <=> \A l \in Lists : x \notin Range(contents[l])
    BY <1>1, <1>7 DEF PoolItems, Lists
  <2> QED BY <2>1, <2>2, <2>3 DEF Unshared
<1>9. ListsAreQueues
  BY <1>1, <1>4 DEF ListsAreQueues, Linked, Lists
<1>10. PoolsCount
  BY <1>1 DEF PoolsCount, PoolItems, Lists
<1> QED BY <1>6, <1>8, <1>9, <1>10 DEF ListsInv

LEMMA PutToQKeeps ==
  ASSUME ListsInv, NEW q \in Queues, NEW x \in Items, PutToQ(q, x)
  PROVE  ListsInv'
<1>1. q \in Lists /\ q \notin Pools
  BY ListsAssumption DEF Lists
<1>2. PICK s \in Seq(Items) : s = contents[q]
  BY <1>1 DEF ListsInv, ListsTypeOK
<1>3. /\ Append(s, x) \in Seq(Items) /\ Range(Append(s, x)) = Range(s) \cup {x}
      /\ IsInjective(s) /\ x \notin Range(s) => IsInjective(Append(s, x))
  BY AppendRange
<1>4. \A l \in Lists : contents'[l] = IF l = q THEN Append(s, x) ELSE contents[l]
  BY <1>2 DEF PutToQ, ListsInv, ListsTypeOK
<1>5. x \in loose /\ \A l \in Lists : x \notin Range(contents[l])
  BY DEF PutToQ, ListsInv, Unshared
<1>6. ListsTypeOK'
  BY <1>3, <1>1, <1>2 DEF PutToQ, ListsInv, ListsTypeOK
<1>7. Unshared'
  <2>1. \A l \in Lists : IsInjective(contents'[l])
    BY <1>2, <1>3, <1>4, <1>5, <1>1 DEF ListsInv, Unshared
  <2>2. \A l \in Lists : Range(contents'[l]) = IF l = q THEN Range(s) \cup {x} ELSE Range(contents[l])
    BY <1>3, <1>4
  <2>3. \A l, k \in Lists : l # k => Range(contents'[l]) \cap Range(contents'[k]) = {}
    <3> SUFFICES ASSUME NEW l \in Lists, NEW k \in Lists, l # k
                 PROVE  Range(contents'[l]) \cap Range(contents'[k]) = {}
      OBVIOUS
    <3>1. Range(contents[l]) \cap Range(contents[k]) = {}
      BY DEF ListsInv, Unshared
    <3>2. x \notin Range(contents[l]) /\ x \notin Range(contents[k])
      BY <1>5
    <3> QED BY <1>2, <2>2, <3>1, <3>2
  <2>4. \A y \in Items : y \in loose' <=> \A l \in Lists : y \notin Range(contents'[l])
    BY <1>1, <1>2, <2>2 DEF PutToQ, ListsInv, Unshared
  <2> QED BY <2>1, <2>3, <2>4 DEF Unshared, Lists
<1>8. head[q] = First(s) /\ (s # <<>> => tail[q] = s[Len(s)])
  BY <1>1, <1>2 DEF ListsInv, ListsAreQueues, Linked, Lists
<1>9. /\ \A l \in Lists : head'[l] = IF l = q /\ head[q] = NoItem THEN x ELSE head[l]
      /\ \A y \in Items : link'[y] = IF y = x THEN NoItem
                                     ELSE IF head[q] # NoItem /\ y = tail[q] THEN x
                                     ELSE link[y]
      /\ \A k \in Queues : tail'[k] = IF k = q THEN x ELSE tail[k]
  BY DEF PutToQ, ListsInv, ListsTypeOK
<1>10. /\ Len(Append(s, x)) = Len(s) + 1 /\ Len(s) \in Nat
       /\ DOMAIN s = 1..Len(s) /\ DOMAIN Append(s, x) = 1..(Len(s) + 1)
       /\ \A i \in 1..Len(s) : Append(s, x)[i] = s[i]
       /\ Append(s, x)[Len(s) + 1] = x
       /\ Append(s, x) # <<>>
       /\ s # <<>> => Len(s) > 0
  <2>1. /\ Append(s, x) \in Seq(Items) /\ Len(Append(s, x)) = Len(s) + 1
        /\ \A i \in 1..Len(s) : Append(s, x)[i] = s[i]
        /\ Append(s, x)[Len(s) + 1] = x
    BY Appended
  <2> QED BY <2>1, EmptyOrNot
<1>11. Linked(head[q], s)
  BY <1>1, <1>2 DEF ListsInv, ListsAreQueues, Lists
<1>12. Linked(head[q], s) /\ IsInjective(s) /\ x \notin Range(s)
  BY <1>1, <1>2, <1>5, <1>11 DEF ListsInv, Unshared
<1>14. Linked(head[q], contents[q])'
  <2>1. head'[q] = First(Append(s, x))
    <3>1. CASE s = <<>>
      BY <1>1, <1>8, <1>9, <1>10, <3>1 DEF First
    <3>2. CASE s # <<>>
      <4>1. head[q] = s[1] /\ s[1] \in Items
        BY <1>8, <1>10, <3>2 DEF First
      <4>2. head'[q] = s[1]
        BY <1>1, <1>9, <4>1, ListsAssumption
      <4> QED BY <1>10, <3>2, <4>2 DEF First
    <3> QED BY <3>1, <3>2
  <2>2. ASSUME NEW i \in 1..(Len(s) + 1)
        PROVE  link'[Append(s, x)[i]] = IF i = Len(s) + 1 THEN NoItem ELSE Append(s, x)[i + 1]
    <3>1. CASE i = Len(s) + 1
      BY <1>9, <1>10, <3>1
    <3>2. CASE i \in 1..Len(s)
      <4>1. s # <<>> /\ s[i] \in Items /\ s[i] # x
        BY <1>10, <1>12, <3>2 DEF Range
      <4>2. head[q] # NoItem /\ tail[q] = s[Len(s)]
        BY <1>8, <1>10, <4>1, ListsAssumption DEF First
      <4>3. s[i] = tail[q] <=> i = Len(s)
        <5>1. Len(s) \in DOMAIN s /\ i \in DOMAIN s
          BY <1>10, <4>1, <3>2
        <5> QED BY <5>1, <1>12, <4>2 DEF IsInjective
      <4>4. link[s[i]] = IF i = Len(s) THEN NoItem ELSE s[i + 1]
        BY <1>10, <1>12, <3>2 DEF Linked
      <4>5. link'[s[i]] = IF i = Len(s) THEN x ELSE s[i + 1]
        BY <1>9, <4>1, <4>2, <4>3, <4>4
      <4>6. i + 1 \in 1..(Len(s) + 1) /\ i # Len(s) + 1 /\ (i # Len(s) => i + 1 \in 1..Len(s))
        <5>1. PICK len \in Nat : len = Len(s)
          BY <1>10
        <5>2. i \in 1..len => i + 1 \in 1..(len + 1) /\ i # len + 1 /\ (i # len => i + 1 \in 1..len)
          OBVIOUS
        <5> QED BY <3>2, <5>1, <5>2
      <4>7. Append(s, x)[i + 1] = IF i = Len(s) THEN x ELSE s[i + 1]
        BY <1>10, <4>6
      <4> QED BY <1>10, <3>2, <4>5, <4>6, <4>7
    <3>3. i = Len(s) + 1 \/ i \in 1..Len(s)
      BY <1>10
    <3> QED BY <3>1, <3>2, <3>3
  <2>3. contents'[q] = Append(s, x)
    BY <1>1, <1>4
  <2> QED BY <1>10, <2>1, <2>2, <2>3 DEF Linked
<1>15. ASSUME NEW l \in Lists, l # q PROVE Linked(head[l], contents[l])'
  <2>1. Linked(head[l], contents[l]) /\ contents[l] \in Seq(Items)
    BY DEF ListsInv, ListsTypeOK, ListsAreQueues, Lists
  <2>2. ASSUME NEW i \in DOMAIN contents[l] PROVE link'[contents[l][i]] = link[contents[l][i]]
    <3>1. contents[l][i] \in Range(contents[l]) /\ contents[l][i] \in Items
      BY <2>1 DEF Range
    <3>2. contents[l][i] # x /\ contents[l][i] \notin Range(s)
      BY <1>1, <1>2, <1>5, <1>15, <3>1 DEF ListsInv, Unshared
    <3>3. head[q] # NoItem => tail[q] \in Range(s)
      BY <1>8, <1>10 DEF First, Range
    <3> QED BY <1>9, <3>1, <3>2, <3>3
  <2>3. contents'[l] = contents[l] /\ head'[l] = head[l]
    BY <1>4, <1>9, <1>15
  <2> QED BY <2>1, <2>2, <2>3 DEF Linked
<1>16. ListsAreQueues'
  <2>1. \A l \in Lists : Linked(head[l], contents[l])'
    BY <1>14, <1>15
  <2>2. \A k \in Queues : contents'[k] # <<>> => tail'[k] = contents'[k][Len(contents'[k])]
    BY <1>1, <1>4, <1>9, <1>10 DEF ListsInv, ListsAreQueues, Lists
  <2> QED BY <2>1, <2>2 DEF ListsAreQueues, Lists
<1>17. PoolsCount'
  BY <1>1, <1>4 DEF PutToQ, ListsInv, PoolsCount, Lists
<1> QED BY <1>6, <1>7, <1>16, <1>17 DEF ListsInv

(* Whatever list the head is taken from, the lists are linked as before,   *)
(* and the item is in none.                                                *)
LEMMA TakeKeeps ==
  ASSUME ListsInv, NEW l \in Lists, head[l] # NoItem,
         head' = [head EXCEPT ![l] = link[@]], link' = link,
         loose' = loose \cup {head[l]}, contents' = [contents EXCEPT ![l] = Tail(@)]
  PROVE  /\ head' \in [Lists -> Items \cup {NoItem}] /\ loose' \subseteq Items
         /\ contents' \in [Lists -> Seq(Items)]
         /\ Unshared'
         /\ \A k \in Lists : Linked(head[k], contents[k])'
<1>1. PICK s \in Seq(Items), x \in Items : s = contents[l] /\ x = head[l] /\ s # <<>>
  BY HeadOfList
<1>2. PICK t \in Seq(Items) : t = Tail(s)
  BY <1>1, Shortened
<1>3. /\ x \in Range(s) /\ Range(s) = {x} \cup Range(t)
      /\ x \notin Range(t) /\ IsInjective(t)
      /\ Linked(link[x], t)
  BY <1>1, <1>2, TakenFirst
<1>4. \A k \in Lists : /\ contents'[k] = IF k = l THEN t ELSE contents[k]
                       /\ head'[k] = IF k = l THEN link[x] ELSE head[k]
  BY <1>1, <1>2 DEF ListsInv, ListsTypeOK
<1>5. /\ head' \in [Lists -> Items \cup {NoItem}] /\ loose' \subseteq Items
      /\ contents' \in [Lists -> Seq(Items)]
  BY <1>1, <1>2 DEF ListsInv, ListsTypeOK
<1>6. Unshared'
  <2>1. \A k \in Lists : IsInjective(contents'[k])
    BY <1>3, <1>4 DEF ListsInv, Unshared
  <2>2. \A k \in Lists : Range(contents'[k]) = IF k = l THEN Range(t) ELSE Range(contents[k])
    BY <1>4
  <2>3. \A k \in Lists : Range(contents'[k]) \subseteq Range(contents[k])
    BY <1>1, <1>3, <2>2
  <2>4. ASSUME NEW k \in Lists, NEW m \in Lists, k # m
        PROVE  Range(contents'[k]) \cap Range(contents'[m]) = {}
    <3>1. Range(contents[k]) \cap Range(contents[m]) = {}
      BY <2>4 DEF ListsInv, Unshared
    <3> QED BY <2>3, <3>1
  <2>5. ASSUME NEW y \in Items
        PROVE  y \in loose' <=> \A k \in Lists : y \notin Range(contents'[k])
    <3>1. CASE y = x
      <4>1. \A k \in Lists : k # l => x \notin Range(contents[k])
        BY <1>1, <1>3 DEF ListsInv, Unshared
      <4> QED BY <1>1, <1>3, <2>2, <3>1, <4>1
    <3>2. CASE y # x
      <4>1. \A k \in Lists : y \in Range(contents'[k]) <=> y \in Range(contents[k])
        BY <1>1, <1>3, <2>2, <3>2
      <4> QED BY <1>1, <3>2, <4>1 DEF ListsInv, Unshared
    <3> QED BY <3>1, <3>2
  <2> QED BY <2>1, <2>4, <2>5 DEF Unshared
<1>7. ASSUME NEW k \in Lists PROVE Linked(head[k], contents[k])'
  <2>1. CASE k = l
    <3>1. contents'[k] = t /\ head'[k] = link[x]
      BY <1>4, <2>1
    <3>2. link[x] = First(t) /\ \A i \in DOMAIN t : link'[t[i]] = IF i = Len(t) THEN NoItem ELSE t[i + 1]
      BY <1>3 DEF Linked
    <3>3. head'[k] = First(contents'[k])
      BY <3>1, <3>2
    <3>4. \A i \in DOMAIN contents'[k] :
            link'[contents'[k][i]] = IF i = Len(contents'[k]) THEN NoItem ELSE contents'[k][i + 1]
      BY <3>1, <3>2
    <3> QED BY <3>3, <3>4 DEF Linked
  <2>2. CASE k # l
    <3>1. Linked(head[k], contents[k])
      BY DEF ListsInv, ListsAreQueues, Lists
    <3> QED BY <1>4, <2>2, <3>1 DEF Linked
  <2> QED BY <2>1, <2>2
<1> QED BY <1>5, <1>6, <1>7

LEMMA GetFromQKeeps ==
  ASSUME ListsInv, NEW q \in Queues, GetFromQ(q)
  PROVE  ListsInv'
<1>1. q \in Lists /\ q \notin Pools /\ head[q] # NoItem
  BY ListsAssumption DEF Lists, GetFromQ
<1>2. /\ head' \in [Lists -> Items \cup {NoItem}] /\ loose' \subseteq Items
      /\ contents' \in [Lists -> Seq(Items)]
      /\ Unshared'
      /\ \A k \in Lists : Linked(head[k], contents[k])'
  BY <1>1, TakeKeeps DEF GetFromQ
<1>3. tail' = tail /\ link' = link /\ poolCnt' = poolCnt
  BY DEF GetFromQ
<1>4. \A l \in Lists : contents'[l] = IF l = q THEN Tail(contents[q]) ELSE contents[l]
  BY DEF GetFromQ, ListsInv, ListsTypeOK
<1>5. ListsTypeOK'
  BY <1>2, <1>3 DEF ListsInv, ListsTypeOK
<1>6. ASSUME NEW k \in Queues, contents'[k] # <<>>
      PROVE  tail'[k] = contents'[k][Len(contents'[k])]
  <2>1. k \in Lists /\ (contents[k] # <<>> => tail[k] = contents[k][Len(contents[k])])
    BY DEF ListsInv, ListsAreQueues, Lists
  <2>2. CASE k # q
    BY <1>3, <1>4, <1>6, <2>1, <2>2
  <2>3. CASE k = q
    <3>1. contents[q] # <<>>
      BY <1>1, HeadOfList
    <3>2. Tail(contents[q]) # <<>> =>
            Tail(contents[q])[Len(Tail(contents[q]))] = contents[q][Len(contents[q])]
      BY <1>1, TakenFirst
    <3> QED BY <1>1, <1>3, <1>4, <1>6, <2>1, <2>3, <3>1, <3>2
  <2> QED BY <2>2, <2>3
<1>7. ListsAreQueues'
  BY <1>2, <1>6 DEF ListsAreQueues, Lists
<1>8. PoolsCount'
  <2>1. \A p \in Pools : p \in Lists /\ contents'[p] = contents[p]
    BY <1>1, <1>4 DEF Lists
  <2> QED BY <1>3, <2>1 DEF ListsInv, PoolsCount
<1> QED BY <1>2, <1>5, <1>7, <1>8 DEF ListsInv

LEMMA GetFromPoolKeeps ==
  ASSUME ListsInv, NEW p \in Pools, GetFromPool(p)
  PROVE  ListsInv'
<1>1. p \in Lists /\ p \notin Queues /\ head[p] # NoItem
  BY ListsAssumption DEF Lists, GetFromPool
<1>2. /\ head' \in [Lists -> Items \cup {NoItem}] /\ loose' \subseteq Items
      /\ contents' \in [Lists -> Seq(Items)]
      /\ Unshared'
      /\ \A k \in Lists : Linked(head[k], contents[k])'
  BY <1>1, TakeKeeps DEF GetFromPool
<1>3. tail' = tail /\ link' = link /\ poolCnt' = [poolCnt EXCEPT ![p] = @ - 1]
  BY DEF GetFromPool
<1>4. \A l \in Lists : contents'[l] = IF l = p THEN Tail(contents[p]) ELSE contents[l]
  BY DEF GetFromPool, ListsInv, ListsTypeOK
<1>5. ListsTypeOK'
  BY <1>2, <1>3 DEF ListsInv, ListsTypeOK
<1>6. \A k \in Queues : k \in Lists /\ contents'[k] = contents[k]
  BY <1>1, <1>4 DEF Lists
<1>7. ListsAreQueues'
  BY <1>2, <1>3, <1>6 DEF ListsInv, ListsAreQueues, Lists
<1>8. PoolsCount'
  <2>1. /\ Len(Tail(contents[p])) = Len(contents[p]) - 1
        /\ Range(Tail(contents[p])) \subseteq Range(contents[p])
    BY <1>1, TakenFirst
  <2>2. \A r \in Pools : r \in Lists /\ poolCnt'[r] = IF r = p THEN poolCnt[p] - 1 ELSE poolCnt[r]
    BY <1>3 DEF ListsInv, ListsTypeOK, Lists
  <2> QED BY <1>4, <2>1, <2>2 DEF ListsInv, PoolsCount
<1> QED BY <1>2, <1>5, <1>7, <1>8 DEF ListsInv

LEMMA PutToPoolKeeps ==
  ASSUME ListsInv, NEW p \in Pools, NEW x \in Items, PutToPool(p, x)
  PROVE  ListsInv'
<1>1. p \in Lists /\ p \notin Queues
  BY ListsAssumption DEF Lists
<1>2. PICK s \in Seq(Items) : s = contents[p]
  BY <1>1 DEF ListsInv, ListsTypeOK
<1>3. PICK u \in Seq(Items) : u = <<x>> \o s
  BY Preceded
<1>4. /\ Len(u) = Len(s) + 1 /\ u[1] = x /\ \A i \in 1..Len(s) : u[i + 1] = s[i]
      /\ Len(s) \in Nat /\ DOMAIN s = 1..Len(s) /\ (s = <<>> <=> Len(s) = 0)
      /\ DOMAIN u = 1..(Len(s) + 1) /\ u # <<>>
  <2>1. Len(u) = Len(s) + 1 /\ u[1] = x /\ \A i \in 1..Len(s) : u[i + 1] = s[i]
    BY <1>3, Preceded
  <2>2. Len(s) \in Nat /\ DOMAIN s = 1..Len(s) /\ (s = <<>> <=> Len(s) = 0)
    BY EmptyOrNot
  <2>3. DOMAIN u = 1..Len(u) /\ (u = <<>> <=> Len(u) = 0)
    BY EmptyOrNot
  <2> QED BY <2>1, <2>2, <2>3
<1>5. x \in loose /\ x \in PoolItems(p) /\ \A l \in Lists : x \notin Range(contents[l])
  BY DEF PutToPool, ListsInv, Unshared
<1>6. Range(u) = {x} \cup Range(s) /\ IsInjective(u)
  <2>1. IsInjective(s) /\ x \notin Range(s)
    BY <1>1, <1>2, <1>5 DEF ListsInv, Unshared
  <2> QED BY <1>3, <2>1, InFront
<1>7. /\ \A l \in Lists : /\ contents'[l] = IF l = p THEN u ELSE contents[l]
                          /\ head'[l] = IF l = p THEN x ELSE head[l]
      /\ \A y \in Items : link'[y] = IF y = x THEN head[p] ELSE link[y]
      /\ \A r \in Pools : poolCnt'[r] = IF r = p THEN poolCnt[p] + 1 ELSE poolCnt[r]
      /\ tail' = tail
  BY <1>1, <1>2, <1>3 DEF PutToPool, ListsInv, ListsTypeOK
<1>8. ListsTypeOK'
  <2>1. head[p] \in Items \cup {NoItem}
    BY <1>1 DEF ListsInv, ListsTypeOK
  <2> QED BY <1>1, <1>2, <1>3, <2>1 DEF PutToPool, ListsInv, ListsTypeOK
<1>9. Unshared'
  <2>1. \A l \in Lists : IsInjective(contents'[l])
    BY <1>6, <1>7 DEF ListsInv, Unshared
  <2>2. \A l \in Lists : Range(contents'[l]) = IF l = p THEN {x} \cup Range(s) ELSE Range(contents[l])
    BY <1>6, <1>7
  <2>3. ASSUME NEW l \in Lists, NEW k \in Lists, l # k
        PROVE  Range(contents'[l]) \cap Range(contents'[k]) = {}
    <3>1. Range(contents[l]) \cap Range(contents[k]) = {}
      BY <2>3 DEF ListsInv, Unshared
    <3>2. x \notin Range(contents[l]) /\ x \notin Range(contents[k])
      BY <1>5
    <3> QED BY <1>2, <2>2, <2>3, <3>1, <3>2
  <2>4. \A y \in Items : y \in loose' <=> \A l \in Lists : y \notin Range(contents'[l])
    BY <1>1, <1>2, <2>2 DEF PutToPool, ListsInv, Unshared
  <2> QED BY <2>1, <2>3, <2>4 DEF Unshared
<1>10. ASSUME NEW l \in Lists, NEW i \in DOMAIN contents[l]
       PROVE  /\ contents[l][i] \in Items
              /\ link'[contents[l][i]] = IF i = Len(contents[l]) THEN NoItem ELSE contents[l][i + 1]
  <2>1. contents[l] \in Seq(Items) /\ Linked(head[l], contents[l])
    BY DEF ListsInv, ListsTypeOK, ListsAreQueues, Lists
  <2>2. contents[l][i] \in Items /\ contents[l][i] # x
    BY <1>5, <2>1 DEF Range
  <2> QED BY <1>7, <2>1, <2>2 DEF Linked
<1>11. ASSUME NEW l \in Lists PROVE Linked(head[l], contents[l])'
  <2>1. CASE l # p
    <3>1. Linked(head[l], contents[l])
      BY DEF ListsInv, ListsAreQueues, Lists
    <3> QED BY <1>7, <1>10, <2>1, <3>1 DEF Linked
  <2>2. CASE l = p
    <3>1. head[p] = First(s)
      BY <1>1, <1>2 DEF ListsInv, ListsAreQueues, Linked, Lists
    <3>2. ASSUME NEW i \in 1..(Len(s) + 1)
          PROVE  link'[u[i]] = IF i = Len(s) + 1 THEN NoItem ELSE u[i + 1]
      <4>1. CASE i = 1
        <5>1. link'[u[i]] = First(s)
          BY <1>4, <1>7, <3>1, <4>1
        <5>2. s # <<>> => 1 \in 1..Len(s) /\ u[1 + 1] = s[1] /\ i # Len(s) + 1
          BY <1>4, <4>1
        <5>3. s = <<>> => i = Len(s) + 1
          BY <1>4, <4>1
        <5> QED BY <4>1, <5>1, <5>2, <5>3 DEF First
      <4>2. CASE i # 1
        <5>1. PICK j \in 1..Len(s) : i = j + 1
          <6>1. i - 1 \in 1..Len(s) /\ i = (i - 1) + 1
            BY <1>4, <4>2
          <6> QED BY <6>1
        <5>2. u[i] = s[j] /\ (i = Len(s) + 1 <=> j = Len(s))
          <6>1. PICK len \in Nat : len = Len(s)
            BY <1>4
          <6>2. i = len + 1 <=> j = len
            BY <5>1, <6>1
          <6> QED BY <1>4, <5>1, <6>1, <6>2
        <5>3. j # Len(s) => j + 1 \in 1..Len(s)
          <6>1. PICK len \in Nat : len = Len(s)
            BY <1>4
          <6>2. j \in 1..len /\ j # len => j + 1 \in 1..len
            OBVIOUS
          <6> QED BY <6>1, <6>2
        <5>4. j # Len(s) => u[i + 1] = s[j + 1]
          BY <1>4, <5>1, <5>3
        <5>5. link'[s[j]] = IF j = Len(s) THEN NoItem ELSE s[j + 1]
          BY <1>1, <1>2, <1>4, <1>10
        <5> QED BY <5>2, <5>4, <5>5
      <4> QED BY <4>1, <4>2
    <3>3. contents'[l] = u /\ head'[l] = u[1]
      BY <1>4, <1>7, <2>2
    <3> QED BY <1>4, <3>2, <3>3 DEF Linked, First
  <2> QED BY <2>1, <2>2
<1>12. ListsAreQueues'
  BY <1>1, <1>7, <1>11 DEF ListsInv, ListsAreQueues, Lists
<1>13. PoolsCount'
  BY <1>2, <1>4, <1>5, <1>6, <1>7 DEF ListsInv, PoolsCount, Lists
<1> QED BY <1>8, <1>9, <1>12, <1>13 DEF ListsInv

(* Where an item is, as the property of the run says it.                   *)
LEMMA ApartItems ==
  ASSUME ListsInv
  PROVE  ItemsApart
<1> SUFFICES ASSUME NEW x \in Items
             PROVE  \/ x \in loose /\ \A l \in Lists : x \notin Range(contents[l])
                    \/ /\ x \notin loose
                       /\ \E l \in Lists :
                            /\ \E i \in DOMAIN contents[l] :
                                 {j \in DOMAIN contents[l] : contents[l][j] = x} = {i}
                            /\ \A k \in Lists \ {l} : x \notin Range(contents[k])
  BY DEF ItemsApart, Lists
<1>1. CASE x \in loose
  BY <1>1 DEF ListsInv, Unshared
<1>2. CASE x \notin loose
  <2>1. PICK l \in Lists : x \in Range(contents[l])
    BY <1>2 DEF ListsInv, Unshared
  <2>2. IsInjective(contents[l]) /\ \A k \in Lists \ {l} : x \notin Range(contents[k])
    BY <2>1 DEF ListsInv, Unshared
  <2>3. PICK i \in DOMAIN contents[l] : contents[l][i] = x
    BY <2>1 DEF Range
  <2>4. {j \in DOMAIN contents[l] : contents[l][j] = x} = {i}
    BY <2>2, <2>3 DEF IsInjective
  <2> QED BY <1>2, <2>2, <2>4
<1> QED BY <1>1, <1>2

(* In any configuration the linked lists are first-in first-out queues,    *)
(* and the pools stacks, an item is in one of them at most, and once, and  *)
(* a pool counts its messages: though the procedures that take an item     *)
(* leave tail and next stale.                                              *)
THEOREM ListsAreSound == ListsSpec => []ListsSound
<1>1. ListsInit => ListsInv
  BY ListsInitially
<1>2. ListsInv /\ [ListsNext]_listVars => ListsInv'
  <2>1. ASSUME ListsInv, UNCHANGED listVars PROVE ListsInv'
    BY <2>1 DEF listVars, ListsInv, ListsTypeOK, Unshared, ListsAreQueues, Linked, PoolsCount
  <2> QED BY <2>1, PutToQKeeps, GetFromQKeeps, PutToPoolKeeps, GetFromPoolKeeps DEF ListsNext
<1>3. ListsInv => ListsSound
  BY ApartItems DEF ListsInv, ListsSound
<1> QED BY <1>1, <1>2, <1>3, PTL DEF ListsSpec

-----------------------------------------------------------------------------
(* AlarmsV4, for timers of any width.                                      *)

(* The remainder of a division.                                            *)
LEMMA Divided ==
  ASSUME NEW t \in Nat \ {0}, NEW a \in Int
  PROVE  /\ (a % t) \in 0..(t - 1)
         /\ \E k \in Int : a = (k * t) + (a % t)
<1>1. a = (t * (a \div t)) + (a % t) /\ (a % t) \in 0..(t-1) /\ a \div t \in Int
  OBVIOUS
<1>2. t * (a \div t) = (a \div t) * t
  BY <1>1
<1> QED BY <1>1, <1>2

LEMMA SmallMultiple ==
  ASSUME NEW t \in Nat \ {0}, NEW k \in Int, -t < k * t, k * t < t
  PROVE  k * t = 0
<1>1. k >= 1 => k * t >= t
  OBVIOUS
<1>2. k <= -1 => k * t <= -t
  OBVIOUS
<1> QED BY <1>1, <1>2

LEMMA Remainder ==
  ASSUME NEW t \in Nat \ {0}, NEW k \in Int, NEW r \in 0..(t - 1)
  PROVE  ((k * t) + r) % t = r
<1> DEFINE a == (k * t) + r
<1>1. a \in Int
  OBVIOUS
<1>2. PICK j \in Int : a = (j * t) + (a % t) /\ (a % t) \in 0..(t - 1)
  BY <1>1, Divided
<1>3. (j - k) * t = r - (a % t)
  BY <1>2
<1>4. (j - k) * t = 0
  BY <1>2, <1>3, SmallMultiple
<1> HIDE DEF a
<1>5. r = a % t
  BY <1>2, <1>3, <1>4
<1> QED BY <1>5 DEF a

-----------------------------------------------------------------------------
Turn == 2^AlarmBits
Half == 2^(AlarmBits - 1)

LEMMA TurnIs == Half \in Nat \ {0} /\ Turn = 2 * Half /\ Turn \in Nat \ {0}
<1>1. AlarmBits - 1 \in Nat /\ (AlarmBits - 1) + 1 = AlarmBits
  BY AlarmAssumption
<1>2. Half \in Nat \ {0} /\ 2^((AlarmBits - 1) + 1) = 2 * Half
  BY <1>1, TwoToThe DEF Half
<1>3. Turn = 2^((AlarmBits - 1) + 1)
  BY <1>1 DEF Turn
<1> QED BY <1>2, <1>3

\* A word is what is left of a number
LEMMA WordIs ==
  ASSUME NEW k \in Int, NEW w \in 0..(Turn - 1)
  PROVE  AlarmWord((k * Turn) + w) = w
<1>1. AlarmWord((k * Turn) + w) = ((k * Turn) + w) % Turn
  BY DEF AlarmWord, Turn
<1> QED BY <1>1, TurnIs, Remainder

LEMMA WordOf ==
  ASSUME NEW a \in Int
  PROVE  /\ AlarmWord(a) \in 0..(Turn - 1)
         /\ \E k \in Int : a = (k * Turn) + AlarmWord(a)
<1>1. AlarmWord(a) = a % Turn
  BY DEF AlarmWord, Turn
<1> QED BY <1>1, TurnIs, Divided

LEMMA SmallWord ==
  ASSUME NEW w \in 0..(Turn - 1)
  PROVE  AlarmWord(w) = w
<1>1. (0 * Turn) + w = w
  BY TurnIs
<1> QED BY <1>1, WordIs

\* Numbers a whole number of turns apart have the same word
LEMMA WordsAgree ==
  ASSUME NEW a \in Int, NEW b \in Int, NEW j \in Int, a = (j * Turn) + b
  PROVE  AlarmWord(a) = AlarmWord(b)
<1>1. PICK k \in Int : b = (k * Turn) + AlarmWord(b)
  BY WordOf
<1>2. AlarmWord(b) \in 0..(Turn - 1)
  BY WordOf
<1>3. a = ((j + k) * Turn) + AlarmWord(b)
  BY <1>1, <1>2, TurnIs
<1> QED BY <1>2, <1>3, WordIs

LEMMA WordSums ==
  ASSUME NEW a \in Int, NEW b \in Int
  PROVE  /\ AlarmWord(AlarmWord(a) + b) = AlarmWord(a + b)
         /\ AlarmWord(b - AlarmWord(a)) = AlarmWord(b - a)
<1>1. PICK k \in Int : a = (k * Turn) + AlarmWord(a)
  BY WordOf
<1>2. AlarmWord(a) \in Int
  BY WordOf, TurnIs
<1>3. a + b = (k * Turn) + (AlarmWord(a) + b)
  BY <1>1, <1>2, TurnIs
<1>4. b - AlarmWord(a) = (k * Turn) + (b - a)
  BY <1>1, <1>2, TurnIs
<1> QED BY <1>2, <1>3, <1>4, WordsAgree

\* A tick brings a time that is ahead nearer by one, to zero if the timer has it then
LEMMA TickNearer ==
  ASSUME NEW x \in 0..(Turn - 1), NEW w \in 0..(Turn - 1), AlarmWord(x - w) > 0
  PROVE  /\ AlarmWord(x - AlarmWord(w + 1)) = AlarmWord(x - w) - 1
         /\ AlarmWord(w + 1) = x <=> AlarmWord(x - w) = 1
<1> DEFINE ahead == AlarmWord(x - w)
           nn == AlarmWord(w + 1)
<1>0. x - w \in Int /\ w + 1 \in Int
  BY TurnIs
<1>1. ahead \in 0..(Turn - 1) /\ nn \in 0..(Turn - 1)
  BY <1>0, WordOf
<1>2. AlarmWord(x - nn) = ahead - 1
  <2>1. AlarmWord(x - nn) = AlarmWord(x - (w + 1))
    BY WordSums, TurnIs
  <2>2. AlarmWord(ahead + (-1)) = AlarmWord((x - w) + (-1))
    BY WordSums, TurnIs
  <2>3. x - (w + 1) = (x - w) + (-1)
    BY TurnIs
  <2>4. AlarmWord(ahead + (-1)) = ahead + (-1)
    <3>1. ahead + (-1) \in 0..(Turn - 1)
      BY <1>1, TurnIs
    <3> QED BY <3>1, SmallWord
  <2> HIDE DEF ahead, nn
  <2> QED BY <1>1, <2>1, <2>2, <2>3, <2>4, TurnIs
<1>3. nn = x => ahead = 1
  <2>1. ASSUME nn = x PROVE ahead = 1
    <3>1. x - nn = 0 /\ 0 \in 0..(Turn - 1)
      BY <2>1, TurnIs
    <3>2. AlarmWord(x - nn) = 0
      BY <3>1, SmallWord
    <3> HIDE DEF ahead, nn
    <3> QED BY <1>1, <1>2, <3>2, TurnIs
  <2> QED BY <2>1
<1>4. ahead = 1 => nn = x
  <2>1. ASSUME ahead = 1 PROVE nn = x
    <3> HIDE DEF ahead, nn
    <3>0. x - nn \in Int
      BY <1>1, TurnIs
    <3>1. PICK k \in Int : x - nn = (k * Turn) + AlarmWord(x - nn)
      BY <3>0, WordOf
    <3>2. x - nn = k * Turn
      BY <1>1, <1>2, <2>1, <3>1, TurnIs
    <3>3. -Turn < x - nn /\ x - nn < Turn
      BY <1>1, TurnIs
    <3>4. k * Turn = 0
      BY <3>2, <3>3, TurnIs, SmallMultiple
    <3> QED BY <1>1, <3>2, <3>4, TurnIs
  <2> QED BY <2>1
<1> HIDE DEF ahead, nn
<1>5. AlarmWord(x - nn) = ahead - 1 /\ (nn = x <=> ahead = 1)
  BY <1>2, <1>3, <1>4
<1> QED BY <1>5 DEF ahead, nn

\* How far off a time within half the range is, can be read from the words
LEMMA AheadIs ==
  ASSUME NEW w \in 0..(Turn - 1), NEW d \in (-Half)..(Half - 1)
  PROVE  /\ AlarmSigned(AlarmWord(w + d) - w) = d
         /\ d >= 0 => AlarmWord(AlarmWord(w + d) - w) = d
<1>0. w \in Int /\ d \in Int /\ Half \in Nat /\ Turn = 2 * Half
  BY TurnIs
<1> DEFINE t == AlarmWord(w + d)
<1>1. AlarmWord(t + (Half - w)) = AlarmWord((w + d) + (Half - w))
  BY <1>0, WordSums
<1>2. (w + d) + (Half - w) = d + Half /\ d + Half \in 0..(Turn - 1)
  BY <1>0
<1>3. AlarmWord(t + (Half - w)) = d + Half
  BY <1>1, <1>2, SmallWord
<1>4. t \in Int
  BY <1>0, WordOf, TurnIs
<1>5. AlarmWord(t + (-w)) = AlarmWord((w + d) + (-w))
  BY <1>0, WordSums
<1>6. (w + d) + (-w) = d
  BY <1>0
<1>7. d >= 0 => d \in 0..(Turn - 1)
  BY <1>0
<1>8. d >= 0 => AlarmWord(t + (-w)) = d
  BY <1>5, <1>6, <1>7, SmallWord
<1> HIDE DEF t
<1>9. t + (-w) = t - w /\ t + (Half - w) = (t - w) + Half
  BY <1>0, <1>4
<1>10. AlarmSigned(t - w) = AlarmWord((t - w) + Half) - Half
  BY DEF AlarmSigned, Half
<1>11. AlarmSigned(t - w) = d
  BY <1>0, <1>3, <1>9, <1>10
<1>12. d >= 0 => AlarmWord(t - w) = d
  BY <1>8, <1>9
<1> QED BY <1>11, <1>12 DEF t

\* What Arm makes of a time: the time, or the margin from now
LEMMA RetimeIs ==
  ASSUME now \in 0..(Turn - 1), NEW d \in (-Half)..(Half - 1)
  PROVE  LET time == Retime(AlarmWord(now + d))
             ahead == AlarmWord(time - now)
         IN  /\ time \in 0..(Turn - 1)
             /\ Margin <= ahead /\ d <= ahead /\ (ahead <= d \/ ahead <= Margin)
<1>0. now \in Int /\ d \in Int /\ Half \in Nat /\ Turn = 2 * Half /\ Margin \in 0..(Half - 1)
  BY TurnIs, AlarmAssumption DEF Half
<1>1. AlarmSigned(AlarmWord(now + d) - now) = d
  BY AheadIs
<1>2. AlarmWord(now + d) \in 0..(Turn - 1) /\ AlarmWord(now + Margin) \in 0..(Turn - 1)
  BY <1>0, WordOf
<1>3. CASE d > Margin
  <2>1. Retime(AlarmWord(now + d)) = AlarmWord(now + d)
    BY <1>1, <1>3 DEF Retime
  <2>2. AlarmWord(AlarmWord(now + d) - now) = d
    BY <1>0, <1>3, AheadIs
  <2> QED BY <1>0, <1>2, <1>3, <2>1, <2>2
<1>4. CASE ~(d > Margin)
  <2>1. Retime(AlarmWord(now + d)) = AlarmWord(now + Margin)
    BY <1>1, <1>4 DEF Retime
  <2>2. Margin \in (-Half)..(Half - 1) /\ Margin >= 0
    BY <1>0
  <2>3. AlarmWord(AlarmWord(now + Margin) - now) = Margin
    BY <2>2, AheadIs
  <2> QED BY <1>0, <1>2, <1>4, <2>1, <2>3
<1> QED BY <1>3, <1>4

-----------------------------------------------------------------------------
(* The invariant.                                                          *)
AlarmTypes ==
  /\ now \in 0..(Turn - 1) /\ alarm \in 0..(Turn - 1)
  /\ alarmTime \in 0..(Turn - 1) /\ retimed \in 0..(Turn - 1)
  /\ armed \in BOOLEAN /\ asserted \in BOOLEAN /\ woken \in BOOLEAN /\ found \in BOOLEAN
  /\ actor \in {"idle", "ready", "run", "arm", "get", "wait", "waiting", "found"}
  /\ handler \in {"off", "put", "hand"}
  /\ message \in {"free", "queued", "got", "given"}
  /\ due \in Int /\ late \in Nat

\* In, or past, the GetMsg that follows Arm
Getting == actor \in {"get", "wait", "waiting"}

\* What is on the way from Arm to the run of the actor is in one place
Stages ==
  /\ armed => ~asserted /\ handler = "off" /\ message = "free" /\ Getting
  /\ asserted => handler = "off" /\ message = "free" /\ Getting
  /\ handler = "put" => message = "free" /\ Getting
  /\ handler = "hand" =>
       /\ message = "free"
       /\ found \/ (Getting /\ alarmPrio = "above")
  /\ found => handler = "hand" /\ actor = "found"
  /\ actor = "found" => found
  /\ message = "queued" => handler = "off" /\ Getting /\ alarmPrio = "above"
  /\ message = "got" => handler = "off" /\ actor = "wait" /\ alarmPrio = "above"
  /\ message = "given" => handler = "off" /\ actor = "ready"

\* The time asked for is where due says, until the actor has other things to do
OnTime ==
  (actor \in {"arm", "get", "wait", "waiting", "found"} \/ message = "given"
     \/ (actor = "run" /\ woken)) => alarmTime = AlarmWord(now + due)

\* The register is about to be written with a time that is still ahead
StillAhead ==
  actor = "arm" =>
    LET ahead == AlarmWord(retimed - now) IN
      /\ late <= Inside
      /\ Margin - late <= ahead /\ due <= ahead /\ (ahead <= due \/ ahead <= Margin)

\* The alarm is over when it has gone off
Over ==
  asserted \/ handler # "off" \/ message # "free" \/ (actor = "run" /\ woken) => due <= 0

AlarmInv == AlarmTypes /\ Stages /\ OnTime /\ StillAhead /\ Over /\ FiresInTime

LEMMA AlarmInvInit == AlarmInit => AlarmInv
<1> SUFFICES ASSUME AlarmInit PROVE AlarmInv
  OBVIOUS
<1>1. /\ ~armed /\ ~asserted /\ ~woken /\ ~found /\ actor = "idle" /\ handler = "off"
      /\ message = "free"
  BY DEF AlarmInit
<1>2. AlarmTypes
  <2>1. 0 \in 0..(Turn - 1)
    BY TurnIs
  <2>2. armed \in BOOLEAN /\ asserted \in BOOLEAN /\ woken \in BOOLEAN /\ found \in BOOLEAN
    BY Zenon DEF AlarmInit
  <2>3. due \in Int /\ late \in Nat /\ now = 0 /\ alarm = 0 /\ alarmTime = 0 /\ retimed = 0
    BY DEF AlarmInit
  <2> QED BY <1>1, <2>1, <2>2, <2>3 DEF AlarmTypes
<1>3. Stages /\ OnTime /\ StillAhead /\ Over /\ FiresInTime
  BY <1>1 DEF Stages, OnTime, StillAhead, Over, FiresInTime
<1> QED BY <1>2, <1>3 DEF AlarmInv

LEMMA InvIsSound == AlarmInv => AlarmsSound
BY DEF AlarmInv, AlarmTypes, Stages, Getting, OnTime, Over, AlarmsSound, FiresInTime, NeverEarly,
       OneAtATime, NotStranded

-----------------------------------------------------------------------------
LEMMA TickKeeps == AlarmInv /\ AlarmTick => AlarmInv'
<1> SUFFICES ASSUME AlarmInv, AlarmTick PROVE AlarmInv'
  OBVIOUS
<1>0. now \in 0..(Turn - 1) /\ alarm \in 0..(Turn - 1) /\ retimed \in 0..(Turn - 1)
      /\ Turn \in Nat /\ due \in Int /\ late \in Nat /\ Inside \in Nat /\ Margin \in Nat /\ Inside < Margin
  BY TurnIs, AlarmAssumption DEF AlarmInv, AlarmTypes
<1> DEFINE fires == armed /\ AlarmWord(now + 1) = alarm
<1>1. /\ now' = AlarmWord(now + 1)
      /\ armed' = (armed /\ ~fires) /\ asserted' = (asserted \/ fires)
      /\ due' = (IF actor = "idle" THEN 0 ELSE due - 1)
      /\ late' = (IF armed \/ actor = "idle" THEN 0 ELSE late + 1)
      /\ actor = "arm" => armed \/ late < Inside
      /\ UNCHANGED <<alarmPrio, alarm, alarmTime, retimed, actor, woken, handler, found, message>>
  BY Zenon DEF AlarmTick, times
<1>10. /\ armed' => armed /\ ~fires
       /\ asserted' => asserted \/ fires
       /\ fires => armed
  BY <1>1
<1>2. AlarmTypes'
  BY <1>0, <1>1, WordOf DEF AlarmInv, AlarmTypes
<1>3. Stages'
  BY <1>1 DEF AlarmInv, AlarmTypes, Stages, Getting
<1>4. OnTime'
  <2>1. actor # "idle" => AlarmWord(now' + due') = AlarmWord(now + due)
    <3>1. AlarmWord(AlarmWord(now + 1) + (due - 1)) = AlarmWord((now + 1) + (due - 1))
      BY <1>0, WordSums
    <3>2. (now + 1) + (due - 1) = now + due
      BY <1>0
    <3> QED BY <1>1, <3>1, <3>2
  <2>2. message = "given" => actor # "idle"
    BY DEF AlarmInv, Stages
  <2> QED BY <1>1, <2>1, <2>2 DEF AlarmInv, OnTime
<1>5. FiresInTime' /\ (fires => due' <= 0)
  <2>1. CASE armed
    <3>1. AlarmWord(alarm - now) > 0 /\ AlarmWord(alarm - now) \in Nat
      BY <1>0, <2>1, WordOf DEF AlarmInv, FiresInTime
    <3>2. AlarmWord(alarm - now') = AlarmWord(alarm - now) - 1 /\ (fires <=> AlarmWord(alarm - now) = 1)
      BY <1>0, <1>1, <2>1, <3>1, TickNearer
    <3>3. actor # "idle"
      BY <2>1 DEF AlarmInv, Stages, Getting
    <3>4. /\ due <= AlarmWord(alarm - now)
          /\ AlarmWord(alarm - now) <= due \/ AlarmWord(alarm - now) <= Margin
      BY <2>1 DEF AlarmInv, FiresInTime
    <3> HIDE DEF fires
    <3>5. due' = due - 1 /\ alarm' = alarm
      BY <1>1, <3>3
    <3>6. fires => due' <= 0
      BY <1>0, <3>2, <3>4, <3>5
    <3>7. ASSUME armed' PROVE FiresInTime'
      <4>1. AlarmWord(alarm - now) # 1
        BY <1>10, <3>2, <3>7
      <4> QED BY <1>0, <3>1, <3>2, <3>4, <3>5, <4>1 DEF FiresInTime
    <3>8. ~armed' => FiresInTime'
      BY DEF FiresInTime
    <3> QED BY <3>6, <3>7, <3>8
  <2>2. CASE ~armed
    BY <1>1, <2>2 DEF FiresInTime
  <2> QED BY <2>1, <2>2 DEF AlarmInv, AlarmTypes
<1>6. StillAhead'
  <2> SUFFICES ASSUME actor = "arm" PROVE StillAhead'
    BY <1>1 DEF StillAhead
  <2>1. ~armed
    BY DEF AlarmInv, Stages, Getting
  <2>2. AlarmWord(retimed - now) > 0 /\ AlarmWord(retimed - now) \in Nat
    BY <1>0, <1>1, <2>1, WordOf DEF AlarmInv, StillAhead
  <2>3. AlarmWord(retimed - now') = AlarmWord(retimed - now) - 1
    BY <1>0, <1>1, <2>2, TickNearer
  <2> QED BY <1>0, <1>1, <2>1, <2>2, <2>3 DEF AlarmInv, StillAhead
<1>7. Over'
  <2> HIDE DEF fires
  <2>1. CASE fires
    BY <1>5, <2>1 DEF Over
  <2>2. CASE ~fires
    <3>1. due <= 0 => due' <= 0
      BY <1>0, <1>1
    <3> QED BY <1>1, <1>10, <2>2, <3>1 DEF AlarmInv, Over
  <2> QED BY <2>1, <2>2
<1> QED BY <1>2, <1>3, <1>4, <1>5, <1>6, <1>7 DEF AlarmInv

LEMMA BeginArmKeeps ==
  ASSUME AlarmInv, NEW d \in (-Half)..(Half - 1), BeginArm(AlarmWord(now + d), d)
  PROVE  AlarmInv'
<1>0. now \in 0..(Turn - 1) /\ d \in Int /\ now + d \in Int /\ Turn \in Nat /\ Inside \in Nat /\ Margin \in Nat
  BY TurnIs, AlarmAssumption DEF AlarmInv, AlarmTypes
<1>1. /\ actor = "run" /\ actor' = "arm" /\ alarmTime' = AlarmWord(now + d)
      /\ retimed' = Retime(AlarmWord(now + d)) /\ due' = d /\ late' = 0
      /\ UNCHANGED <<alarmPrio, now, alarm, armed, asserted, woken, handler, found, message>>
  BY DEF BeginArm, hardware
<1>2. /\ retimed' \in 0..(Turn - 1)
      /\ Margin <= AlarmWord(retimed' - now)
      /\ d <= AlarmWord(retimed' - now)
      /\ AlarmWord(retimed' - now) <= d \/ AlarmWord(retimed' - now) <= Margin
  BY <1>0, <1>1, RetimeIs
<1>3. ~armed /\ ~asserted /\ handler = "off" /\ message = "free" /\ ~found
  BY <1>1 DEF AlarmInv, AlarmTypes, Stages, Getting
<1>4. AlarmTypes'
  BY <1>0, <1>1, <1>2, WordOf DEF AlarmInv, AlarmTypes
<1>5. Stages'
  BY <1>1, <1>3 DEF Stages
<1>6. OnTime' /\ Over' /\ FiresInTime'
  BY <1>1, <1>3 DEF OnTime, Over, FiresInTime
<1>7. StillAhead'
  BY <1>0, <1>1, <1>2 DEF StillAhead
<1> QED BY <1>4, <1>5, <1>6, <1>7 DEF AlarmInv

LEMMA ArmKeeps == AlarmInv /\ ArmAlarm => AlarmInv'
<1> SUFFICES ASSUME AlarmInv, NEW d \in AlarmDelays, BeginArm(AlarmWord(now + d), d) PROVE AlarmInv'
  BY DEF ArmAlarm
<1>1. d \in (-Half)..(Half - 1)
  BY TurnIs, AlarmAssumption DEF Half
<1> QED BY <1>1, BeginArmKeeps

LEMMA RearmKeeps == AlarmInv /\ RearmAlarm => AlarmInv'
<1> SUFFICES ASSUME AlarmInv, woken, NEW d \in AlarmDelays, d >= 0, due + d >= -Behind,
                    BeginArm(AlarmWord(alarmTime + d), due + d)
             PROVE  AlarmInv'
  BY DEF RearmAlarm
<1>1. actor = "run"
  BY DEF BeginArm
<1>2. due <= 0 /\ alarmTime = AlarmWord(now + due) /\ due \in Int /\ now \in Int /\ d \in Int
  BY <1>1, TurnIs, AlarmAssumption DEF AlarmInv, AlarmTypes, OnTime, Over
<1>3. due + d \in (-Half)..(Half - 1)
  BY <1>2, TurnIs, AlarmAssumption DEF Half
<1>4. AlarmWord(alarmTime + d) = AlarmWord(now + (due + d))
  <2>1. AlarmWord(AlarmWord(now + due) + d) = AlarmWord((now + due) + d)
    BY <1>2, WordSums
  <2>2. (now + due) + d = now + (due + d)
    BY <1>2
  <2> QED BY <1>2, <2>1, <2>2
<1> QED BY <1>3, <1>4, BeginArmKeeps

LEMMA SetAlarmKeeps == AlarmInv /\ SetAlarm => AlarmInv'
<1> SUFFICES ASSUME AlarmInv, SetAlarm PROVE AlarmInv'
  OBVIOUS
<1>1. /\ actor = "arm" /\ actor' = "get" /\ alarm' = retimed /\ armed' = TRUE /\ late' = 0
      /\ UNCHANGED <<alarmPrio, now, asserted, alarmTime, retimed, woken, handler, found, message, due>>
  BY DEF SetAlarm, times
<1>2. ~asserted /\ handler = "off" /\ message = "free" /\ ~found
  BY <1>1 DEF AlarmInv, AlarmTypes, Stages, Getting
<1>3. AlarmTypes' /\ Stages' /\ OnTime' /\ StillAhead' /\ Over'
  BY <1>1, <1>2 DEF AlarmInv, AlarmTypes, Stages, Getting, OnTime, StillAhead, Over
<1>4. FiresInTime'
  <2>1. AlarmWord(retimed - now) \in Int /\ late \in Nat /\ Inside < Margin /\ Inside \in Nat /\ Margin \in Nat
    BY WordOf, TurnIs, AlarmAssumption DEF AlarmInv, AlarmTypes
  <2> QED BY <1>1, <2>1 DEF AlarmInv, StillAhead, FiresInTime
<1> QED BY <1>3, <1>4 DEF AlarmInv

\* The other steps leave the timer and the times alone
LEMMA OthersKeep ==
  AlarmInv /\ (OtherEvent \/ Rest \/ RunActor \/ GetAlarmMsg \/ AwaitAlarm \/ AlarmHandler) => AlarmInv'
<1> SUFFICES ASSUME AlarmInv, OtherEvent \/ Rest \/ RunActor \/ GetAlarmMsg \/ AwaitAlarm \/ AlarmHandler
             PROVE  AlarmInv'
  OBVIOUS
<1> USE DEF AlarmInv, AlarmTypes, Stages, Getting, OnTime, StillAhead, Over, FiresInTime, hardware, times
<1>1. CASE OtherEvent
  BY <1>1 DEF OtherEvent
<1>2. CASE Rest
  BY <1>2 DEF Rest
<1>3. CASE RunActor
  BY <1>3 DEF RunActor
<1>4. CASE GetAlarmMsg
  BY <1>4 DEF GetAlarmMsg, ActorMay
<1>5. CASE AwaitAlarm
  BY <1>5 DEF AwaitAlarm, ActorMay
<1>6. CASE EnterAlarmHandler
  BY <1>6 DEF EnterAlarmHandler, HandlerMay, Shut, InRunQueue
<1>7. CASE FindWaitingActor
  BY <1>7 DEF FindWaitingActor, HandlerMay, Shut, InRunQueue
<1>8. CASE PutAlarmMsg
  BY <1>8 DEF PutAlarmMsg, HandlerMay, Shut, InRunQueue
<1> QED BY <1>1, <1>2, <1>3, <1>4, <1>5, <1>6, <1>7, <1>8 DEF AlarmHandler

(* Alarms are neither early nor missed, one at a time, and not overlooked, *)
(* for every width of the timer, every margin that Arm keeps to, and every *)
(* delay within half the range.                                            *)
THEOREM AlarmsAreSound == AlarmSpec => []AlarmsSound
<1>1. AlarmInv /\ UNCHANGED alarmVars => AlarmInv'
  BY DEF alarmVars, AlarmInv, AlarmTypes, Stages, Getting, OnTime, StillAhead, Over, FiresInTime
<1>2. AlarmInv /\ [AlarmNext]_alarmVars => AlarmInv'
  BY <1>1, TickKeeps, ArmKeeps, RearmKeeps, SetAlarmKeeps, OthersKeep DEF AlarmNext, AlarmActor
<1> QED BY <1>2, AlarmInvInit, InvIsSound, PTL DEF AlarmSpec

-----------------------------------------------------------------------------
(* SemaphoresV4, for any number of actors.                                 *)

SemPlaces == {"out", "claim", "waiting", "ready", "owner", "release"}

SemTypeOK ==
  /\ urgency \in [SemActors -> Nat]
  /\ place \in [SemActors -> SemPlaces]
  /\ holder \in SemActors \cup {Nobody}
  /\ claims \in Seq(SemActors)
  /\ heir \in SemActors \cup {Nobody}

\* Who has got the message is on the way through the semaphore
Holding ==
  /\ \A a \in SemActors : place[a] \in {"ready", "owner", "release"} => holder = a
  /\ heir # Nobody => \E a \in SemActors : place[a] = "release"

\* Who waits is in the queue, once, or has just been taken from it
Queueing ==
  /\ IsInjective(claims)
  /\ \A a \in SemActors : place[a] = "waiting" <=> a = heir \/ a \in Range(claims)
  /\ heir \notin Range(claims)

\* Between the halves of a call nothing has changed, if nobody may pre-empt
Undisturbed ==
  OneLevel =>
    /\ \A a \in SemActors : place[a] = "claim" => holder # Nobody
    /\ \A a \in SemActors : place[a] = "release" /\ heir = Nobody => claims = <<>>

SemInv == SemTypeOK /\ Holding /\ Queueing /\ Undisturbed

-----------------------------------------------------------------------------
(* The initial state satisfies the invariant.                              *)
LEMMA SemInitially == SemV4Init => SemInv
<1> SUFFICES ASSUME SemV4Init PROVE SemInv
  OBVIOUS
<1> USE SemaphoreV4Assumption DEF SemaphoreV4Assumption, SemV4Init, SemPlaces
<1>1. SemTypeOK
  BY DEF SemTypeOK
<1>2. Holding
  BY DEF Holding
<1>3. Queueing
  <2>1. Range(claims) = {} /\ IsInjective(claims)
    BY DEF Range, IsInjective
  <2> QED BY <2>1 DEF Queueing
<1>4. Undisturbed
  BY DEF Undisturbed
<1> QED BY <1>1, <1>2, <1>3, <1>4 DEF SemInv

(* Nothing changes in a stuttering step.                                   *)
LEMMA SemStutter == SemInv /\ UNCHANGED semV4Vars => SemInv'
BY DEF SemInv, SemTypeOK, Holding, Queueing, Undisturbed, OneLevel, semV4Vars

(* The first half of Claim takes a free message.                           *)
LEMMA BeginClaimStep == ASSUME NEW a \in SemActors, SemInv, BeginClaim(a) PROVE SemInv'
<1> USE SemaphoreV4Assumption DEF SemaphoreV4Assumption, SemInv, SemPlaces
<1>1. /\ place[a] = "out" /\ place' = [place EXCEPT ![a] = "claim"]
      /\ holder' = (IF holder = Nobody THEN a ELSE holder)
      /\ urgency' = urgency /\ claims' = claims /\ heir' = heir
  BY DEF BeginClaim, SemAt, MoveTo
<1> USE DEF SemTypeOK
<1>2. SemTypeOK'
  BY <1>1
<1>3. Holding'
  BY <1>1 DEF Holding
<1>4. Queueing'
  BY <1>1 DEF Queueing
<1>5. Undisturbed'
  BY <1>1 DEF Undisturbed, OneLevel
<1> QED BY <1>2, <1>3, <1>4, <1>5

(* The second half ends ready with the message, or waits for it.           *)
LEMMA EndClaimStep == ASSUME NEW a \in SemActors, SemInv, EndClaim(a) PROVE SemInv'
<1> USE SemaphoreV4Assumption DEF SemaphoreV4Assumption, SemInv, SemPlaces
<1>1. /\ place[a] = "claim" /\ SemMay(a)
      /\ urgency' = urgency /\ holder' = holder /\ heir' = heir
      /\ \/ holder = a /\ place' = [place EXCEPT ![a] = "ready"] /\ claims' = claims
         \/ place' = [place EXCEPT ![a] = "waiting"] /\ claims' = Append(claims, a)
  BY DEF EndClaim, SemAt, MoveTo
<1>2. CASE holder = a /\ place' = [place EXCEPT ![a] = "ready"] /\ claims' = claims
  <2>1. SemTypeOK'
    BY <1>1, <1>2 DEF SemTypeOK
  <2>2. Holding'
    BY <1>1, <1>2 DEF Holding, SemTypeOK
  <2>3. Queueing'
    BY <1>1, <1>2 DEF Queueing, SemTypeOK
  <2>4. Undisturbed'
    BY <1>1, <1>2 DEF Undisturbed, OneLevel, SemTypeOK
  <2> QED BY <2>1, <2>2, <2>3, <2>4
<1>3. CASE place' = [place EXCEPT ![a] = "waiting"] /\ claims' = Append(claims, a)
  <2>0. a \notin Range(claims) /\ a # heir
    BY <1>1 DEF Queueing
  <2>1. /\ claims' \in Seq(SemActors) /\ Range(claims') = Range(claims) \cup {a}
        /\ IsInjective(claims')
    BY <1>3, <2>0, AppendRange DEF SemTypeOK, Queueing
  <2>2. SemTypeOK'
    BY <1>1, <1>3, <2>1 DEF SemTypeOK
  <2>3. Holding'
    BY <1>1, <1>3 DEF Holding, SemTypeOK
  <2>4. Queueing'
    BY <1>1, <1>3, <2>0, <2>1 DEF Queueing, SemTypeOK
  <2>5. ASSUME OneLevel, NEW b \in SemActors, place[b] = "release" PROVE FALSE
    <3>1. b \in Busy \ {a} /\ urgency[b] = urgency[a] /\ urgency[a] \in Nat
      BY <1>1, <2>5 DEF Busy, OneLevel, SemTypeOK
    <3> QED BY <1>1, <3>1 DEF SemMay
  <2>6. Undisturbed'
    BY <1>1, <1>3, <2>5 DEF Undisturbed, OneLevel, SemTypeOK
  <2> QED BY <2>2, <2>3, <2>4, <2>6
<1> QED BY <1>1, <1>2, <1>3

(* A run moves the owner on.                                               *)
LEMMA RunOwnerStep == ASSUME NEW a \in SemActors, SemInv, RunOwner(a) PROVE SemInv'
<1> USE SemaphoreV4Assumption DEF SemaphoreV4Assumption, SemInv, SemPlaces
<1>1. /\ place[a] = "ready" /\ place' = [place EXCEPT ![a] = "owner"]
      /\ urgency' = urgency /\ holder' = holder /\ claims' = claims /\ heir' = heir
  BY DEF RunOwner, SemAt, MoveTo
<1>2. SemTypeOK'
  BY <1>1 DEF SemTypeOK
<1>3. Holding'
  BY <1>1 DEF Holding, SemTypeOK
<1>4. Queueing'
  BY <1>1 DEF Queueing, SemTypeOK
<1>5. Undisturbed'
  BY <1>1 DEF Undisturbed, OneLevel, SemTypeOK
<1> QED BY <1>2, <1>3, <1>4, <1>5

(* The first half of Release takes whoever has waited longest.             *)
LEMMA BeginReleaseStep == ASSUME NEW a \in SemActors, SemInv, BeginRelease(a) PROVE SemInv'
<1> USE SemaphoreV4Assumption DEF SemaphoreV4Assumption, SemInv, SemPlaces
<1>1. /\ place[a] = "owner" /\ place' = [place EXCEPT ![a] = "release"]
      /\ urgency' = urgency /\ holder' = holder
      /\ \/ claims = <<>> /\ claims' = claims /\ heir' = heir
         \/ claims # <<>> /\ heir' = Head(claims) /\ claims' = Tail(claims)
  BY DEF BeginRelease, SemAt, MoveTo
<1>2. holder = a /\ heir = Nobody
  <2>1. holder = a
    BY <1>1 DEF Holding
  <2>2. ASSUME heir # Nobody PROVE FALSE
    <3>1. PICK b \in SemActors : place[b] = "release"
      BY <2>2 DEF Holding
    <3> QED BY <1>1, <2>1, <3>1 DEF Holding
  <2> QED BY <2>1, <2>2
<1>3. Holding'
  BY <1>1 DEF Holding, SemTypeOK
<1>4. CASE claims = <<>> /\ claims' = claims /\ heir' = heir
  <2>1. SemTypeOK'
    BY <1>1, <1>4 DEF SemTypeOK
  <2>2. Queueing'
    BY <1>1, <1>4 DEF Queueing, SemTypeOK
  <2>3. Undisturbed'
    BY <1>1, <1>4 DEF Undisturbed, OneLevel, SemTypeOK
  <2> QED BY <1>3, <2>1, <2>2, <2>3
<1>5. CASE claims # <<>> /\ heir' = Head(claims) /\ claims' = Tail(claims)
  <2>1. /\ heir' \in SemActors /\ claims' \in Seq(SemActors)
        /\ Range(claims) = {heir'} \cup Range(claims')
        /\ IsInjective(claims') /\ heir' \notin Range(claims')
    BY <1>5, HeadAndTail DEF SemTypeOK, Queueing
  <2>2. SemTypeOK'
    BY <1>1, <2>1 DEF SemTypeOK
  <2>3. Queueing'
    BY <1>1, <1>2, <2>1 DEF Queueing, SemTypeOK
  <2>4. \A b \in SemActors : place[b] # "release"
    BY <1>1, <1>2 DEF Holding
  <2>5. Undisturbed'
    BY <1>1, <2>1, <2>4 DEF Undisturbed, OneLevel, SemTypeOK
  <2> QED BY <1>3, <2>2, <2>3, <2>5
<1> QED BY <1>1, <1>4, <1>5

(* The second half hands the message on, or puts it into the queue.        *)
LEMMA EndReleaseStep == ASSUME NEW a \in SemActors, SemInv, EndRelease(a) PROVE SemInv'
<1> USE SemaphoreV4Assumption DEF SemaphoreV4Assumption, SemInv, SemPlaces
<1>1. /\ place[a] = "release" /\ SemMay(a)
      /\ place' = [b \in SemActors |->
                     IF b = a THEN "out" ELSE IF b = heir THEN "ready" ELSE place[b]]
      /\ urgency' = urgency /\ holder' = heir /\ claims' = claims /\ heir' = Nobody
  BY DEF EndRelease, SemAt
<1>2. heir # a /\ \A b \in SemActors \ {a} : place[b] \notin {"ready", "owner", "release"}
  BY <1>1 DEF Holding, Queueing
<1>3. SemTypeOK'
  BY <1>1 DEF SemTypeOK
<1>4. Holding'
  BY <1>1, <1>2 DEF Holding, SemTypeOK
<1>5. Queueing'
  <2>1. Range(claims) \subseteq SemActors
    BY DEF SemTypeOK, Range
  <2> QED BY <1>1, <1>2, <2>1 DEF Queueing, SemTypeOK
<1>6. ASSUME OneLevel, NEW b \in SemActors, place[b] = "claim" PROVE FALSE
  <2>1. b \in Busy \ {a} /\ urgency[b] = urgency[a] /\ urgency[a] \in Nat
    BY <1>1, <1>6 DEF Busy, OneLevel, SemTypeOK
  <2> QED BY <1>1, <2>1 DEF SemMay
<1>7. Undisturbed'
  BY <1>1, <1>2, <1>6 DEF Undisturbed, OneLevel, SemTypeOK
<1> QED BY <1>3, <1>4, <1>5, <1>7

LEMMA SemStep == SemInv /\ [SemV4Next]_semV4Vars => SemInv'
BY SemStutter, BeginClaimStep, EndClaimStep, RunOwnerStep, BeginReleaseStep, EndReleaseStep
   DEF SemV4Next, SemV4Step

LEMMA SemInvariant == SemV4Spec => []SemInv
<1>1. SemV4Init => SemInv
  BY SemInitially
<1>2. SemInv /\ [SemV4Next]_semV4Vars => SemInv'
  BY SemStep
<1> QED BY <1>1, <1>2, PTL DEF SemV4Spec

(* Whatever the priorities of the actors that use a semaphore of kernel-v4 *)
(* (Semaphores.Claim, Semaphores.Release), one of them owns it at a time,  *)
(* and who waits is in its queue once.                                     *)
THEOREM SemaphoreHasOneHolder == SemV4Spec => []OneHolder
<1>1. SemInv => OneHolder
  <2> SUFFICES ASSUME SemInv PROVE OneHolder
    OBVIOUS
  <2>1. Range(claims) \subseteq SemActors /\ heir \in SemActors \cup {Nobody}
        /\ Nobody \notin SemActors
    BY SemaphoreV4Assumption DEF SemInv, SemTypeOK, Range, SemaphoreV4Assumption
  <2>2. IsInjective(WaitersV4) /\ Range(WaitersV4) = Range(claims) \cup ({heir} \ {Nobody})
    <3>1. CASE heir = Nobody
      BY <3>1, <2>1 DEF WaitersV4, SemInv, Queueing
    <3>2. CASE heir # Nobody
      <4>1. heir \in SemActors /\ claims \in Seq(SemActors)
            /\ IsInjective(claims) /\ heir \notin Range(claims)
        BY <3>2, <2>1 DEF SemInv, SemTypeOK, Queueing
      <4>2. WaitersV4 = <<heir>> \o claims
        BY <3>2 DEF WaitersV4
      <4> QED BY <3>2, <4>1, <4>2, InFront
    <3> QED BY <3>1, <3>2
  <2>3. Range(WaitersV4) = {a \in SemActors : place[a] = "waiting"}
    BY <2>1, <2>2 DEF SemInv, Queueing
  <2> QED BY <2>2, <2>3 DEF OneHolder, SemInv, Holding
<1> QED BY <1>1, SemInvariant, PTL

-----------------------------------------------------------------------------
(* The steps of the lock: who claims gets it, or is the last to wait.      *)
LEMMA ClaimsLikeLock ==
  ASSUME SemInv, OneLevel, NEW a \in SemActors, BeginClaim(a) \/ EndClaim(a)
  PROVE  LockV4!Next \/ UNCHANGED <<holder, WaitersV4>>
<1> USE SemaphoreV4Assumption DEF SemaphoreV4Assumption, SemInv
<1>1. CASE BeginClaim(a)
  <2>1. heir' = heir /\ claims' = claims /\ WaitersV4' = WaitersV4
    BY <1>1 DEF BeginClaim, WaitersV4
  <2>2. CASE holder = Nobody
    BY <1>1, <2>1, <2>2 DEF BeginClaim, LockV4!Next, LockV4!Acquire
  <2>3. CASE holder # Nobody
    BY <1>1, <2>1, <2>3 DEF BeginClaim
  <2> QED BY <2>2, <2>3
<1>2. CASE EndClaim(a)
  <2>1. place[a] = "claim" /\ heir' = heir /\ holder' = holder /\ holder # Nobody
    BY <1>2 DEF EndClaim, SemAt, Undisturbed
  <2>2. CASE holder = a /\ claims' = claims
    BY <2>1, <2>2 DEF WaitersV4
  <2>3. CASE holder # a /\ claims' = Append(claims, a)
    <3>1. claims \in Seq(SemActors) /\ heir \in SemActors \cup {Nobody}
      BY DEF SemTypeOK
    <3>2. CASE heir = Nobody
      BY <2>1, <2>3, <3>2 DEF WaitersV4, LockV4!Next, LockV4!Wait
    <3>3. CASE heir # Nobody
      <4>1. heir \in SemActors
        BY <3>1, <3>3
      <4>2. <<heir>> \o Append(claims, a) = Append(<<heir>> \o claims, a)
        BY <3>1, <4>1
      <4>3. WaitersV4' = Append(WaitersV4, a)
        BY <2>1, <2>3, <3>3, <4>2 DEF WaitersV4
      <4> QED BY <2>1, <2>3, <4>3 DEF LockV4!Next, LockV4!Wait
    <3> QED BY <3>2, <3>3
  <2> QED BY <1>2, <2>2, <2>3 DEF EndClaim
<1> QED BY <1>1, <1>2

(* Who releases it hands it to the first that waits, if there is one.      *)
LEMMA ReleasesLikeLock ==
  ASSUME SemInv, OneLevel, NEW a \in SemActors, BeginRelease(a) \/ EndRelease(a)
  PROVE  LockV4!Next \/ UNCHANGED <<holder, WaitersV4>>
<1> USE SemaphoreV4Assumption DEF SemaphoreV4Assumption, SemInv
<1>0. claims \in Seq(SemActors) /\ heir \in SemActors \cup {Nobody}
  BY DEF SemTypeOK
<1>1. CASE BeginRelease(a)
  <2>1. holder' = holder /\ place[a] = "owner"
    BY <1>1 DEF BeginRelease, SemAt
  <2>2. heir = Nobody
    <3> SUFFICES ASSUME heir # Nobody PROVE FALSE
      OBVIOUS
    <3>1. PICK b \in SemActors : place[b] = "release"
      BY DEF Holding
    <3> QED BY <2>1, <3>1 DEF Holding
  <2>3. CASE claims # <<>> /\ heir' = Head(claims) /\ claims' = Tail(claims)
    <3>1. Head(claims) \in SemActors /\ <<Head(claims)>> \o Tail(claims) = claims
      BY <1>0, <2>3, HeadAndTail
    <3>2. heir' # Nobody
      BY <2>3, <3>1
    <3> QED BY <2>1, <2>2, <2>3, <3>1, <3>2 DEF WaitersV4
  <2>4. CASE UNCHANGED <<claims, heir>>
    BY <2>1, <2>4 DEF WaitersV4
  <2> QED BY <1>1, <2>3, <2>4 DEF BeginRelease
<1>2. CASE EndRelease(a)
  <2>1. /\ place[a] = "release" /\ holder = a /\ holder # Nobody
        /\ holder' = heir /\ claims' = claims /\ heir' = Nobody /\ WaitersV4' = claims
    BY <1>2 DEF EndRelease, SemAt, Holding, WaitersV4
  <2>2. CASE heir = Nobody
    <3>1. claims = <<>>
      BY <2>1, <2>2 DEF Undisturbed
    <3> QED BY <2>1, <2>2, <3>1 DEF WaitersV4, LockV4!Next, LockV4!Free
  <2>3. CASE heir # Nobody
    <3>1. WaitersV4 # <<>> /\ Head(WaitersV4) = heir /\ Tail(WaitersV4) = claims
      BY <1>0, <2>3, InFront DEF WaitersV4
    <3> QED BY <2>1, <3>1 DEF LockV4!Next, LockV4!HandOn
  <2> QED BY <2>2, <2>3
<1> QED BY <1>1, <1>2

(* With all its actors at one priority, the semaphore of kernel-v4 is a    *)
(* first-come first-served lock: Release gives it directly to whoever has  *)
(* waited longest, and who finds it free by Claim has it.                  *)
THEOREM SemaphoreIsFifoLock == SemV4Spec => ActsAsLock
<1>1. SemV4Init => LockV4!Init
  BY DEF SemV4Init, LockV4!Init, WaitersV4
<1>2. SemInv /\ [SemV4Next]_semV4Vars => [OneLevel => LockV4!Next]_<<holder, WaitersV4>>
  <2> SUFFICES ASSUME SemInv, [SemV4Next]_semV4Vars, OneLevel
               PROVE  LockV4!Next \/ UNCHANGED <<holder, WaitersV4>>
    OBVIOUS
  <2>1. CASE UNCHANGED semV4Vars
    BY <2>1 DEF semV4Vars, WaitersV4
  <2>2. ASSUME NEW a \in SemActors, RunOwner(a) PROVE UNCHANGED <<holder, WaitersV4>>
    BY <2>2 DEF RunOwner, WaitersV4
  <2> QED BY <2>1, <2>2, ClaimsLikeLock, ReleasesLikeLock DEF SemV4Next, SemV4Step
<1> QED BY <1>1, <1>2, SemInvariant, PTL DEF SemV4Spec, ActsAsLock

=============================================================================
