---------------------------- MODULE QueueLemmas -----------------------------
(***************************************************************************)
(* Facts about queues without duplicates, as sequences, for the proofs     *)
(* about both kernels: what is in a queue after an operation on it; about  *)
(* numbers: the powers of two, and the least of them; and about sequences  *)
(* made of sequences.                                                      *)
(***************************************************************************)
EXTENDS Integers, Sequences, SequencesExt, FiniteSetTheorems, WellFoundedInduction, NaturalsInduction, TLAPS

(* Append adds the one element.                                            *)
LEMMA AppendRange ==
  ASSUME NEW S, NEW s \in Seq(S), NEW e \in S
  PROVE  /\ Append(s, e) \in Seq(S)
         /\ Range(Append(s, e)) = Range(s) \cup {e}
         /\ IsInjective(s) /\ e \notin Range(s) => IsInjective(Append(s, e))
<1>1. /\ Append(s, e) \in Seq(S) /\ Len(Append(s, e)) = Len(s) + 1 /\ Len(s) \in Nat
      /\ DOMAIN s = 1..Len(s) /\ DOMAIN Append(s, e) = 1..(Len(s) + 1)
      /\ \A i \in 1..Len(s) : Append(s, e)[i] = s[i]
      /\ Append(s, e)[Len(s) + 1] = e
  OBVIOUS
<1>2. Range(Append(s, e)) = Range(s) \cup {e}
  BY <1>1 DEF Range
<1>3. ASSUME IsInjective(s), e \notin Range(s) PROVE IsInjective(Append(s, e))
  BY <1>1, <1>3 DEF Range, IsInjective
<1> QED BY <1>1, <1>2, <1>3

(* The head goes, the others stay.                                         *)
LEMMA HeadAndTail ==
  ASSUME NEW S, NEW s \in Seq(S), s # <<>>
  PROVE  /\ Head(s) \in S /\ Tail(s) \in Seq(S)
         /\ Range(s) = {Head(s)} \cup Range(Tail(s))
         /\ IsInjective(s) => IsInjective(Tail(s)) /\ Head(s) \notin Range(Tail(s))
         /\ <<Head(s)>> \o Tail(s) = s
<1>1. /\ Len(s) \in Nat \ {0} /\ DOMAIN s = 1..Len(s) /\ Head(s) = s[1] /\ Head(s) \in S
      /\ Tail(s) \in Seq(S) /\ Len(Tail(s)) = Len(s) - 1 /\ DOMAIN Tail(s) = 1..(Len(s) - 1)
      /\ \A i \in 1..(Len(s) - 1) : Tail(s)[i] = s[i + 1]
  OBVIOUS
<1>2. Range(s) = {Head(s)} \cup Range(Tail(s))
  <2>1. \A i \in 2..Len(s) : i - 1 \in DOMAIN Tail(s) /\ s[i] = Tail(s)[i - 1]
    BY <1>1
  <2>2. \A i \in DOMAIN Tail(s) : i + 1 \in DOMAIN s /\ Tail(s)[i] = s[i + 1]
    BY <1>1
  <2>3. 1 \in DOMAIN s /\ \A i \in DOMAIN s : i = 1 \/ i \in 2..Len(s)
    BY <1>1
  <2>4. ASSUME NEW x \in Range(s) PROVE x \in {Head(s)} \cup Range(Tail(s))
    <3>1. PICK i \in DOMAIN s : x = s[i]
      BY DEF Range
    <3>2. CASE i = 1
      BY <1>1, <3>1, <3>2
    <3>3. CASE i \in 2..Len(s)
      BY <2>1, <3>1, <3>3 DEF Range
    <3> QED BY <2>3, <3>1, <3>2, <3>3
  <2>5. Range(Tail(s)) \subseteq Range(s)
    BY <2>2 DEF Range
  <2>6. Head(s) \in Range(s)
    BY <1>1, <2>3 DEF Range
  <2> QED BY <2>4, <2>5, <2>6
<1>3. ASSUME IsInjective(s) PROVE IsInjective(Tail(s)) /\ Head(s) \notin Range(Tail(s))
  BY <1>1, <1>3 DEF IsInjective, Range
<1>4. <<Head(s)>> \o Tail(s) = s
  BY <1>1
<1> QED BY <1>1, <1>2, <1>3, <1>4

(* An element put in front, as into the pool of messages.                  *)
LEMMA InFront ==
  ASSUME NEW S, NEW s \in Seq(S), NEW e \in S
  PROVE  LET q == <<e>> \o s
         IN  /\ q # <<>> /\ Head(q) = e /\ Tail(q) = s
             /\ Range(q) = {e} \cup Range(s)
             /\ IsInjective(s) /\ e \notin Range(s) => IsInjective(q)
<1> DEFINE q == <<e>> \o s
<1>1. /\ q \in Seq(S) /\ Len(q) = Len(s) + 1 /\ Len(s) \in Nat
      /\ DOMAIN s = 1..Len(s) /\ DOMAIN q = 1..(Len(s) + 1)
      /\ q[1] = e /\ \A i \in 1..Len(s) : q[i + 1] = s[i]
  OBVIOUS
<1>2. q # <<>> /\ Head(q) = e /\ Tail(q) = s
  BY <1>1
<1>3. Range(q) = {e} \cup Range(s)
  BY <1>2, <1>1, HeadAndTail
<1>4. ASSUME IsInjective(s), e \notin Range(s) PROVE IsInjective(q)
  <2>1. \A i \in 2..Len(q) : q[i] = s[i - 1] /\ i - 1 \in 1..Len(s)
    BY <1>1
  <2> QED BY <1>1, <1>4, <2>1 DEF IsInjective, Range
<1> HIDE DEF q
<1> QED BY <1>2, <1>3, <1>4 DEF q

(* The same for a family of queues: one element is added to one of them,   *)
LEMMA PutLast ==
  ASSUME NEW I, NEW S, NEW Q \in [I -> Seq(S)], NEW i \in I, NEW e \in S,
         \A j \in I : IsInjective(Q[j]), e \notin Range(Q[i])
  PROVE  LET P == [Q EXCEPT ![i] = Append(@, e)]
         IN  /\ P \in [I -> Seq(S)]
             /\ \A j \in I : IsInjective(P[j])
             /\ \A j \in I, y \in S : y \in Range(P[j]) <=> y \in Range(Q[j]) \/ (j = i /\ y = e)
<1> DEFINE P == [Q EXCEPT ![i] = Append(@, e)]
<1>1. /\ Append(Q[i], e) \in Seq(S)
      /\ Range(Append(Q[i], e)) = Range(Q[i]) \cup {e}
      /\ IsInjective(Append(Q[i], e))
  BY AppendRange
<1>2. \A j \in I : P[j] = IF j = i THEN Append(Q[i], e) ELSE Q[j]
  OBVIOUS
<1>3. P \in [I -> Seq(S)]
  BY <1>1
<1>4. ASSUME NEW j \in I PROVE IsInjective(P[j])
  BY <1>1, <1>2
<1>5. ASSUME NEW j \in I, NEW y \in S
      PROVE  y \in Range(P[j]) <=> y \in Range(Q[j]) \/ (j = i /\ y = e)
  BY <1>1, <1>2
<1> QED BY <1>3, <1>4, <1>5

(* or the head of one of them is taken.                                    *)
LEMMA TakeHead ==
  ASSUME NEW I, NEW S, NEW Q \in [I -> Seq(S)], NEW i \in I, Q[i] # <<>>,
         \A j \in I : IsInjective(Q[j])
  PROVE  LET P == [Q EXCEPT ![i] = Tail(@)]
             h == Head(Q[i])
         IN  /\ h \in S /\ h \in Range(Q[i])
             /\ P \in [I -> Seq(S)]
             /\ \A j \in I : IsInjective(P[j])
             /\ \A j \in I, y \in S : y \in Range(P[j]) <=> y \in Range(Q[j]) /\ ~(j = i /\ y = h)
<1> DEFINE P == [Q EXCEPT ![i] = Tail(@)]
           h == Head(Q[i])
<1>1. /\ h \in S /\ Tail(Q[i]) \in Seq(S)
      /\ Range(Q[i]) = {h} \cup Range(Tail(Q[i]))
      /\ IsInjective(Tail(Q[i])) /\ h \notin Range(Tail(Q[i]))
  BY HeadAndTail
<1>2. \A j \in I : P[j] = IF j = i THEN Tail(Q[i]) ELSE Q[j]
  OBVIOUS
<1>3. P \in [I -> Seq(S)]
  BY <1>1
<1>4. ASSUME NEW j \in I PROVE IsInjective(P[j])
  BY <1>1, <1>2
<1>5. ASSUME NEW j \in I, NEW y \in S
      PROVE  y \in Range(P[j]) <=> y \in Range(Q[j]) /\ ~(j = i /\ y = h)
  BY <1>1, <1>2
<1> QED BY <1>1, <1>3, <1>4, <1>5

-----------------------------------------------------------------------------
(* An element put at position k, as SlotIn of kernel-v1 does.              *)
LEMMA Joined ==
  ASSUME NEW S, NEW a \in Seq(S), NEW b \in Seq(S)
  PROVE  /\ a \o b \in Seq(S) /\ Len(a \o b) = Len(a) + Len(b)
         /\ \A i \in 1..Len(a) : (a \o b)[i] = a[i]
         /\ \A i \in 1..Len(b) : (a \o b)[Len(a) + i] = b[i]
OBVIOUS

LEMMA JoinedAround ==
  ASSUME NEW S, NEW a \in Seq(S), NEW e \in S, NEW b \in Seq(S)
  PROVE  LET q == a \o <<e>> \o b
         IN  /\ q \in Seq(S) /\ Len(q) = Len(a) + 1 + Len(b)
             /\ q[Len(a) + 1] = e
             /\ \A i \in 1..Len(a) : q[i] = a[i]
             /\ \A i \in 1..Len(b) : q[Len(a) + 1 + i] = b[i]
<1>1. PICK c : c = a \o <<e>>
  OBVIOUS
<1>2. c \in Seq(S) /\ Len(c) = Len(a) + 1 /\ c[Len(a) + 1] = e /\ \A i \in 1..Len(a) : c[i] = a[i]
  BY <1>1
<1>3. c \in Seq(S)
  BY <1>2
<1>4. /\ c \o b \in Seq(S) /\ Len(c \o b) = Len(c) + Len(b)
      /\ \A i \in 1..Len(c) : (c \o b)[i] = c[i]
      /\ \A i \in 1..Len(b) : (c \o b)[Len(c) + i] = b[i]
  BY <1>3, Joined
<1>5. PICK q : q = c \o b
  OBVIOUS
<1> QED BY <1>1, <1>2, <1>4, <1>5

Inserted(s, e, k) == SubSeq(s, 1, k - 1) \o <<e>> \o SubSeq(s, k, Len(s))

LEMMA SplitAt ==
  ASSUME NEW S, NEW s \in Seq(S), NEW k \in 1..(Len(s) + 1)
  PROVE  /\ SubSeq(s, 1, k - 1) \in Seq(S) /\ Len(SubSeq(s, 1, k - 1)) = k - 1
         /\ \A i \in 1..(k - 1) : SubSeq(s, 1, k - 1)[i] = s[i]
         /\ SubSeq(s, k, Len(s)) \in Seq(S) /\ Len(SubSeq(s, k, Len(s))) = Len(s) - k + 1
         /\ \A i \in 1..(Len(s) - k + 1) : SubSeq(s, k, Len(s))[i] = s[k + i - 1]
<1>1. Len(s) \in Nat /\ k \in Nat /\ k >= 1 /\ k <= Len(s) + 1
  OBVIOUS
<1> QED BY <1>1

LEMMA InsertedAt ==
  ASSUME NEW S, NEW s \in Seq(S), NEW e \in S, NEW k \in 1..(Len(s) + 1)
  PROVE  /\ Inserted(s, e, k) \in Seq(S)
         /\ Len(Inserted(s, e, k)) = Len(s) + 1 /\ Inserted(s, e, k)[k] = e
         /\ \A i \in 1..(k - 1) : Inserted(s, e, k)[i] = s[i]
         /\ \A i \in k..Len(s) : Inserted(s, e, k)[i + 1] = s[i]
<1>1. PICK a : a = SubSeq(s, 1, k - 1)
  OBVIOUS
<1>2. PICK b : b = SubSeq(s, k, Len(s))
  OBVIOUS
<1>3. PICK q : q = a \o <<e>> \o b
  OBVIOUS
<1>4. /\ a \in Seq(S) /\ Len(a) = k - 1 /\ \A i \in 1..(k - 1) : a[i] = s[i]
      /\ b \in Seq(S) /\ Len(b) = Len(s) - k + 1
      /\ \A i \in 1..(Len(s) - k + 1) : b[i] = s[k + i - 1]
  BY <1>1, <1>2, SplitAt
<1>5. /\ q \in Seq(S) /\ Len(q) = Len(a) + 1 + Len(b) /\ q[Len(a) + 1] = e
      /\ \A i \in 1..Len(a) : q[i] = a[i]
      /\ \A i \in 1..Len(b) : q[Len(a) + 1 + i] = b[i]
  <2>1. a \in Seq(S) /\ b \in Seq(S)
    BY <1>4
  <2> QED BY <2>1, <1>3, JoinedAround
<1>6. /\ Len(q) = Len(s) + 1 /\ q[k] = e
      /\ \A i \in 1..(k - 1) : q[i] = s[i]
      /\ \A i \in k..Len(s) : q[i + 1] = s[i]
  <2>1. Len(s) \in Nat /\ k \in Nat /\ k >= 1 /\ k <= Len(s) + 1
    OBVIOUS
  <2>2. ASSUME NEW i \in k..Len(s) PROVE q[i + 1] = s[i]
    <3>1. PICK j \in 1..Len(b) : j = i - k + 1
      BY <1>4, <2>1
    <3>2. q[Len(a) + 1 + j] = b[j] /\ b[j] = s[k + j - 1]
      BY <1>4, <1>5
    <3>3. Len(a) = k - 1
      BY <1>4
    <3>4. Len(a) + 1 + j = i + 1 /\ k + j - 1 = i
      BY <2>1, <3>1, <3>3
    <3> QED BY <3>2, <3>4
  <2> QED BY <1>4, <1>5, <2>1, <2>2
<1>7. q = Inserted(s, e, k)
  BY <1>1, <1>2, <1>3 DEF Inserted
<1> QED BY <1>5, <1>6, <1>7

LEMMA InsertRange ==
  ASSUME NEW S, NEW s \in Seq(S), NEW e \in S, NEW k \in 1..(Len(s) + 1), NEW q \in Seq(S),
         Len(q) = Len(s) + 1, q[k] = e, \A i \in 1..(k - 1) : q[i] = s[i],
         \A i \in k..Len(s) : q[i + 1] = s[i]
  PROVE  /\ Range(q) = Range(s) \cup {e}
         /\ IsInjective(s) /\ e \notin Range(s) => IsInjective(q)
<1>1. Len(s) \in Nat /\ k \in Nat /\ DOMAIN s = 1..Len(s) /\ DOMAIN q = 1..(Len(s) + 1)
  OBVIOUS
<1>2. ASSUME NEW i \in DOMAIN q
      PROVE  \/ i = k /\ q[i] = e
             \/ i < k /\ i \in DOMAIN s /\ q[i] = s[i]
             \/ i > k /\ i - 1 \in DOMAIN s /\ q[i] = s[i - 1]
  <2>1. CASE i > k
    <3>0. i - 1 \in k..Len(s) /\ i = (i - 1) + 1
      BY <1>1, <2>1
    <3>1. PICK j \in k..Len(s) : i = j + 1
      BY <3>0
    <3> QED BY <1>1, <2>1, <3>1
  <2> QED BY <1>1, <2>1
<1>3. ASSUME NEW i \in DOMAIN s PROVE s[i] \in Range(q)
  <2>1. CASE i < k
    BY <1>1, <2>1 DEF Range
  <2>2. CASE i >= k
    <3>1. i + 1 \in DOMAIN q /\ q[i + 1] = s[i]
      BY <1>1, <2>2
    <3> QED BY <3>1 DEF Range
  <2> QED BY <1>1, <2>1, <2>2
<1>4. k \in DOMAIN q
  BY <1>1
<1>5. Range(q) = Range(s) \cup {e}
  BY <1>2, <1>3, <1>4 DEF Range
<1>6. ASSUME IsInjective(s), e \notin Range(s) PROVE IsInjective(q)
  <2> SUFFICES ASSUME NEW i \in DOMAIN q, NEW j \in DOMAIN q, q[i] = q[j] PROVE i = j
    BY DEF IsInjective
  <2>1. \A n \in DOMAIN s : s[n] # e
    BY <1>6 DEF Range
  <2> QED BY <1>1, <1>2, <1>6, <2>1, SMTT(30) DEF IsInjective
<1> QED BY <1>5, <1>6

-----------------------------------------------------------------------------
(* The powers of two, counted as the subsets of 1..w.                     *)
LEMMA TwoToZero == 2^0 = 1
<1>1. IsFiniteSet({}) /\ Cardinality({}) = 0
  BY FS_EmptySet
<1>2. Cardinality(SUBSET {}) = 2^0
  BY <1>1, FS_SUBSET
<1>3. SUBSET {} = {{}}
  OBVIOUS
<1>4. Cardinality({{}}) = 1
  BY FS_Singleton
<1> QED BY <1>2, <1>3, <1>4

LEMMA TwoToThe ==
  ASSUME NEW w \in Nat
  PROVE  2^w \in Nat \ {0} /\ 2^(w + 1) = 2 * 2^w
<1> DEFINE S == 1..w
           P == SUBSET S
           Q == {X \cup {w + 1} : X \in P}
           f == [X \in P |-> X \cup {w + 1}]
<1>1. IsFiniteSet(S) /\ Cardinality(S) = w
  BY FS_Interval
<1>2. IsFiniteSet(S \cup {w + 1}) /\ Cardinality(S \cup {w + 1}) = w + 1
  BY <1>1, FS_AddElement
<1>3. IsFiniteSet(P) /\ Cardinality(P) = 2^w
  BY <1>1, FS_SUBSET
<1>4. Cardinality(SUBSET (S \cup {w + 1})) = 2^(w + 1)
  BY <1>2, FS_SUBSET
<1>5. f \in Bijection(P, Q)
  <2>1. \A X \in P : w + 1 \notin X
    OBVIOUS
  <2>2. \A X, Y \in P : f[X] = f[Y] => X = Y
    BY <2>1
  <2>3. f \in [P -> Q] /\ \A Z \in Q : \E X \in P : f[X] = Z
    OBVIOUS
  <2> QED BY <2>2, <2>3 DEF Bijection, Injection, Surjection, IsInjective
<1>6. IsFiniteSet(Q) /\ Cardinality(Q) = 2^w
  <2>1. ExistsBijection(P, Q)
    BY <1>5 DEF ExistsBijection
  <2> HIDE DEF P, Q
  <2> QED BY <1>3, <2>1, FS_Bijection
<1>7. P \cap Q = {} /\ P \cup Q = SUBSET (S \cup {w + 1})
  <2>1. \A X \in P : w + 1 \notin X
    OBVIOUS
  <2>2. P \cap Q = {}
    BY <2>1
  <2>3. ASSUME NEW Z \in SUBSET (S \cup {w + 1}) PROVE Z \in P \cup Q
    <3>1. Z \ {w + 1} \in P
      OBVIOUS
    <3>2. CASE w + 1 \in Z
      <4>1. Z = (Z \ {w + 1}) \cup {w + 1}
        BY <3>2
      <4> QED BY <3>1, <4>1
    <3>3. CASE w + 1 \notin Z
      BY <3>3
    <3> QED BY <3>2, <3>3
  <2>4. P \cup Q \subseteq SUBSET (S \cup {w + 1})
    OBVIOUS
  <2> QED BY <2>2, <2>3, <2>4
<1> HIDE DEF P, Q, S, f
<1>8. 2^w \in Nat
  BY <1>3, FS_CardinalityType
<1>9. Cardinality(P \cup Q) = Cardinality(P) + Cardinality(Q) - Cardinality(P \cap Q)
  BY <1>3, <1>6, FS_Union
<1>10. Cardinality(P \cap Q) = 0
  BY <1>7, FS_EmptySet
<1>11. P # {}
  BY DEF P
<1>12. 2^w # 0
  BY <1>3, <1>11, FS_EmptySet
<1>13. 2^(w + 1) = Cardinality(P) + Cardinality(Q) - Cardinality(P \cap Q)
  BY <1>4, <1>7, <1>9
<1> QED
  <2> DEFINE e == 2^w
             g == 2^(w + 1)
  <2>1. e \in Nat /\ e # 0 /\ g = e + e - 0
    BY <1>3, <1>6, <1>8, <1>10, <1>12, <1>13
  <2> HIDE DEF e, g
  <2>2. e \in Nat \ {0} /\ g = 2 * e
    BY <2>1
  <2> QED BY <2>2 DEF e, g

\* Of naturals there is a least one: what holds up to any number, if it holds
\* up to the next one, is shown by the least number that it fails for
LEMMA LeastNumber ==
  ASSUME NEW T \in SUBSET Nat, T # {}
  PROVE \E x \in T : \A y \in T : x <= y
<1>1. IsWellFoundedOn(OpToRel(<,Nat), Nat)
  BY NatLessThanWellFounded
<1>2. PICK x \in T : \A y \in T : ~ (<<y, x>> \in OpToRel(<,Nat))
  BY <1>1, WFMin
<1>3. \A y \in T : ~(y < x)
  BY <1>2 DEF OpToRel
<1> QED BY <1>3

\* Powers of two of a sum
LEMMA PowersAdd ==
  ASSUME NEW a \in Nat, NEW b \in Nat
  PROVE  2^(a + b) = 2^a * 2^b
<1> DEFINE p == [w \in Nat |-> 2^w]
<1>1. \A w \in Nat : p[w] \in Nat /\ p[w + 1] = 2 * p[w]
  BY TwoToThe, SMT
<1>2. p[0] = 1
  BY TwoToZero, SMT
<1>3. \A w \in Nat : p[w] = 2^w
  BY SMT
<1> HIDE DEF p
<1> DEFINE Bad == {n \in Nat : p[a + n] # p[a] * p[n]}
<1>4. Bad = {}
  <2>1. SUFFICES ASSUME Bad # {} PROVE FALSE
    OBVIOUS
  <2>2. PICK n \in Bad : \A y \in Bad : n <= y
    <3>1. Bad \in SUBSET Nat
      OBVIOUS
    <3> HIDE DEF Bad
    <3> QED BY <2>1, <3>1, LeastNumber
  <2>3. n # 0
    BY <1>1, <1>2
  <2>4. n - 1 \in Nat /\ n - 1 \notin Bad
    BY <2>2, <2>3
  <2>5. p[a + (n - 1)] = p[a] * p[n - 1]
    BY <2>4
  <2>6. p[a + n] = 2 * p[a + (n - 1)] /\ p[n] = 2 * p[n - 1]
    <3>1. (a + (n - 1)) + 1 = a + n /\ (n - 1) + 1 = n /\ a + (n - 1) \in Nat
      BY <2>4
    <3> QED BY <1>1, <2>4, <3>1
  <2>7. \A x, y \in Nat : 2 * (x * y) = x * (2 * y)
    BY SMT
  <2>8. p[a + n] = p[a] * p[n]
    BY <1>1, <2>4, <2>5, <2>6, <2>7
  <2> QED BY <2>2, <2>8
<1>5. a + b \in Nat /\ p[a + b] = p[a] * p[b]
  BY <1>4
<1> QED BY <1>3, <1>5

\* What is left of a multiple of n and a rest
LEMMA DividedBy ==
  ASSUME NEW n \in Nat \ {0}, NEW k \in Int, NEW r \in Int
  PROVE  /\ (k * n + r) \div n = k + (r \div n)
         /\ (k * n + r) % n = r % n
<1> DEFINE x == k * n + r
           q == x \div n
           m == x % n
           d == r \div n
           e == r % n
<1>0. x \in Int
  BY SMT
<1>1. q \in Int /\ m \in 0 .. n - 1 /\ x = n * q + m
  BY <1>0, SMT
<1>2. d \in Int /\ e \in 0 .. n - 1 /\ r = n * d + e
  BY SMT
<1> HIDE DEF q, m, d, e
<1>3. n * (q - k - d) = e - m
  BY <1>1, <1>2, SMT
<1>4. q - k - d = 0
  <2> DEFINE j == q - k - d
  <2>1. j \in Int /\ n * j < n /\ -n < n * j
    BY <1>1, <1>2, <1>3, SMT
  <2> HIDE DEF j
  <2>2. j < 1 /\ -1 < j
    BY <2>1, SMTT(30)
  <2> QED BY <2>1, <2>2 DEF j
<1>5. q = k + d /\ m = e
  BY <1>1, <1>2, <1>3, <1>4, SMT
<1> QED BY <1>5 DEF q, m, d, e

-----------------------------------------------------------------------------
(* Sequences made of sequences.                                           *)

\* What fails for no first number fails for none
LEMMA NoFirstFailure ==
  ASSUME NEW n \in Nat, NEW Bad \in SUBSET (0 .. n), 0 \notin Bad,
         \A i \in 1 .. n : i - 1 \notin Bad => i \notin Bad
  PROVE  Bad = {}
<1>1. SUFFICES ASSUME Bad # {} PROVE FALSE
  OBVIOUS
<1>2. PICK i \in Bad : \A y \in Bad : i <= y
  <2>1. Bad \in SUBSET Nat
    OBVIOUS
  <2> QED BY <1>1, <2>1, LeastNumber
<1>3. i \in 1 .. n /\ i - 1 \notin Bad
  BY <1>2
<1> QED BY <1>2, <1>3

\* The recursion in FlattenSeq
Flat(seqs) ==
  LET flatten[i \in 1 .. Len(seqs)] == IF i = 1 THEN seqs[i] ELSE flatten[i - 1] \o seqs[i]
  IN  flatten

LEMMA FlattenStep ==
  ASSUME NEW S, NEW ss \in Seq(Seq(S))
  PROVE  /\ Flat(ss) \in [1 .. Len(ss) -> Seq(S)]
         /\ \A i \in 1 .. Len(ss) :
              Flat(ss)[i] = IF i = 1 THEN ss[i] ELSE Flat(ss)[i - 1] \o ss[i]
<1> DEFINE N == Len(ss)
           G(x, i) == x \o ss[i]
           Is(f, m) == f = [i \in 1 .. m |-> IF i = 1 THEN ss[i] ELSE G(f[i - 1], i)]
           Ok(m) == \E f : Is(f, m)
           Bad == {m \in 0 .. N : ~Ok(m)}
<1>0. N \in Nat /\ \A i \in 1 .. N : ss[i] \in Seq(S)
  OBVIOUS
<1>1. Ok(0)
  <2> HIDE DEF G
  <2>1. Is([i \in 1 .. 0 |-> ss[i]], 0)
    OBVIOUS
  <2> QED BY <2>1
<1>2. ASSUME NEW m \in 1 .. N, Ok(m - 1) PROVE Ok(m)
  <2> HIDE DEF G
  <2>1. PICK g : Is(g, m - 1)
    BY <1>2
  <2> DEFINE h == [i \in 1 .. m |-> IF i < m THEN g[i] ELSE IF m = 1 THEN ss[m] ELSE G(g[m - 1], m)]
  <2>2. ASSUME NEW i \in 1 .. m PROVE h[i] = IF i = 1 THEN ss[i] ELSE G(h[i - 1], i)
    <3>1. CASE i = m
      BY <3>1
    <3>2. CASE i < m
      BY <3>2, <2>1
    <3> QED BY <3>1, <3>2
  <2>3. h = [i \in 1 .. m |-> h[i]]
    OBVIOUS
  <2> HIDE DEF h
  <2>4. Is(h, m)
    BY <2>2, <2>3
  <2> QED BY <2>4
<1> HIDE DEF Ok
<1>3. Bad = {}
  <2>1. Bad \in SUBSET (0 .. N)
    OBVIOUS
  <2>2. 0 \notin Bad /\ \A m \in 1 .. N : m - 1 \notin Bad => m \notin Bad
    BY <1>0, <1>1, <1>2
  <2> HIDE DEF Bad
  <2> QED BY <1>0, <2>1, <2>2, NoFirstFailure
<1>4. PICK f : Is(f, N)
  <2>1. Ok(N)
    BY <1>0, <1>3
  <2> QED BY <2>1 DEF Ok
<1> DEFINE F == Flat(ss)
<1>5. F = CHOOSE f1 : Is(f1, N)
  BY DEF Flat
<1> HIDE DEF Is, F
<1>6. Is(F, N)
  BY <1>4, <1>5
<1>7. \A i \in 1 .. N : F[i] = IF i = 1 THEN ss[i] ELSE G(F[i - 1], i)
  <2> HIDE DEF G
  <2> QED BY <1>6 DEF Is
<1>8. \A i \in 1 .. N : F[i] \in Seq(S)
  <2> DEFINE Odd == {i \in 0 .. N : i > 0 /\ F[i] \notin Seq(S)}
  <2>1. ASSUME NEW i \in 1 .. N, i - 1 \notin Odd PROVE i \notin Odd
    <3>1. F[i] = IF i = 1 THEN ss[i] ELSE G(F[i - 1], i)
      BY <1>7
    <3>2. CASE i = 1
      BY <1>0, <3>1, <3>2
    <3>3. CASE i # 1
      <4>1. i - 1 \in 0 .. N /\ i - 1 > 0
        BY <1>0, <3>3
      <4>2. F[i - 1] \in Seq(S)
        BY <2>1, <4>1
      <4>3. F[i] \in Seq(S)
        BY <1>0, <3>1, <3>3, <4>2
      <4> QED BY <4>3
    <3> QED BY <3>2, <3>3
  <2>2. 0 \notin Odd /\ Odd \in SUBSET (0 .. N)
    OBVIOUS
  <2>3. Odd = {}
    <3> HIDE DEF Odd
    <3> QED BY <1>0, <2>1, <2>2, NoFirstFailure
  <2>4. ASSUME NEW i \in 1 .. N PROVE F[i] \in Seq(S)
    <3>1. i \in 0 .. N /\ i > 0 /\ i \notin Odd
      BY <1>0, <2>3
    <3> QED BY <3>1
  <2> QED BY <2>4
<1>9. F \in [1 .. N -> Seq(S)]
  <2>1. F = [i \in 1 .. N |-> IF i = 1 THEN ss[i] ELSE G(F[i - 1], i)]
    BY <1>6 DEF Is
  <2>2. F = [i \in 1 .. N |-> F[i]]
    <3> HIDE DEF G
    <3> QED BY <2>1
  <2> QED BY <1>8, <2>2
<1> QED BY <1>7, <1>9 DEF F

LEMMA FlattenIs ==
  ASSUME NEW S, NEW ss \in Seq(Seq(S))
  PROVE  /\ FlattenSeq(ss) = IF Len(ss) = 0 THEN <<>> ELSE Flat(ss)[Len(ss)]
         /\ FlattenSeq(ss) \in Seq(S)
<1>1. FlattenSeq(ss) = IF Len(ss) = 0 THEN ss ELSE Flat(ss)[Len(ss)]
  BY DEF FlattenSeq, Flat
<1>2. Len(ss) = 0 => ss = <<>>
  OBVIOUS
<1>3. /\ Flat(ss) \in [1 .. Len(ss) -> Seq(S)] /\ Len(ss) \in Nat
      /\ Len(ss) # 0 => Len(ss) \in 1 .. Len(ss)
  BY FlattenStep
<1>4. <<>> \in Seq(S)
  OBVIOUS
<1> QED BY <1>1, <1>2, <1>3, <1>4

\* A sequence more is put behind what the others make
LEMMA FlattenAppend ==
  ASSUME NEW S, NEW ss \in Seq(Seq(S)), NEW x \in Seq(S)
  PROVE  FlattenSeq(Append(ss, x)) = FlattenSeq(ss) \o x
<1> DEFINE N == Len(ss)
           tt == Append(ss, x)
           F == Flat(ss)
           G == Flat(tt)
           Bad == {i \in 0 .. N : i > 0 /\ G[i] # F[i]}
<1>1. /\ N \in Nat /\ tt \in Seq(Seq(S)) /\ Len(tt) = N + 1 /\ tt[N + 1] = x
      /\ \A i \in 1 .. N : tt[i] = ss[i] /\ ss[i] \in Seq(S)
  OBVIOUS
<1>2. \A i \in 1 .. N : F[i] = IF i = 1 THEN ss[i] ELSE F[i - 1] \o ss[i]
  BY FlattenStep
<1>3. \A i \in 1 .. N + 1 : G[i] = IF i = 1 THEN tt[i] ELSE G[i - 1] \o tt[i]
  <2> HIDE DEF tt
  <2> QED BY <1>1, FlattenStep
<1>4. FlattenSeq(ss) = IF N = 0 THEN <<>> ELSE F[N]
  BY FlattenIs
<1>5. FlattenSeq(tt) = G[N + 1]
  <2> HIDE DEF tt
  <2> QED BY <1>1, FlattenIs
<1> HIDE DEF F, G, tt, N
<1>6. Bad = {}
  <2>1. ASSUME NEW i \in 1 .. N, i - 1 \notin Bad PROVE i \notin Bad
    <3>1. i \in 1 .. N + 1 /\ (i # 1 => G[i - 1] = F[i - 1])
      BY <1>1, <2>1
    <3> QED BY <1>1, <1>2, <1>3, <3>1
  <2>2. 0 \notin Bad /\ Bad \in SUBSET (0 .. N)
    OBVIOUS
  <2> HIDE DEF Bad
  <2> QED BY <1>1, <2>1, <2>2, NoFirstFailure
<1>7. CASE N = 0
  <2>1. G[1] = x
    BY <1>1, <1>3, <1>7
  <2> QED BY <1>1, <1>4, <1>5, <1>7, <2>1 DEF tt
<1>8. CASE N # 0
  <2>1. N \in 0 .. N /\ N > 0 /\ N + 1 \in 1 .. N + 1 /\ N + 1 # 1 /\ (N + 1) - 1 = N
    BY <1>1, <1>8
  <2>2. G[N] = F[N]
    BY <1>6, <2>1
  <2>3. G[N + 1] = G[(N + 1) - 1] \o tt[N + 1]
    BY <1>3, <2>1
  <2> QED BY <1>1, <1>4, <1>5, <1>8, <2>1, <2>2, <2>3 DEF tt
<1> QED BY <1>7, <1>8

\* What the first n of the sequences make
Leading(seqs, n) == FlattenSeq(SubSeq(seqs, 1, n))

LEMMA FrontStep ==
  ASSUME NEW S, NEW ss \in Seq(Seq(S))
  PROVE  /\ Leading(ss, 0) = <<>>
         /\ Leading(ss, Len(ss)) = FlattenSeq(ss)
         /\ \A n \in 0 .. Len(ss) : Leading(ss, n) \in Seq(S) /\ Len(Leading(ss, n)) \in Nat
         /\ \A n \in 1 .. Len(ss) : /\ Leading(ss, n) = Leading(ss, n - 1) \o ss[n]
                                    /\ Len(Leading(ss, n)) = Len(Leading(ss, n - 1)) + Len(ss[n])
<1>1. \A n \in 0 .. Len(ss) : SubSeq(ss, 1, n) \in Seq(Seq(S))
  OBVIOUS
<1>2. Leading(ss, 0) = <<>>
  <2>1. SubSeq(ss, 1, 0) = <<>> /\ <<>> \in Seq(Seq(S)) /\ Len(<<>>) = 0
    OBVIOUS
  <2>2. FlattenSeq(<<>>) = <<>>
    BY <2>1, FlattenIs
  <2> QED BY <2>1, <2>2 DEF Leading
<1>3. Leading(ss, Len(ss)) = FlattenSeq(ss)
  <2>1. SubSeq(ss, 1, Len(ss)) = ss
    OBVIOUS
  <2> QED BY <2>1 DEF Leading
<1>4. \A n \in 0 .. Len(ss) : Leading(ss, n) \in Seq(S)
  BY <1>1, FlattenIs DEF Leading
<1>5. ASSUME NEW n \in 1 .. Len(ss)
      PROVE  /\ Leading(ss, n) = Leading(ss, n - 1) \o ss[n]
             /\ Len(Leading(ss, n)) = Len(Leading(ss, n - 1)) + Len(ss[n])
  <2>1. SubSeq(ss, 1, n) = Append(SubSeq(ss, 1, n - 1), ss[n])
    OBVIOUS
  <2>2. n - 1 \in 0 .. Len(ss) /\ ss[n] \in Seq(S)
    OBVIOUS
  <2>3. Leading(ss, n) = Leading(ss, n - 1) \o ss[n]
    BY <1>1, <2>1, <2>2, FlattenAppend DEF Leading
  <2>4. Leading(ss, n - 1) \in Seq(S)
    BY <1>4, <2>2
  <2> QED BY <2>2, <2>3, <2>4
<1>6. \A n \in 0 .. Len(ss) : Len(Leading(ss, n)) \in Nat
  BY <1>4
<1> QED BY <1>2, <1>3, <1>4, <1>5, <1>6

\* Each of the sequences has its place
LEMMA FrontGrows ==
  ASSUME NEW S, NEW ss \in Seq(Seq(S)), NEW i \in 1 .. Len(ss), NEW m \in 0 .. Len(ss), i <= m
  PROVE  /\ Len(Leading(ss, i)) <= Len(Leading(ss, m))
         /\ \A k \in 1 .. Len(Leading(ss, i)) : Leading(ss, m)[k] = Leading(ss, i)[k]
<1>0. Len(ss) \in Nat
  OBVIOUS
<1> DEFINE Same(n) == /\ Len(Leading(ss, i)) <= Len(Leading(ss, n))
                      /\ \A k \in 1 .. Len(Leading(ss, i)) : Leading(ss, n)[k] = Leading(ss, i)[k]
           Bad == {n \in 0 .. Len(ss) : n >= i /\ ~Same(n)}
<1>1. \A n \in 0 .. Len(ss) : Leading(ss, n) \in Seq(S) /\ Len(Leading(ss, n)) \in Nat
  <2>1. \A n \in 0 .. Len(ss) : Leading(ss, n) \in Seq(S)
    BY FrontStep
  <2> QED BY <2>1
<1>2. ASSUME NEW n \in 1 .. Len(ss), n - 1 \notin Bad PROVE n \notin Bad
  <2>1. CASE n <= i
    BY <2>1
  <2>2. CASE n > i
    <3>1. /\ Len(Leading(ss, i)) <= Len(Leading(ss, n - 1))
          /\ \A k \in 1 .. Len(Leading(ss, i)) : Leading(ss, n - 1)[k] = Leading(ss, i)[k]
      BY <1>2, <2>2
    <3>2. n - 1 \in 0 .. Len(ss) /\ ss[n] \in Seq(S)
      OBVIOUS
    <3>3. Leading(ss, n) = Leading(ss, n - 1) \o ss[n]
      BY FrontStep
    <3>4. PICK a \in Seq(S), b \in Seq(S) : a = Leading(ss, n - 1) /\ b = ss[n]
      BY <1>1, <3>2
    <3>5. Leading(ss, n) = a \o b
      BY <3>3, <3>4
    <3>6. Len(a) <= Len(Leading(ss, n)) /\ \A k \in 1 .. Len(a) : Leading(ss, n)[k] = a[k]
      BY <3>5
    <3> QED BY <1>1, <3>1, <3>2, <3>4, <3>6
  <2> QED BY <2>1, <2>2
<1>3. 0 \notin Bad /\ Bad \in SUBSET (0 .. Len(ss))
  OBVIOUS
<1>4. Bad = {}
  <2> HIDE DEF Bad
  <2> QED BY <1>0, <1>2, <1>3, NoFirstFailure
<1> QED BY <1>4

LEMMA Placed ==
  ASSUME NEW S, NEW ss \in Seq(Seq(S)), NEW i \in 1 .. Len(ss), NEW k \in 1 .. Len(ss[i])
  PROVE  /\ Len(Leading(ss, i - 1)) \in Nat
         /\ Len(Leading(ss, i - 1)) + k \in 1 .. Len(FlattenSeq(ss))
         /\ FlattenSeq(ss)[Len(Leading(ss, i - 1)) + k] = ss[i][k]
<1>1. /\ i - 1 \in 0 .. Len(ss) /\ Leading(ss, i - 1) \in Seq(S) /\ ss[i] \in Seq(S)
      /\ Leading(ss, i) = Leading(ss, i - 1) \o ss[i] /\ Leading(ss, Len(ss)) = FlattenSeq(ss)
      /\ Len(Leading(ss, Len(ss))) \in Nat
  <2>1. i - 1 \in 0 .. Len(ss) /\ Len(ss) \in 0 .. Len(ss) /\ ss[i] \in Seq(S)
    OBVIOUS
  <2>2. /\ Leading(ss, i - 1) \in Seq(S) /\ Leading(ss, Len(ss)) \in Seq(S)
        /\ Leading(ss, i) = Leading(ss, i - 1) \o ss[i] /\ Leading(ss, Len(ss)) = FlattenSeq(ss)
    BY <2>1, FrontStep
  <2>3. Len(Leading(ss, Len(ss))) \in Nat
    BY <2>2
  <2> QED BY <2>1, <2>2, <2>3
<1>2. PICK a \in Seq(S), b \in Seq(S) : a = Leading(ss, i - 1) /\ b = ss[i]
  BY <1>1
<1>3. /\ Len(a) \in Nat /\ Len(a) + k \in 1 .. Len(Leading(ss, i)) /\ Leading(ss, i)[Len(a) + k] = b[k]
  BY <1>1, <1>2
<1>4. /\ Len(Leading(ss, i)) <= Len(Leading(ss, Len(ss)))
      /\ \A j \in 1 .. Len(Leading(ss, i)) : Leading(ss, Len(ss))[j] = Leading(ss, i)[j]
  <2>1. Len(ss) \in 0 .. Len(ss) /\ i <= Len(ss)
    OBVIOUS
  <2> QED BY <2>1, FrontGrows
<1>5. Len(Leading(ss, i)) \in Nat /\ i \in 0 .. Len(ss)
  <2>1. i \in 0 .. Len(ss)
    OBVIOUS
  <2> QED BY <2>1, FrontStep
<1>6. Len(a) + k \in 1 .. Len(FlattenSeq(ss)) /\ Len(Leading(ss, Len(ss))) = Len(FlattenSeq(ss))
  <2> DEFINE q == Len(Leading(ss, i))
             r == Len(Leading(ss, Len(ss)))
  <2>1. q \in Nat /\ r \in Nat /\ q <= r /\ Len(a) + k \in 1 .. q /\ r = Len(FlattenSeq(ss))
    BY <1>1, <1>3, <1>4, <1>5
  <2> HIDE DEF q, r
  <2> QED BY <2>1 DEF r
<1>7. FlattenSeq(ss)[Len(a) + k] = b[k]
  BY <1>1, <1>3, <1>4
<1> QED BY <1>2, <1>3, <1>6, <1>7

LEMMA PlaceOfEach ==
  ASSUME NEW S, NEW ss \in Seq(Seq(S)), NEW j \in 1 .. Len(FlattenSeq(ss))
  PROVE  \E i \in 1 .. Len(ss) : \E k \in 1 .. Len(ss[i]) :
           j = Len(Leading(ss, i - 1)) + k /\ FlattenSeq(ss)[j] = ss[i][k]
<1>0. Len(ss) \in Nat
  OBVIOUS
<1> DEFINE Bad == {n \in 0 .. Len(ss) : j <= Len(Leading(ss, n)) /\
                     ~\E i \in 1 .. Len(ss) : \E k \in 1 .. Len(ss[i]) : j = Len(Leading(ss, i - 1)) + k}
<1>1. /\ \A n \in 0 .. Len(ss) : Len(Leading(ss, n)) \in Nat
      /\ \A n \in 1 .. Len(ss) : Len(Leading(ss, n)) = Len(Leading(ss, n - 1)) + Len(ss[n])
      /\ Len(Leading(ss, 0)) = 0 /\ Leading(ss, Len(ss)) = FlattenSeq(ss)
  <2>1. \A n \in 0 .. Len(ss) : Len(Leading(ss, n)) \in Nat
    BY FrontStep
  <2>4. Len(<<>>) = 0
    OBVIOUS
  <2>2. Leading(ss, 0) = <<>> /\ Leading(ss, Len(ss)) = FlattenSeq(ss)
    BY FrontStep
  <2>3. \A n \in 1 .. Len(ss) : Len(Leading(ss, n)) = Len(Leading(ss, n - 1)) + Len(ss[n])
    BY FrontStep
  <2> QED BY <2>1, <2>2, <2>3, <2>4
<1>2. ASSUME NEW n \in 1 .. Len(ss), n - 1 \notin Bad PROVE n \notin Bad
  <2>1. SUFFICES ASSUME n \in Bad PROVE FALSE
    OBVIOUS
  <2>2. n - 1 \in 0 .. Len(ss) /\ Len(ss[n]) \in Nat /\ j \in Int
    OBVIOUS
  <2>3. j > Len(Leading(ss, n - 1)) /\ j <= Len(Leading(ss, n))
    BY <1>1, <1>2, <2>1, <2>2
  <2>4. j - Len(Leading(ss, n - 1)) \in 1 .. Len(ss[n])
    <3> DEFINE l == Len(Leading(ss, n - 1))
    <3>1. l \in Nat /\ Len(Leading(ss, n)) = l + Len(ss[n])
      BY <1>1, <2>2
    <3>2. j > l /\ j <= l + Len(ss[n])
      BY <2>3, <3>1
    <3> HIDE DEF l
    <3>3. j - l \in 1 .. Len(ss[n])
      BY <2>2, <3>1, <3>2
    <3> QED BY <3>3 DEF l
  <2>5. j = Len(Leading(ss, n - 1)) + (j - Len(Leading(ss, n - 1)))
    BY <1>1, <2>2
  <2> QED BY <2>1, <2>4, <2>5
<1>3. 0 \notin Bad /\ Bad \in SUBSET (0 .. Len(ss))
  BY <1>1
<1>4. Bad = {}
  <2> HIDE DEF Bad
  <2> QED BY <1>0, <1>2, <1>3, NoFirstFailure
<1>5. PICK i \in 1 .. Len(ss) : \E k \in 1 .. Len(ss[i]) : j = Len(Leading(ss, i - 1)) + k
  BY <1>1, <1>4
<1>6. PICK k \in 1 .. Len(ss[i]) : j = Len(Leading(ss, i - 1)) + k
  BY <1>5
<1>7. FlattenSeq(ss)[Len(Leading(ss, i - 1)) + k] = ss[i][k]
  BY Placed
<1>8. FlattenSeq(ss)[j] = ss[i][k]
  BY <1>6, <1>7, Zenon
<1> QED BY <1>6, <1>8, Zenon
=============================================================================
