----------------------------- MODULE HTListProofs -----------------------------
(***************************************************************************)
(* What a part of a list is: the positions that stay are numbered in       *)
(* order, each once.  The lists of hosts and Nets, of filters, of events   *)
(* and of timers are all shortened this way.                               *)
(***************************************************************************)
EXTENDS HTList, FiniteSetTheorems, SequenceTheorems, WellFoundedInduction, TLAPS

LEMMA PlaceType ==
    ASSUME NEW m \in Nat, NEW K \in SUBSET (1..m)
    PROVE  /\ IsFiniteSet(K) /\ Cardinality(K) \in Nat
           /\ \A i : IsFiniteSet(UpTo(K, i)) /\ Place(K, i) \in Nat
<1>1. IsFiniteSet(K) /\ Cardinality(K) \in Nat
  <2>1. IsFiniteSet(1..m)
    BY FS_Interval
  <2>2. IsFiniteSet(K)
    BY <2>1, FS_Subset
  <2> QED BY <2>2, FS_CardinalityType
<1>2. \A i : IsFiniteSet(UpTo(K, i)) /\ Place(K, i) \in Nat
  <2> TAKE i
  <2>1. UpTo(K, i) \subseteq K
    BY DEF UpTo
  <2>2. IsFiniteSet(UpTo(K, i))
    BY <2>1, <1>1, FS_Subset
  <2> QED BY <2>2, FS_CardinalityType DEF Place
<1> QED BY <1>1, <1>2

\* The places in K grow with the positions, by one at each position of K.
LEMMA PlaceGrows ==
    ASSUME NEW m \in Nat, NEW K \in SUBSET (1..m), NEW i \in Nat, NEW j \in K, i < j
    PROVE  Place(K, i) < Place(K, j)
<1> USE DEF Place
<1>1. UpTo(K, i) \cup {j} \subseteq UpTo(K, j) /\ j \notin UpTo(K, i)
  <2>1. j \in Nat /\ \A k \in K : k \in Nat
    OBVIOUS
  <2>2. \A k \in K : k <= i => k <= j
    BY <2>1
  <2>3. j <= j /\ ~(j <= i)
    BY <2>1
  <2> QED BY <2>2, <2>3 DEF UpTo
<1>2. /\ IsFiniteSet(UpTo(K, i)) /\ IsFiniteSet(UpTo(K, j))
      /\ Cardinality(UpTo(K, i)) \in Nat /\ Cardinality(UpTo(K, j)) \in Nat
  BY PlaceType
<1>3. Cardinality(UpTo(K, i) \cup {j}) = Cardinality(UpTo(K, i)) + 1
  BY <1>1, <1>2, FS_AddElement
<1>4. Cardinality(UpTo(K, i) \cup {j}) <= Cardinality(UpTo(K, j))
  BY <1>1, <1>2, FS_Subset
<1> QED BY <1>2, <1>3, <1>4

LEMMA PlaceInRange ==
    ASSUME NEW m \in Nat, NEW K \in SUBSET (1..m), NEW i \in K
    PROVE  Place(K, i) \in 1..Cardinality(K)
<1>1. UpTo(K, 0) = {} /\ Place(K, 0) = 0
  <2>1. \A j \in K : ~(j <= 0)
    OBVIOUS
  <2>2. UpTo(K, 0) = {}
    BY <2>1, Zenon DEF UpTo
  <2> QED BY <2>2, FS_EmptySet DEF Place
<1>2. Place(K, 0) < Place(K, i)
  BY PlaceGrows
<1>3. UpTo(K, i) \subseteq K /\ IsFiniteSet(K)
  BY PlaceType DEF UpTo
<1>4. Place(K, i) <= Cardinality(K)
  BY <1>3, FS_Subset DEF Place
<1>5. Place(K, i) \in Nat /\ Cardinality(K) \in Nat
  BY PlaceType
<1> QED BY <1>1, <1>2, <1>4, <1>5

\* Each of the numbers is the place of some position.
LEMMA Numbering ==
    ASSUME NEW m \in Nat, NEW K \in SUBSET (1..m), NEW k \in 1..Cardinality(K)
    PROVE  \E i \in K : Place(K, i) = k
<1> DEFINE T == {i \in Nat : Place(K, i) >= k}
<1>1. Cardinality(K) \in Nat /\ k \in Nat /\ \A i : Place(K, i) \in Nat
  BY PlaceType
<1>2. UpTo(K, m) = K /\ UpTo(K, 0) = {}
  <2>1. \A j \in K : j <= m /\ ~(j <= 0)
    OBVIOUS
  <2> QED BY <2>1, Zenon DEF UpTo
<1>3. m \in T
  BY <1>1, <1>2 DEF Place
<1>4. PICK i \in T : \A j \in T : ~(<<j, i>> \in OpToRel(<, Nat))
  <2>1. T \subseteq Nat /\ T # {}
    BY <1>3
  <2> HIDE DEF T
  <2> QED BY <2>1, NatLessThanWellFounded, WFMin
<1>5. Place(K, 0) = 0
  BY <1>2, FS_EmptySet DEF Place
<1>6. i \in Nat /\ Place(K, i) >= k /\ i # 0
  <2>1. i \in Nat /\ Place(K, i) >= k
    BY <1>4
  <2>2. k >= 1
    OBVIOUS
  <2> QED BY <1>1, <1>5, <2>1, <2>2
<1>7. i - 1 \in Nat /\ ~(Place(K, i - 1) >= k)
  <2>1. i - 1 \in Nat /\ i - 1 < i
    BY <1>6
  <2>2. <<i - 1, i>> \in OpToRel(<, Nat)
    BY <1>6, <2>1 DEF OpToRel
  <2>3. i - 1 \notin T
    BY <2>2, <1>4
  <2> QED BY <2>1, <2>3
<1>8. UpTo(K, i) = UpTo(K, i - 1) \cup (K \cap {i})
  <2>1. \A j \in K : j <= i <=> j <= i - 1 \/ j = i
    BY <1>6
  <2> QED BY <2>1, Zenon DEF UpTo
<1>9. i \in K
  <2>1. SUFFICES ASSUME i \notin K PROVE FALSE
    OBVIOUS
  <2>2. UpTo(K, i) = UpTo(K, i - 1)
    BY <2>1, <1>8
  <2> QED BY <2>2, <1>6, <1>7 DEF Place
<1>10. Place(K, i) = Place(K, i - 1) + 1
  <2>1. UpTo(K, i) = UpTo(K, i - 1) \cup {i} /\ i \notin UpTo(K, i - 1)
    BY <1>6, <1>8, <1>9 DEF UpTo
  <2>2. IsFiniteSet(UpTo(K, i - 1))
    BY PlaceType
  <2> QED BY <2>1, <2>2, FS_AddElement DEF Place
<1> QED BY <1>1, <1>6, <1>7, <1>9, <1>10

\* The numbering keeps the order and leaves no position out.
LEMMA NthFacts ==
    ASSUME NEW m \in Nat, NEW K \in SUBSET (1..m)
    PROVE  /\ Cardinality(K) \in Nat
           /\ \A k \in 1..Cardinality(K) : Nth(K, k) \in K
           /\ \A k, l \in 1..Cardinality(K) : k < l => Nth(K, k) < Nth(K, l)
           /\ \A i \in K : Place(K, i) \in 1..Cardinality(K) /\ Nth(K, Place(K, i)) = i
<1> DEFINE n == Cardinality(K)
<1>1. n \in Nat /\ \A i : Place(K, i) \in Nat
  BY PlaceType
<1>2. \A k \in 1..n : Nth(K, k) \in K /\ Place(K, Nth(K, k)) = k
  <2> TAKE k \in 1..n
  <2>1. \E i \in K : Place(K, i) = k
    BY Numbering
  <2> QED BY <2>1 DEF Nth
<1>3. \A i \in K : Place(K, i) \in 1..n
  BY PlaceInRange
<1> HIDE DEF n
<1>4. \A k, l \in 1..n : k < l => Nth(K, k) < Nth(K, l)
  <2> SUFFICES ASSUME NEW k \in 1..n, NEW l \in 1..n, k < l, ~(Nth(K, k) < Nth(K, l))
               PROVE  FALSE
    OBVIOUS
  <2> DEFINE i == Nth(K, k)
             j == Nth(K, l)
  <2>1. i \in K /\ j \in K /\ Place(K, i) = k /\ Place(K, j) = l
    BY <1>2
  <2> HIDE DEF i, j
  <2>2. i \in Nat /\ j \in Nat
    BY <2>1
  <2>3. j < i \/ j = i
    BY <2>2 DEF i, j
  <2>4. j < i => Place(K, j) < Place(K, i)
    BY <2>1, <2>2, PlaceGrows
  <2> QED BY <1>1, <2>1, <2>3, <2>4
<1>5. \A i \in K : Nth(K, Place(K, i)) = i
  <2> TAKE i \in K
  <2> DEFINE j == Nth(K, Place(K, i))
  <2>1. j \in K /\ Place(K, j) = Place(K, i)
    BY <1>2, <1>3
  <2> HIDE DEF j
  <2>2. i \in Nat /\ j \in Nat
    BY <2>1
  <2>3. (j < i => Place(K, j) < Place(K, i)) /\ (i < j => Place(K, i) < Place(K, j))
    BY <2>1, <2>2, PlaceGrows
  <2>4. j = i
    BY <1>1, <2>1, <2>2, <2>3
  <2> QED BY <2>4 DEF j
<1> QED BY <1>1, <1>2, <1>3, <1>4, <1>5 DEF n

\* A part of a list.
LEMMA SublistFacts ==
    ASSUME NEW S, NEW s \in Seq(S), NEW K \in SUBSET (DOMAIN s)
    PROVE  /\ Sublist(s, K) \in Seq(S) /\ Len(Sublist(s, K)) = Cardinality(K)
           /\ Cardinality(K) \in Nat /\ DOMAIN Sublist(s, K) = 1..Cardinality(K)
           /\ \A k \in 1..Cardinality(K) : Sublist(s, K)[k] = s[Nth(K, k)] /\ Nth(K, k) \in K
           /\ \A k, l \in 1..Cardinality(K) : k < l => Nth(K, k) < Nth(K, l)
           /\ \A i \in K : Place(K, i) \in 1..Cardinality(K) /\ Nth(K, Place(K, i)) = i
<1> DEFINE n == Cardinality(K)
           p == Sublist(s, K)
<1>1. Len(s) \in Nat /\ DOMAIN s = 1..Len(s) /\ K \in SUBSET (1..Len(s))
  BY LenProperties
<1>2. /\ n \in Nat
      /\ \A k \in 1..n : Nth(K, k) \in K
      /\ \A k, l \in 1..n : k < l => Nth(K, k) < Nth(K, l)
      /\ \A i \in K : Place(K, i) \in 1..n /\ Nth(K, Place(K, i)) = i
  BY <1>1, NthFacts
<1>3. p = [k \in 1..n |-> s[Nth(K, k)]]
  BY DEF Sublist
<1> HIDE DEF n, p
<1>4. \A k \in 1..n : s[Nth(K, k)] \in S
  BY <1>1, <1>2, ElementOfSeq
<1>5. p \in [1..n -> S] /\ \A k \in 1..n : p[k] = s[Nth(K, k)]
  BY <1>3, <1>4
<1>6. p \in Seq(S) /\ Len(p) = n /\ DOMAIN p = 1..n
  <2>1. p \in Seq(S)
    BY <1>2, <1>5, SeqDef
  <2> QED BY <2>1, <1>2, <1>5, LenProperties
<1> QED BY <1>2, <1>5, <1>6 DEF n, p
==============================================================================
