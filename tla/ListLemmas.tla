------------------------------ MODULE ListLemmas ------------------------------
(***************************************************************************)
(* What inserting into a list and removing from it do, position by         *)
(* position, the least and greatest of some positions, and what can be     *)
(* said of folds.                                                          *)
(***************************************************************************)
EXTENDS HTListProofs, SequencesExt

LEMMA MinFacts ==
    ASSUME NEW K \in SUBSET Nat, K # {}
    PROVE  Min(K) \in K /\ \A j \in K : Min(K) <= j
<1>1. PICK i \in K : \A j \in K : ~(<<j, i>> \in OpToRel(<, Nat))
  BY NatLessThanWellFounded, WFMin
<1>2. \A j \in K : i <= j
  <2> SUFFICES ASSUME NEW j \in K, ~(i <= j) PROVE FALSE
    OBVIOUS
  <2>1. i \in Nat /\ j \in Nat /\ j < i
    OBVIOUS
  <2>2. <<j, i>> \in OpToRel(<, Nat)
    BY <2>1 DEF OpToRel
  <2> QED BY <1>1, <2>2
<1> QED BY <1>2 DEF Min

LEMMA MaxFacts ==
    ASSUME NEW n \in Nat, NEW K \in SUBSET (1..n), K # {}
    PROVE  Max(K) \in K /\ \A j \in K : j <= Max(K)
<1> DEFINE M == {n - i : i \in K}
<1>1. M \in SUBSET Nat /\ M # {}
  <2>1. \A i \in K : n - i \in Nat
    OBVIOUS
  <2> QED BY <2>1
<1>2. Min(M) \in M /\ \A j \in M : Min(M) <= j
  <2> HIDE DEF M
  <2> QED BY <1>1, MinFacts
<1>3. PICK i \in K : Min(M) = n - i
  BY <1>2
<1>4. \A j \in K : j <= i
  <2> TAKE j \in K
  <2>1. n - i <= n - j
    BY <1>2, <1>3
  <2>2. i \in Nat /\ j \in Nat
    OBVIOUS
  <2> QED BY <2>1, <2>2
<1> QED BY <1>4 DEF Max

LEMMA InsertAtFacts ==
    ASSUME NEW S, NEW s \in Seq(S), NEW i \in 1..Len(s) + 1, NEW e \in S
    PROVE  /\ InsertAt(s, i, e) \in Seq(S) /\ Len(InsertAt(s, i, e)) = Len(s) + 1
           /\ Len(s) \in Nat /\ DOMAIN s = 1..Len(s)
           /\ DOMAIN InsertAt(s, i, e) = 1..Len(s) + 1
           /\ \A j \in 1..Len(s) + 1 :
                 InsertAt(s, i, e)[j] = IF j < i THEN s[j] ELSE IF j = i THEN e ELSE s[j - 1]
<1> DEFINE a == SubSeq(s, 1, i - 1)
           b == SubSeq(s, i, Len(s))
           n == Len(s)
<1>1. n \in Nat /\ DOMAIN s = 1..n /\ i \in Nat /\ i - 1 \in Nat
  BY LenProperties
<1> HIDE DEF n
<1>2. /\ a \in Seq(S) /\ Len(a) = i - 1 /\ \A j \in 1..i - 1 : a[j] = s[j]
  <2>1. \A j \in 1..i - 1 : s[j] \in S
    BY <1>1, ElementOfSeq DEF n
  <2> QED BY <1>1, <2>1, SubSeqProperties
<1>3. /\ b \in Seq(S) /\ Len(b) = n - i + 1 /\ \A j \in 1..n - i + 1 : b[j] = s[i + j - 1]
  <2>1. \A j \in i..n : s[j] \in S
    BY <1>1, ElementOfSeq DEF n
  <2> QED BY <1>1, <2>1, SubSeqProperties DEF n
<1>4. <<e>> \in Seq(S) /\ Len(<<e>>) = 1 /\ <<e>>[1] = e
  OBVIOUS
<1> DEFINE c == a \o <<e>>
           p == c \o b
<1> HIDE DEF a, b
<1>5. /\ c \in Seq(S) /\ Len(c) = i /\ \A j \in 1..i : c[j] = IF j <= i - 1 THEN a[j] ELSE e
  BY <1>1, <1>2, <1>4, ConcatProperties
<1> HIDE DEF c
<1>6. /\ p \in Seq(S) /\ Len(p) = n + 1
      /\ \A j \in 1..n + 1 : p[j] = IF j <= i THEN c[j] ELSE b[j - i]
  <2>1. /\ p \in Seq(S) /\ Len(p) = Len(c) + Len(b)
        /\ \A j \in 1..Len(c) + Len(b) : p[j] = IF j <= Len(c) THEN c[j] ELSE b[j - Len(c)]
    BY <1>3, <1>5, ConcatProperties
  <2>2. Len(c) + Len(b) = n + 1
    BY <1>1, <1>3, <1>5
  <2> QED BY <1>5, <2>1, <2>2
<1> HIDE DEF p
<1>7. \A j \in 1..n + 1 : p[j] = IF j < i THEN s[j] ELSE IF j = i THEN e ELSE s[j - 1]
  <2> TAKE j \in 1..n + 1
  <2>1. CASE j < i
    BY <1>1, <1>2, <1>5, <1>6, <2>1
  <2>2. CASE j = i
    BY <1>1, <1>5, <1>6, <2>2
  <2>3. CASE i < j
    <3>1. j - i \in 1..n - i + 1 /\ i + (j - i) - 1 = j - 1
      BY <1>1, <2>3
    <3>2. p[j] = b[j - i] /\ b[j - i] = s[j - 1]
      BY <1>1, <1>3, <1>6, <2>3, <3>1
    <3> QED BY <1>1, <2>3, <3>2
  <2> QED BY <1>1, <2>1, <2>2, <2>3
<1>8. p = InsertAt(s, i, e)
  BY DEF p, c, a, b, InsertAt
<1>9. DOMAIN p = 1..n + 1
  BY <1>6, LenProperties
<1> QED BY <1>1, <1>6, <1>7, <1>8, <1>9 DEF n

LEMMA RemoveAtFacts ==
    ASSUME NEW S, NEW s \in Seq(S), NEW i \in 1..Len(s)
    PROVE  /\ RemoveAt(s, i) \in Seq(S) /\ Len(RemoveAt(s, i)) = Len(s) - 1
           /\ Len(s) \in Nat \ {0} /\ DOMAIN s = 1..Len(s)
           /\ DOMAIN RemoveAt(s, i) = 1..Len(s) - 1
           /\ \A j \in 1..Len(s) - 1 : RemoveAt(s, i)[j] = IF j < i THEN s[j] ELSE s[j + 1]
<1> DEFINE a == SubSeq(s, 1, i - 1)
           b == SubSeq(s, i + 1, Len(s))
           n == Len(s)
           p == a \o b
<1>1. n \in Nat /\ DOMAIN s = 1..n /\ i \in Nat /\ i - 1 \in Nat /\ n # 0
  BY LenProperties
<1> HIDE DEF n
<1>2. /\ a \in Seq(S) /\ Len(a) = i - 1 /\ \A j \in 1..i - 1 : a[j] = s[j]
  <2>1. \A j \in 1..i - 1 : s[j] \in S
    BY <1>1, ElementOfSeq DEF n
  <2> QED BY <1>1, <2>1, SubSeqProperties
<1>3. /\ b \in Seq(S) /\ Len(b) = n - i /\ \A j \in 1..n - i : b[j] = s[i + j]
  <2>1. \A j \in i + 1..n : s[j] \in S
    BY <1>1, ElementOfSeq DEF n
  <2>2. /\ b = SubSeq(s, i + 1, n) /\ i + 1 \in Int /\ n \in Int /\ i <= n
    BY <1>1 DEF n
  <2> HIDE DEF b
  <2>3. /\ b \in Seq(S) /\ Len(b) = IF i + 1 <= n THEN n - (i + 1) + 1 ELSE 0
        /\ \A j \in 1..n - (i + 1) + 1 : b[j] = s[(i + 1) + j - 1]
    BY <2>1, <2>2, SubSeqProperties
  <2>4. /\ n - (i + 1) + 1 = n - i
        /\ \A j \in 1..n - i : (i + 1) + j - 1 = i + j
    BY <1>1
  <2>5. Len(b) = n - i
    BY <1>1, <2>2, <2>3
  <2> QED BY <2>3, <2>4, <2>5
<1> HIDE DEF a, b
<1>4. /\ p \in Seq(S) /\ Len(p) = n - 1
      /\ \A j \in 1..n - 1 : p[j] = IF j <= i - 1 THEN a[j] ELSE b[j - (i - 1)]
  <2>1. /\ p \in Seq(S) /\ Len(p) = Len(a) + Len(b)
        /\ \A j \in 1..Len(a) + Len(b) : p[j] = IF j <= Len(a) THEN a[j] ELSE b[j - Len(a)]
    BY <1>2, <1>3, ConcatProperties
  <2>2. Len(a) + Len(b) = n - 1
    BY <1>1, <1>2, <1>3
  <2> QED BY <1>2, <2>1, <2>2
<1> HIDE DEF p
<1>5. \A j \in 1..n - 1 : p[j] = IF j < i THEN s[j] ELSE s[j + 1]
  <2> TAKE j \in 1..n - 1
  <2>1. CASE j < i
    BY <1>1, <1>2, <1>4, <2>1
  <2>2. CASE i <= j
    <3>1. j - (i - 1) \in 1..n - i /\ i + (j - (i - 1)) = j + 1
      BY <1>1, <2>2
    <3>2. p[j] = b[j - (i - 1)] /\ b[j - (i - 1)] = s[j + 1]
      BY <1>1, <1>3, <1>4, <2>2, <3>1
    <3> QED BY <1>1, <2>2, <3>2
  <2> QED BY <1>1, <2>1, <2>2
<1>6. p = RemoveAt(s, i)
  BY DEF p, a, b, n, RemoveAt
<1>7. DOMAIN p = 1..n - 1
  BY <1>4, LenProperties
<1> QED BY <1>1, <1>4, <1>5, <1>6, <1>7 DEF n

\* A list without an element that is in it once.
LEMMA RemoveFirstFacts ==
    ASSUME NEW S, NEW s \in Seq(S), IsInjective(s), NEW e \in Range(s)
    PROVE  /\ RemoveFirst(s, e) \in Seq(S) /\ IsInjective(RemoveFirst(s, e))
           /\ Range(RemoveFirst(s, e)) = Range(s) \ {e}
<1> DEFINE I == {i \in 1..Len(s) : s[i] = e}
           k == Min(I)
           p == RemoveAt(s, k)
<1>1. Len(s) \in Nat /\ DOMAIN s = 1..Len(s)
  BY LenProperties
<1>2. I \in SUBSET Nat /\ I # {} /\ I \subseteq 1..Len(s)
  BY <1>1 DEF Range
<1>3. k \in I
  <2> HIDE DEF I
  <2> QED BY <1>2, MinFacts
<1>4. k \in 1..Len(s) /\ s[k] = e
  BY <1>3
<1>5. RemoveFirst(s, e) = p
  <2>1. \E i \in 1..Len(s) : s[i] = e
    BY <1>4
  <2>2. SelectInSeq(s, LAMBDA v : v = e) = k
    BY <1>2 DEF SelectInSeq
  <2> QED BY <2>1, <2>2 DEF RemoveFirst
<1> HIDE DEF I, k
<1>6. /\ p \in Seq(S) /\ DOMAIN p = 1..Len(s) - 1
      /\ \A j \in 1..Len(s) - 1 : p[j] = IF j < k THEN s[j] ELSE s[j + 1]
  BY <1>4, RemoveAtFacts
<1> HIDE DEF p
<1> DEFINE Old(j) == IF j < k THEN j ELSE j + 1
<1>7. \A j \in DOMAIN p : Old(j) \in DOMAIN s /\ Old(j) # k /\ p[j] = s[Old(j)]
  BY <1>1, <1>4, <1>6
<1>8. \A i, j \in DOMAIN p : Old(i) = Old(j) => i = j
  BY <1>1, <1>4, <1>6
<1>9. \A i \in DOMAIN s : i # k => \E j \in DOMAIN p : p[j] = s[i]
  <2> TAKE i \in DOMAIN s
  <2> HAVE i # k
  <2>1. CASE i < k
    <3>1. i \in DOMAIN p /\ p[i] = s[i]
      BY <1>1, <1>4, <1>6, <2>1
    <3> QED BY <3>1
  <2>2. CASE k < i
    <3>1. i - 1 \in DOMAIN p /\ p[i - 1] = s[(i - 1) + 1] /\ (i - 1) + 1 = i
      BY <1>1, <1>4, <1>6, <2>2
    <3> QED BY <3>1
  <2> QED BY <1>1, <1>4, <2>1, <2>2
<1> HIDE DEF Old
<1>10. IsInjective(p)
  BY <1>7, <1>8 DEF IsInjective
<1>11. Range(p) = Range(s) \ {e}
  <2>1. \A j \in DOMAIN p : p[j] \in Range(s) /\ p[j] # e
    BY <1>1, <1>4, <1>7 DEF IsInjective, Range
  <2>2. \A i \in DOMAIN s : s[i] # e => s[i] \in Range(p)
    BY <1>4, <1>9 DEF Range
  <2> QED BY <2>1, <2>2 DEF Range
<1> QED BY <1>5, <1>6, <1>10, <1>11

\* A list with a new head.
LEMMA PrependFacts ==
    ASSUME NEW S, NEW s \in Seq(S), NEW e \in S, IsInjective(s), e \notin Range(s)
    PROVE  /\ <<e>> \o s \in Seq(S) /\ IsInjective(<<e>> \o s)
           /\ Range(<<e>> \o s) = Range(s) \cup {e}
<1> DEFINE p == <<e>> \o s
<1>1. Len(s) \in Nat /\ DOMAIN s = 1..Len(s)
  BY LenProperties
<1>2. <<e>> \in Seq(S) /\ Len(<<e>>) = 1 /\ <<e>>[1] = e
  OBVIOUS
<1>3. /\ p \in Seq(S) /\ Len(p) = 1 + Len(s)
      /\ \A j \in 1..1 + Len(s) : p[j] = IF j <= 1 THEN e ELSE s[j - 1]
  <2> HIDE DEF p
  <2>1. /\ <<e>> \o s \in Seq(S) /\ Len(<<e>> \o s) = Len(<<e>>) + Len(s)
        /\ \A j \in 1..Len(<<e>>) + Len(s) :
              (<<e>> \o s)[j] = IF j <= Len(<<e>>) THEN <<e>>[j] ELSE s[j - Len(<<e>>)]
    BY <1>2, ConcatProperties
  <2> QED BY <1>2, <2>1 DEF p
<1> HIDE DEF p
<1>4. DOMAIN p = 1..1 + Len(s)
  BY <1>3, LenProperties
<1>5. \A j \in DOMAIN p : j # 1 => j - 1 \in DOMAIN s /\ p[j] = s[j - 1]
  BY <1>1, <1>3, <1>4
<1>6. 1 \in DOMAIN p /\ p[1] = e
  BY <1>1, <1>3, <1>4
<1>7. \A i \in DOMAIN s : i + 1 \in DOMAIN p /\ p[i + 1] = s[i]
  <2> TAKE i \in DOMAIN s
  <2>1. i + 1 \in 1..1 + Len(s) /\ ~(i + 1 <= 1) /\ (i + 1) - 1 = i
    BY <1>1
  <2> QED BY <1>3, <1>4, <2>1
<1>8. \A j \in DOMAIN p : j \in Nat
  BY <1>1, <1>4
<1>9. IsInjective(p)
  <2> SUFFICES ASSUME NEW i \in DOMAIN p, NEW j \in DOMAIN p, p[i] = p[j] PROVE i = j
    BY DEF IsInjective
  <2>1. CASE i = 1 \/ j = 1
    BY <1>5, <1>6, <2>1 DEF Range
  <2>2. CASE i # 1 /\ j # 1
    <3>1. i - 1 = j - 1
      BY <1>5, <2>2 DEF IsInjective
    <3> QED BY <1>8, <3>1
  <2> QED BY <2>1, <2>2
<1>10. Range(p) = Range(s) \cup {e}
  <2>1. \A j \in DOMAIN p : p[j] \in Range(s) \cup {e}
    BY <1>5, <1>6 DEF Range
  <2>2. \A i \in DOMAIN s : s[i] \in Range(p)
    BY <1>7 DEF Range
  <2>3. e \in Range(p)
    BY <1>6 DEF Range
  <2> QED BY <2>1, <2>2, <2>3 DEF Range
<1> QED BY <1>3, <1>9, <1>10 DEF p

LEMMA ReverseFacts ==
    ASSUME NEW S, NEW s \in Seq(S), IsInjective(s)
    PROVE  Reverse(s) \in Seq(S) /\ IsInjective(Reverse(s)) /\ Range(Reverse(s)) = Range(s)
<1> DEFINE n == Len(s)
           p == Reverse(s)
<1>1. n \in Nat /\ DOMAIN s = 1..n
  BY LenProperties
<1>2. p = [i \in 1..n |-> s[(n - i) + 1]]
  BY DEF Reverse
<1> HIDE DEF n, p
<1>3. \A i \in 1..n : (n - i) + 1 \in 1..n /\ (n - ((n - i) + 1)) + 1 = i
  BY <1>1
<1>4. DOMAIN p = 1..n /\ \A i \in 1..n : p[i] = s[(n - i) + 1] /\ s[i] \in S
  BY <1>1, <1>2, ElementOfSeq
<1>5. p \in Seq(S)
  <2>1. p \in [1..n -> S]
    BY <1>2, <1>3, <1>4
  <2> QED BY <1>1, <2>1, SeqDef
<1>6. IsInjective(p)
  <2> SUFFICES ASSUME NEW i \in 1..n, NEW j \in 1..n, p[i] = p[j] PROVE i = j
    BY <1>4 DEF IsInjective
  <2>1. (n - i) + 1 = (n - j) + 1
    BY <1>1, <1>3, <1>4 DEF IsInjective
  <2> QED BY <1>1, <2>1
<1>7. Range(p) = Range(s)
  <2>1. \A i \in 1..n : p[i] \in Range(s)
    BY <1>1, <1>3, <1>4 DEF Range
  <2>2. \A i \in 1..n : s[i] \in Range(p)
    <3> TAKE i \in 1..n
    <3> DEFINE j == (n - i) + 1
    <3>1. j \in 1..n /\ (n - j) + 1 = i
      BY <1>3
    <3> HIDE DEF j
    <3>2. p[j] = s[i]
      BY <1>4, <3>1
    <3> QED BY <1>4, <3>1, <3>2 DEF Range
  <2> QED BY <1>1, <1>4, <2>1, <2>2 DEF Range
<1> QED BY <1>5, <1>6, <1>7 DEF p

\* Sets are folded by taking one element after the other out of them, so
\* what holds of all sets is shown by going from each set to the one without
\* the element that is taken.
LEMMA FoldInduction ==
    ASSUME NEW D, IsFiniteSet(D), NEW pick, NEW it, NEW A,
           \A s \in SUBSET D : s # {} => pick[s] \in s,
           it[{}] \in A[{}],
           \A s \in SUBSET D :
              s # {} /\ it[s \ {pick[s]}] \in A[s \ {pick[s]}] => it[s] \in A[s]
    PROVE  \A s \in SUBSET D : it[s] \in A[s]
<1> SUFFICES ASSUME NEW t \in SUBSET D, it[t] \notin A[t] PROVE FALSE
  OBVIOUS
<1> DEFINE Bad == {s \in SUBSET D : it[s] \notin A[s]}
           T == {Cardinality(s) : s \in Bad}
<1>1. \A s \in SUBSET D : IsFiniteSet(s) /\ Cardinality(s) \in Nat
  BY FS_Subset, FS_CardinalityType
<1>2. T \subseteq Nat /\ T # {}
  BY <1>1
<1> HIDE DEF T
<1>3. Min(T) \in T /\ \A k \in T : Min(T) <= k
  BY <1>2, MinFacts
<1>4. PICK s \in Bad : Min(T) = Cardinality(s)
  <2>1. \A m \in T : \E s \in Bad : m = Cardinality(s)
    BY DEF T
  <2> HIDE DEF Bad
  <2> QED BY <1>3, <2>1
<1>5. s # {}
  OBVIOUS
<1> DEFINE q == s \ {pick[s]}
<1>6. q \in SUBSET D /\ Cardinality(q) = Cardinality(s) - 1
  BY <1>1, <1>5, FS_RemoveElement
<1>7. q \notin Bad
  <2> SUFFICES ASSUME q \in Bad PROVE FALSE
    OBVIOUS
  <2>1. Cardinality(q) \in T
    BY DEF T
  <2>2. Cardinality(s) <= Cardinality(q)
    BY <1>3, <1>4, <2>1
  <2> QED BY <1>1, <1>6, <2>2
<1> QED BY <1>5, <1>6, <1>7

\* There is what a fold defines recursively, if each step stays in the sets A.
FoldOf(D, pick, f, base) ==
    CHOOSE it : it = [s \in SUBSET D |->
                         IF s = {} THEN base ELSE f[<<it[s \ {pick[s]}], pick[s]>>]]

LEMMA FoldExists ==
    ASSUME NEW D, IsFiniteSet(D), NEW pick, NEW f, NEW base, NEW V, NEW A,
           \A s \in SUBSET D : A[s] \subseteq V,
           \A s \in SUBSET D : s # {} => pick[s] \in s,
           base \in A[{}],
           \A s \in SUBSET D :
              s # {} => \A v \in A[s \ {pick[s]}] : f[<<v, pick[s]>>] \in A[s]
    PROVE  LET it == FoldOf(D, pick, f, base) IN
           /\ it \in [SUBSET D -> V]
           /\ it[{}] = base
           /\ \A s \in SUBSET D : s # {} => it[s] = f[<<it[s \ {pick[s]}], pick[s]>>]
           /\ \A s \in SUBSET D : it[s] \in A[s]
<1> DEFINE Small(n) == {s \in SUBSET D : Cardinality(s) <= n}
           Step(it, s) == IF s = {} THEN base ELSE f[<<it[s \ {pick[s]}], pick[s]>>]
           Good(n) == \E it : it = [s \in Small(n) |-> Step(it, s)]
           Bad == {n \in Nat : ~Good(n)}
<1>1. \A s \in SUBSET D : IsFiniteSet(s) /\ Cardinality(s) \in Nat
  BY FS_Subset, FS_CardinalityType
<1>2. \A n \in Nat : Good(n)
  <2> SUFFICES ASSUME Bad # {} PROVE FALSE
    OBVIOUS
  <2>1. Bad \subseteq Nat
    OBVIOUS
  <2> HIDE DEF Bad
  <2>2. Min(Bad) \in Bad /\ \A k \in Bad : Min(Bad) <= k
    BY <2>1, MinFacts
  <2> DEFINE n == Min(Bad)
  <2>3. n \in Nat /\ ~Good(n)
    BY <2>1, <2>2 DEF Bad
  <2> HIDE DEF n
  <2>4. n # 0
    <3> SUFFICES ASSUME n = 0 PROVE FALSE
      OBVIOUS
    <3> DEFINE it == [s \in Small(0) |-> base]
    <3>1. \A s \in Small(0) : s = {}
      <4> TAKE s \in Small(0)
      <4>1. IsFiniteSet(s) /\ Cardinality(s) = 0
        BY <1>1
      <4> QED BY <4>1, FS_EmptySet
    <3>2. it = [s \in Small(0) |-> Step(it, s)]
      BY <3>1
    <3> QED BY <2>3, <3>2
  <2>5. Good(n - 1)
    <3>1. n - 1 \in Nat /\ ~(n <= n - 1)
      BY <2>3, <2>4
    <3>2. n - 1 \notin Bad
      BY <2>2, <3>1 DEF n
    <3> QED BY <3>1, <3>2 DEF Bad
  <2>6. PICK it : it = [s \in Small(n - 1) |-> Step(it, s)]
    BY <2>5
  <2> DEFINE jt == [s \in Small(n) |-> Step(it, s)]
  <2>7. \A s \in Small(n - 1) : s \in Small(n) /\ jt[s] = it[s]
    <3> TAKE s \in Small(n - 1)
    <3>1. s \in Small(n)
      BY <1>1, <2>3
    <3>2. it[s] = Step(it, s) 
      BY <2>6
    <3> QED BY <3>1, <3>2
  <2>8. \A s \in Small(n) : Step(it, s) = Step(jt, s)
    <3> TAKE s \in Small(n)
    <3>1. CASE s = {}
      BY <3>1
    <3>2. CASE s # {}
      <4>1. s \ {pick[s]} \in SUBSET D /\ Cardinality(s \ {pick[s]}) = Cardinality(s) - 1
        BY <1>1, <3>2, FS_RemoveElement
      <4>2. s \ {pick[s]} \in Small(n - 1)
        BY <1>1, <2>3, <4>1
      <4> HIDE DEF jt
      <4> QED BY <2>7, <4>2
    <3> QED BY <3>1, <3>2
  <2>9. jt = [s \in Small(n) |-> Step(jt, s)]
    BY <2>8, Zenon
  <2> HIDE DEF jt
  <2>10. Good(n)
    BY <2>9
  <2> QED BY <2>3, <2>10
<1>3. Small(Cardinality(D)) = SUBSET D
  <2>1. \A s \in SUBSET D : Cardinality(s) <= Cardinality(D)
    BY FS_Subset
  <2> QED BY <2>1
<1> DEFINE it == FoldOf(D, pick, f, base)
<1>4. it = [s \in SUBSET D |-> Step(it, s)]
  <2>1. Good(Cardinality(D))
    <3> HIDE DEF Good
    <3> QED BY <1>1, <1>2
  <2>2. PICK jt : jt = [s \in Small(Cardinality(D)) |-> Step(jt, s)]
    BY <2>1
  <2> HIDE DEF Small
  <2>3. jt = [s \in SUBSET D |-> Step(jt, s)]
    BY <1>3, <2>2
  <2> QED BY <2>3 DEF FoldOf
<1> HIDE DEF it
<1>5. \A s \in SUBSET D : it[s] \in A[s]
  <2>1. it[{}] \in A[{}]
    BY <1>4
  <2>2. ASSUME NEW s \in SUBSET D, s # {}, it[s \ {pick[s]}] \in A[s \ {pick[s]}]
        PROVE  it[s] \in A[s]
    <3>1. it[s] = f[<<it[s \ {pick[s]}], pick[s]>>]
      BY <1>4, <2>2
    <3> QED BY <2>2, <3>1
  <2> HIDE DEF Step
  <2> QED BY <2>1, <2>2, FoldInduction
<1>6. /\ it \in [SUBSET D -> V]
      /\ it[{}] = base
      /\ \A s \in SUBSET D : s # {} => it[s] = f[<<it[s \ {pick[s]}], pick[s]>>]
  BY <1>4, <1>5
<1> QED BY <1>5, <1>6 DEF it
==============================================================================
