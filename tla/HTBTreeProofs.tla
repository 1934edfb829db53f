---------------------------- MODULE HTBTreeProofs -----------------------------
(***************************************************************************)
(* Proofs about HTBTree, for trees of any size and any objects: the        *)
(* pointers always make one tree in order, the depths that it is balanced  *)
(* by are right, and a walk meets every element once, in order.            *)
(***************************************************************************)
EXTENDS HTBTree, ListLemmas

(***************************************************************************)
(* Trees.  A tree is told by the functions that give the children and the  *)
(* father of each element, and a side of it is the mirror image of the     *)
(* other: what is said of the left holds of the right with the functions   *)
(* changed over.                                                           *)
(***************************************************************************)
Links(D, L, R, U) ==
    /\ Null \notin D
    /\ L \in [D -> D \cup {Null}] /\ R \in [D -> D \cup {Null}] /\ U \in [D -> D \cup {Null}]
    /\ \A n \in D : /\ L[n] # Null => U[L[n]] = n
                    /\ R[n] # Null => U[R[n]] = n
                    /\ L[n] # Null => L[n] # R[n]
                    /\ U[n] # Null => L[U[n]] = n \/ R[U[n]] = n

\* before[n] and after[n] are what comes before and after n in the order of the tree.
Ordered(D, before, after) ==
    /\ before \in [D -> SUBSET D] /\ after \in [D -> SUBSET D]
    /\ \A n \in D : n \notin before[n] /\ n \notin after[n]
    /\ \A m, n \in D : m \in before[n] <=> n \in after[m]
    /\ \A k, m, n \in D : k \in before[m] /\ m \in before[n] => k \in before[n]
    /\ \A m, n \in D : m = n \/ m \in before[n] \/ m \in after[n]

\* The elements of the subtree of c, if below[n] are those of the subtree of n.
Of(below, c) == IF c = Null THEN {} ELSE below[c]

Sorted(D, L, R, U, below, before, after) ==
    /\ below \in [D -> SUBSET D]
    /\ \A n \in D : /\ below[n] = {n} \cup Of(below, L[n]) \cup Of(below, R[n])
                    /\ Of(below, L[n]) \subseteq before[n]
                    /\ Of(below, R[n]) \subseteq after[n]
                    /\ \A m \in below[n] : below[m] \subseteq below[n] /\ (m # n => U[m] \in below[n])

DepthOf(LD, RD, c) == IF c = Null THEN 0 ELSE 1 + Larger(LD[c], RD[c])

\* Each element knows the depths of its subtrees, except that of x.
Deep(D, L, R, LD, RD, x) ==
    /\ LD \in [D -> Nat] /\ RD \in [D -> Nat]
    /\ \A n \in D : /\ L[n] = Null \/ L[n] # x => LD[n] = DepthOf(LD, RD, L[n])
                    /\ R[n] = Null \/ R[n] # x => RD[n] = DepthOf(LD, RD, R[n])

(***************************************************************************)
(* Mirror images.                                                          *)
(***************************************************************************)
LEMMA Mirror ==
    ASSUME NEW D, NEW L, NEW R, NEW U, NEW LD, NEW RD, NEW below, NEW before, NEW after, NEW x
    PROVE  /\ Links(D, L, R, U) => Links(D, R, L, U)
           /\ Ordered(D, before, after) => Ordered(D, after, before)
           /\ Sorted(D, L, R, U, below, before, after) => Sorted(D, R, L, U, below, after, before)
<1>1. Links(D, L, R, U) => Links(D, R, L, U)
  BY DEF Links
<1>2. Ordered(D, before, after) => Ordered(D, after, before)
  BY DEF Ordered
<1>3. Sorted(D, L, R, U, below, before, after) => Sorted(D, R, L, U, below, after, before)
  BY DEF Sorted
<1> QED BY <1>1, <1>2, <1>3

\* So have the depths.
LEMMA DepthMirror ==
    ASSUME NEW D, NEW L, NEW R, NEW LD, NEW RD, NEW x, Deep(D, L, R, LD, RD, x),
           L \in [D -> D \cup {Null}], R \in [D -> D \cup {Null}]
    PROVE  Deep(D, R, L, RD, LD, x)
<1>1. \A c \in D \cup {Null} : DepthOf(LD, RD, c) = DepthOf(RD, LD, c)
  BY DEF DepthOf, Larger, Deep
<1> QED BY <1>1 DEF Deep

(***************************************************************************)
(* A rotation: the left child of f comes up.                               *)
(***************************************************************************)
TurnL(D, L, R, U, f) ==
    [n \in D |-> IF n = f THEN R[L[f]] ELSE IF n = U[f] /\ L[n] = f THEN L[f] ELSE L[n]]
TurnR(D, L, R, U, f) ==
    [n \in D |-> IF n = L[f] THEN f ELSE IF n = U[f] /\ R[n] = f THEN L[f] ELSE R[n]]
TurnU(D, L, R, U, f) ==
    [n \in D |-> IF n = R[L[f]] THEN f ELSE IF n = f THEN L[f]
                 ELSE IF n = L[f] THEN U[f] ELSE U[n]]
TurnBelow(D, L, R, below, f) ==
    [below EXCEPT ![f] = {f} \cup Of(below, R[L[f]]) \cup Of(below, R[f]),
                  ![L[f]] = below[f]]

\* The elements of a rotation are different from each other.
LEMMA TurnApart ==
    ASSUME NEW D, NEW L, NEW R, NEW U, NEW below, NEW before, NEW after,
           Links(D, L, R, U), Ordered(D, before, after),
           Sorted(D, L, R, U, below, before, after), NEW f \in D, L[f] # Null
    PROVE  /\ L[f] \in D /\ L[f] # f /\ R[L[f]] # f /\ R[L[f]] # L[f] /\ R[f] # f /\ R[f] # L[f]
           /\ L[L[f]] # f /\ L[L[f]] # L[f]
           /\ U[f] # f /\ U[f] # L[f] /\ (R[L[f]] # Null => U[f] # R[L[f]] /\ R[f] # R[L[f]])
           /\ U[L[f]] = f
           /\ \A n \in D : L[n] = f \/ R[n] = f => n = U[f]
           /\ \A n \in D : L[n] = L[f] \/ R[n] = L[f] => n = f
<1> DEFINE a == L[f]
<1>1. a \in D /\ f \in D /\ R[a] \in D \cup {Null} /\ U[f] \in D \cup {Null} /\ R[f] \in D \cup {Null}
      /\ L[a] \in D \cup {Null} /\ Null \notin D
  BY DEF Links
<1>2. \A n \in D : n \in below[n]
  BY DEF Sorted
<1>3. \A n \in D : /\ L[n] # Null => below[L[n]] \subseteq before[n] /\ below[L[n]] \subseteq below[n]
                   /\ R[n] # Null => below[R[n]] \subseteq after[n] /\ below[R[n]] \subseteq below[n]
  BY DEF Sorted, Of
<1>4. \A n \in D : n \notin before[n] /\ n \notin after[n]
  BY DEF Ordered
<1>5. \A n \in D : f \in below[n] /\ n \in below[f] => n = f
  <2> SUFFICES ASSUME NEW n \in D, f \in below[n], n \in below[f], n # f PROVE FALSE
    OBVIOUS
  <2>1. \/ L[f] # Null /\ n \in below[L[f]]
        \/ R[f] # Null /\ n \in below[R[f]]
    BY DEF Sorted, Of
  <2>2. \A c \in D : n \in below[c] => f \in below[c]
    BY DEF Sorted
  <2>3. L[f] \in D \cup {Null} /\ R[f] \in D \cup {Null}
    BY DEF Links
  <2> QED BY <1>3, <1>4, <2>1, <2>2, <2>3
<1>6. U[a] = f /\ (R[a] # Null => U[R[a]] = a) /\ (R[f] # Null => U[R[f]] = f)
  BY <1>1 DEF Links
<1>7. a # f /\ R[a] # f /\ R[a] # a /\ R[f] # f /\ R[f] # a /\ L[a] # f /\ L[a] # a
  <2>1. a # f
    BY <1>1, <1>2, <1>3, <1>4
  <2>2. R[a] # a /\ L[a] # a
    BY <1>1, <1>2, <1>3, <1>4
  <2>3. R[f] # f
    BY <1>1, <1>2, <1>3, <1>4
  <2>4. R[f] # a
    BY <1>1 DEF Links
  <2>5. R[a] # f /\ L[a] # f
    <3>1. a \in below[f]
      BY <1>1, <1>2, <1>3
    <3>2. R[a] # f
      BY <1>1, <1>2, <1>3, <1>5, <2>1, <3>1
    <3>3. L[a] # f
      BY <1>1, <1>2, <1>3, <1>5, <2>1, <3>1
    <3> QED BY <3>2, <3>3
  <2> QED BY <2>1, <2>2, <2>3, <2>4, <2>5
<1>8. \A n \in D : L[n] = f \/ R[n] = f => n = U[f]
  BY <1>1 DEF Links
<1>9. \A n \in D : L[n] = a \/ R[n] = a => n = f
  BY <1>1, <1>6 DEF Links
<1>10. U[f] # f /\ U[f] # a
  BY <1>1, <1>7 DEF Links
<1>11. R[a] # Null => U[f] # R[a] /\ R[f] # R[a]
  <2> SUFFICES ASSUME R[a] # Null PROVE U[f] # R[a] /\ R[f] # R[a]
    OBVIOUS
  <2>1. R[f] # R[a]
    BY <1>1, <1>6, <1>7
  <2>2. U[f] # R[a]
    <3> SUFFICES ASSUME U[f] = R[a] PROVE FALSE
      OBVIOUS
    <3>1. R[a] \in below[a] /\ a \in below[f] /\ below[a] \subseteq below[f]
      BY <1>1, <1>2, <1>3
    <3>2. f \in below[R[a]]
      BY <1>1, <1>2, <1>3 DEF Links
    <3> QED BY <1>1, <1>5, <1>7, <3>1, <3>2
  <2> QED BY <2>1, <2>2
<1> HIDE DEF a
<1>12. /\ a \in D /\ a # f /\ R[a] # f /\ R[a] # a /\ R[f] # f /\ R[f] # a
       /\ L[a] # f /\ L[a] # a
       /\ U[f] # f /\ U[f] # a /\ (R[a] # Null => U[f] # R[a] /\ R[f] # R[a])
       /\ U[a] = f
       /\ \A n \in D : L[n] = f \/ R[n] = f => n = U[f]
       /\ \A n \in D : L[n] = a \/ R[n] = a => n = f
  BY <1>1, <1>6, <1>7, <1>8, <1>9, <1>10, <1>11
<1> QED BY <1>12 DEF a

\* A rotation leaves a tree.
LEMMA TurnLinks ==
    ASSUME NEW D, NEW L, NEW R, NEW U, NEW below, NEW before, NEW after,
           Links(D, L, R, U), Ordered(D, before, after),
           Sorted(D, L, R, U, below, before, after), NEW f \in D, L[f] # Null
    PROVE  Links(D, TurnL(D, L, R, U, f), TurnR(D, L, R, U, f), TurnU(D, L, R, U, f))
<1> DEFINE a == L[f]
           L2 == TurnL(D, L, R, U, f)
           R2 == TurnR(D, L, R, U, f)
           U2 == TurnU(D, L, R, U, f)
<1>1. /\ a \in D /\ a # f /\ R[a] # f /\ R[a] # a /\ R[f] # f /\ R[f] # a
      /\ L[a] # f /\ L[a] # a
      /\ U[f] # f /\ U[f] # a /\ (R[a] # Null => U[f] # R[a] /\ R[f] # R[a])
      /\ U[a] = f
      /\ \A n \in D : L[n] = f \/ R[n] = f => n = U[f]
      /\ \A n \in D : L[n] = a \/ R[n] = a => n = f
  BY TurnApart
<1>2. \A n \in D : L[n] \in D \cup {Null} /\ R[n] \in D \cup {Null} /\ U[n] \in D \cup {Null}
  BY DEF Links
<1>3. Null \notin D
  BY DEF Links
<1>4. \A n \in D : L2[n] = IF n = f THEN R[a] ELSE IF n = U[f] /\ L[n] = f THEN a ELSE L[n]
  BY DEF TurnL
<1>5. \A n \in D : R2[n] = IF n = a THEN f ELSE IF n = U[f] /\ R[n] = f THEN a ELSE R[n]
  BY DEF TurnR
<1>6. \A n \in D : U2[n] = IF n = R[a] THEN f ELSE IF n = f THEN a ELSE IF n = a THEN U[f] ELSE U[n]
  BY DEF TurnU
<1>7. L2 \in [D -> D \cup {Null}] /\ R2 \in [D -> D \cup {Null}] /\ U2 \in [D -> D \cup {Null}]
  BY <1>1, <1>2 DEF TurnL, TurnR, TurnU
<1> HIDE DEF a, L2, R2, U2
<1>8. \A n \in D : /\ L[n] # Null => U[L[n]] = n
                   /\ R[n] # Null => U[R[n]] = n
                   /\ L[n] # Null => L[n] # R[n]
                   /\ U[n] # Null => L[U[n]] = n \/ R[U[n]] = n
  BY DEF Links
<1>9. a = L[f] /\ U[a] = f
  BY <1>1 DEF a
<1>10. ASSUME NEW n \in D
       PROVE  /\ L2[n] # Null => U2[L2[n]] = n
              /\ R2[n] # Null => U2[R2[n]] = n
              /\ L2[n] # Null => L2[n] # R2[n]
  <2>1. CASE n = f
    BY <1>1, <1>2, <1>3, <1>4, <1>5, <1>6, <1>8, <1>9, <2>1
  <2>2. CASE n = a
    BY <1>1, <1>2, <1>3, <1>4, <1>5, <1>6, <1>8, <1>9, <2>2
  <2>3. CASE n # f /\ n # a
    BY <1>1, <1>2, <1>3, <1>4, <1>5, <1>6, <1>8, <1>9, <2>3
  <2> QED BY <2>1, <2>2, <2>3
<1>11. ASSUME NEW n \in D, U2[n] # Null
       PROVE  L2[U2[n]] = n \/ R2[U2[n]] = n
  <2>1. CASE n = R[a]
    BY <1>1, <1>2, <1>3, <1>4, <1>5, <1>6, <1>8, <1>9, <2>1
  <2>2. CASE n = f
    BY <1>1, <1>2, <1>3, <1>4, <1>5, <1>6, <1>8, <1>9, <2>2
  <2>3. CASE n = a
    BY <1>1, <1>2, <1>3, <1>4, <1>5, <1>6, <1>8, <1>9, <1>11, <2>3
  <2>4. CASE n # R[a] /\ n # f /\ n # a
    BY <1>1, <1>2, <1>3, <1>4, <1>5, <1>6, <1>8, <1>9, <1>11, <2>4
  <2> QED BY <2>1, <2>2, <2>3, <2>4
<1>12. Links(D, L2, R2, U2)
  BY <1>3, <1>7, <1>10, <1>11 DEF Links
<1> QED BY <1>12 DEF L2, R2, U2

\* ... in the same order: the inner subtree of the child stays between the two, and the
\* new subtree of the child is the old one of f.
LEMMA TurnSorted ==
    ASSUME NEW D, NEW L, NEW R, NEW U, NEW below, NEW before, NEW after,
           Links(D, L, R, U), Ordered(D, before, after),
           Sorted(D, L, R, U, below, before, after), NEW f \in D, L[f] # Null
    PROVE  Sorted(D, TurnL(D, L, R, U, f), TurnR(D, L, R, U, f), TurnU(D, L, R, U, f),
                  TurnBelow(D, L, R, below, f), before, after)
<1> DEFINE a == L[f]
           L2 == TurnL(D, L, R, U, f)
           R2 == TurnR(D, L, R, U, f)
           U2 == TurnU(D, L, R, U, f)
           B2 == TurnBelow(D, L, R, below, f)
           inner == Of(below, R[a])
           right == Of(below, R[f])
<1>1. /\ a \in D /\ a # f /\ R[a] # f /\ R[a] # a /\ R[f] # f /\ R[f] # a
      /\ L[a] # f /\ L[a] # a
      /\ U[f] # f /\ U[f] # a /\ (R[a] # Null => U[f] # R[a] /\ R[f] # R[a])
      /\ U[a] = f
      /\ \A n \in D : L[n] = f \/ R[n] = f => n = U[f]
      /\ \A n \in D : L[n] = a \/ R[n] = a => n = f
  BY TurnApart
<1>2. \A n \in D : L[n] \in D \cup {Null} /\ R[n] \in D \cup {Null} /\ U[n] \in D \cup {Null}
  BY DEF Links
<1>3. Null \notin D
  BY DEF Links
<1>4. \A n \in D : L2[n] = IF n = f THEN R[a] ELSE IF n = U[f] /\ L[n] = f THEN a ELSE L[n]
  BY DEF TurnL
<1>5. \A n \in D : R2[n] = IF n = a THEN f ELSE IF n = U[f] /\ R[n] = f THEN a ELSE R[n]
  BY DEF TurnR
<1>6. \A n \in D : U2[n] = IF n = R[a] THEN f ELSE IF n = f THEN a ELSE IF n = a THEN U[f] ELSE U[n]
  BY DEF TurnU
<1>7. /\ below \in [D -> SUBSET D]
      /\ \A n \in D : /\ below[n] = {n} \cup Of(below, L[n]) \cup Of(below, R[n])
                      /\ Of(below, L[n]) \subseteq before[n]
                      /\ Of(below, R[n]) \subseteq after[n]
                      /\ \A m \in below[n] : below[m] \subseteq below[n] /\ (m # n => U[m] \in below[n])
  BY DEF Sorted
<1>8. \A n \in D : Of(below, L[n]) \subseteq D /\ Of(below, R[n]) \subseteq D
  BY <1>2, <1>7 DEF Of
<1>9. /\ B2 \in [D -> SUBSET D]
      /\ B2[f] = {f} \cup inner \cup right
      /\ B2[a] = below[f]
      /\ \A n \in D : n # f /\ n # a => B2[n] = below[n]
  BY <1>1, <1>7, <1>8 DEF TurnBelow
<1>10. a = L[f] /\ inner = Of(below, R[a]) /\ right = Of(below, R[f])
  OBVIOUS
<1>11. /\ \A n \in D : n \notin before[n] /\ n \notin after[n]
       /\ \A m, n \in D : m \in before[n] <=> n \in after[m]
       /\ \A k, m, n \in D : k \in before[m] /\ m \in before[n] => k \in before[n]
       /\ before \in [D -> SUBSET D] /\ after \in [D -> SUBSET D]
  BY DEF Ordered
<1> HIDE DEF a, L2, R2, U2, B2, inner, right
<1>12. below[f] = {f} \cup below[a] \cup right /\ below[a] = {a} \cup Of(below, L[a]) \cup inner
  BY <1>1, <1>3, <1>7, <1>10 DEF Of
<1>13. below[a] \subseteq before[f] /\ inner \subseteq after[a] /\ right \subseteq after[f]
  BY <1>1, <1>3, <1>7, <1>10 DEF Of
<1>14. \A n \in D : n \in below[n]
  BY <1>7
<1>15. f \notin inner /\ a \notin inner /\ f \notin right /\ a \notin right /\ f \notin below[a]
  BY <1>1, <1>11, <1>12, <1>13, <1>14
<1>16. right \subseteq after[a] /\ f \in after[a]
  <2>1. a \in before[f] /\ f \in after[a]
    BY <1>1, <1>11, <1>13, <1>14
  <2>2. ASSUME NEW m \in right PROVE m \in after[a]
    <3>1. m \in D /\ f \in before[m]
      BY <1>8, <1>10, <1>11, <1>13
    <3> QED BY <1>1, <1>11, <2>1, <3>1
  <2> QED BY <2>1, <2>2
<1>17. inner \subseteq before[f]
  BY <1>12, <1>13
<1>18. \A n \in D : n # f /\ n # a => /\ Of(B2, L2[n]) = Of(below, L[n])
                                      /\ Of(B2, R2[n]) = Of(below, R[n])
  <2> TAKE n \in D
  <2> HAVE n # f /\ n # a
  <2>1. L[n] # a /\ R[n] # a
    BY <1>1
  <2>2. Of(B2, L2[n]) = Of(below, L[n])
    <3>1. CASE L[n] = f
      <4>1. L2[n] = a
        BY <1>1, <1>4, <3>1
      <4> QED BY <1>1, <1>3, <1>9, <3>1, <4>1 DEF Of
    <3>2. CASE L[n] # f
      <4>1. L2[n] = L[n]
        BY <1>1, <1>4, <3>2
      <4> QED BY <1>2, <1>9, <2>1, <3>2, <4>1 DEF Of
    <3> QED BY <3>1, <3>2
  <2>3. Of(B2, R2[n]) = Of(below, R[n])
    <3>1. CASE R[n] = f
      <4>1. R2[n] = a
        BY <1>1, <1>5, <3>1
      <4> QED BY <1>1, <1>3, <1>9, <3>1, <4>1 DEF Of
    <3>2. CASE R[n] # f
      <4>1. R2[n] = R[n]
        BY <1>1, <1>5, <3>2
      <4> QED BY <1>2, <1>9, <2>1, <3>2, <4>1 DEF Of
    <3> QED BY <3>1, <3>2
  <2> QED BY <2>2, <2>3
<1>19. Of(B2, L2[f]) = inner /\ Of(B2, R2[f]) = right
  <2>1. L2[f] = R[a] /\ R2[f] = R[f]
    BY <1>1, <1>4, <1>5
  <2> QED BY <1>1, <1>2, <1>9, <1>10, <2>1 DEF Of
<1>20. Of(B2, L2[a]) = Of(below, L[a]) /\ Of(B2, R2[a]) = B2[f]
  <2>1. L2[a] = L[a] /\ R2[a] = f
    BY <1>1, <1>4, <1>5
  <2> QED BY <1>1, <1>2, <1>3, <1>9, <2>1 DEF Of
<1>21. ASSUME NEW n \in D
       PROVE  /\ B2[n] = {n} \cup Of(B2, L2[n]) \cup Of(B2, R2[n])
              /\ Of(B2, L2[n]) \subseteq before[n]
              /\ Of(B2, R2[n]) \subseteq after[n]
  <2>1. CASE n = f
    BY <1>9, <1>13, <1>17, <1>19, <2>1
  <2>2. CASE n = a
    <3>1. Of(B2, L2[n]) \subseteq before[n]
      BY <1>1, <1>7, <1>20, <2>2
    <3>2. Of(B2, R2[n]) \subseteq after[n]
      BY <1>9, <1>13, <1>16, <1>20, <2>2
    <3>3. B2[n] = {n} \cup Of(B2, L2[n]) \cup Of(B2, R2[n])
      BY <1>9, <1>12, <1>20, <2>2
    <3> QED BY <3>1, <3>2, <3>3
  <2>3. CASE n # f /\ n # a
    BY <1>7, <1>9, <1>18, <2>3
  <2> QED BY <2>1, <2>2, <2>3
<1>22. B2[f] \subseteq below[f] /\ a \in below[f] /\ f \in below[f] /\ f \in D
  BY <1>1, <1>9, <1>12, <1>14
<1>23. ASSUME NEW n \in D, NEW m \in B2[n]
       PROVE  B2[m] \subseteq B2[n] /\ (m # n => U2[m] \in B2[n])
  <2>1. m \in D
    BY <1>9
  <2>2. R[a] # Null => R[a] \in D /\ U[R[a]] = a
    BY <1>1, <1>2 DEF Links
  <2>3. R[f] # Null => R[f] \in D /\ U[R[f]] = f
    BY <1>1, <1>2 DEF Links
  <2>4. CASE n = a
    <3>1. B2[n] = below[f] /\ m \in below[f]
      BY <1>9, <2>4
    <3>2. below[m] \subseteq below[f] /\ (m # f => U[m] \in below[f])
      BY <1>7, <3>1
    <3>3. B2[m] \subseteq below[f]
      BY <1>9, <1>22, <2>1, <3>2
    <3>4. m # a => U2[m] \in below[f]
      BY <1>6, <1>22, <2>1, <3>2
    <3> QED BY <2>4, <3>1, <3>3, <3>4
  <2>5. CASE n = f
    <3>1. CASE m = f
      BY <2>5, <3>1
    <3>2. CASE m \in inner
      <4>1. R[a] \in D /\ inner = below[R[a]] /\ m # f /\ m # a
        BY <1>1, <1>2, <1>10, <1>15, <3>2 DEF Of
      <4>2. below[m] \subseteq inner /\ (m # R[a] => U[m] \in inner)
        BY <1>7, <3>2, <4>1
      <4> QED BY <1>6, <1>9, <2>1, <2>5, <4>1, <4>2
    <3>3. CASE m \in right
      <4>1. R[f] \in D /\ right = below[R[f]] /\ m # f /\ m # a
        BY <1>1, <1>2, <1>10, <1>15, <3>3 DEF Of
      <4>2. below[m] \subseteq right /\ (m # R[f] => U[m] \in right)
        BY <1>7, <3>3, <4>1
      <4> QED BY <1>3, <1>6, <1>9, <2>1, <2>3, <2>5, <4>1, <4>2
    <3> QED BY <1>9, <2>5, <3>1, <3>2, <3>3
  <2>6. CASE n # a /\ n # f
    <3>1. B2[n] = below[n] /\ m \in below[n]
      BY <1>9, <2>6
    <3>2. \A k \in below[n] : below[k] \subseteq below[n] /\ (k # n => U[k] \in below[n])
      BY <1>7
    <3>3. a \in below[n] => f \in below[n]
      BY <1>1, <2>6, <3>2
    <3>4. f \in below[n] => below[f] \subseteq below[n] /\ U[f] \in below[n]
      BY <2>6, <3>2
    <3>5. B2[m] \subseteq below[n]
      BY <1>9, <1>22, <2>1, <3>1, <3>2, <3>3, <3>4
    <3>6. ASSUME m # n PROVE U2[m] \in below[n]
      <4>1. CASE m = R[a]
        BY <1>3, <1>6, <2>1, <2>2, <3>1, <3>2, <3>3, <3>6, <4>1
      <4>2. CASE m # R[a] /\ m = f
        BY <1>6, <1>22, <3>1, <3>4, <4>2
      <4>3. CASE m # R[a] /\ m # f /\ m = a
        BY <1>6, <2>1, <3>1, <3>3, <3>4, <4>3
      <4>4. CASE m # R[a] /\ m # f /\ m # a
        BY <1>6, <2>1, <3>1, <3>2, <3>6, <4>4
      <4> QED BY <4>1, <4>2, <4>3, <4>4
    <3> QED BY <3>1, <3>5, <3>6
  <2> QED BY <2>4, <2>5, <2>6
<1>24. Sorted(D, L2, R2, U2, B2, before, after)
  BY <1>9, <1>21, <1>23 DEF Sorted
<1> QED BY <1>24 DEF L2, R2, U2, B2

\* ... and no other root than the one above everything.
LEMMA TurnRoots ==
    ASSUME NEW D, NEW L, NEW R, NEW U, NEW below, NEW before, NEW after,
           Links(D, L, R, U), Ordered(D, before, after),
           Sorted(D, L, R, U, below, before, after), NEW f \in D, L[f] # Null,
           \A n \in D : U[n] = Null => below[n] = D
    PROVE  \A n \in D : TurnU(D, L, R, U, f)[n] = Null => TurnBelow(D, L, R, below, f)[n] = D
<1> TAKE n \in D
<1> HAVE TurnU(D, L, R, U, f)[n] = Null
<1>1. L[f] \in D /\ L[f] # f /\ Null \notin D
  BY TurnApart DEF Links
<1>2. /\ n # f /\ (n = L[f] => U[f] = Null)
      /\ n # L[f] => U[n] = Null
  BY <1>1 DEF TurnU
<1>3. below \in [D -> SUBSET D]
  BY DEF Sorted
<1>4. CASE n = L[f]
  <2>1. TurnBelow(D, L, R, below, f)[n] = below[f]
    BY <1>1, <1>3, <1>4 DEF TurnBelow
  <2> QED BY <1>2, <1>4, <2>1
<1>5. CASE n # L[f]
  <2>1. TurnBelow(D, L, R, below, f)[n] = below[n]
    BY <1>1, <1>2, <1>3, <1>5 DEF TurnBelow
  <2> QED BY <1>2, <1>5, <2>1
<1> QED BY <1>4, <1>5

\* No element is above and below another one.
LEMMA BelowOnce ==
    ASSUME NEW D, NEW L, NEW R, NEW U, NEW below, NEW before, NEW after,
           Links(D, L, R, U), Ordered(D, before, after),
           Sorted(D, L, R, U, below, before, after),
           NEW f \in D, NEW n \in D, f \in below[n], n \in below[f]
    PROVE  n = f
<1> SUFFICES ASSUME n # f PROVE FALSE
  OBVIOUS
<1>1. \/ L[f] # Null /\ n \in below[L[f]]
      \/ R[f] # Null /\ n \in below[R[f]]
  BY DEF Sorted, Of
<1>2. \A c \in D : n \in below[c] => f \in below[c]
  BY DEF Sorted
<1>3. L[f] \in D \cup {Null} /\ R[f] \in D \cup {Null}
  BY DEF Links
<1>4. f \notin before[f] /\ f \notin after[f]
  BY DEF Ordered
<1>5. /\ L[f] # Null => below[L[f]] \subseteq before[f]
      /\ R[f] # Null => below[R[f]] \subseteq after[f]
  BY DEF Sorted, Of
<1> QED BY <1>1, <1>2, <1>3, <1>4, <1>5

\* The father of an element is another one, and has it below.
LEMMA FatherApart ==
    ASSUME NEW D, NEW L, NEW R, NEW U, NEW below, NEW before, NEW after,
           Links(D, L, R, U), Ordered(D, before, after),
           Sorted(D, L, R, U, below, before, after), NEW c \in D, U[c] # Null
    PROVE  U[c] \in D /\ U[c] # c /\ below[c] \subseteq below[U[c]] /\ c \in below[c]
<1>1. U[c] \in D /\ (L[U[c]] = c \/ R[U[c]] = c) /\ Null \notin D
  BY DEF Links
<1>2. c \in below[c] /\ below[c] \subseteq below[U[c]]
  BY <1>1 DEF Sorted, Of
<1>3. \/ c \in before[U[c]]
      \/ c \in after[U[c]]
  BY <1>1, <1>2 DEF Sorted, Of
<1>4. U[c] # c
  BY <1>3 DEF Ordered
<1> QED BY <1>1, <1>2, <1>4

\* Far above a rotation nothing moves; the new root of it takes the place of the old one.
LEMMA TurnElsewhere ==
    ASSUME NEW D, NEW L, NEW R, NEW U, NEW below, NEW before, NEW after,
           Links(D, L, R, U), Ordered(D, before, after),
           Sorted(D, L, R, U, below, before, after), NEW f \in D, L[f] # Null
    PROVE  /\ TurnU(D, L, R, U, f)[L[f]] = U[f]
           /\ U[f] # Null => /\ TurnL(D, L, R, U, f)[U[f]] = L[f] <=> L[U[f]] = f
                             /\ TurnR(D, L, R, U, f)[U[f]] = L[f] <=> R[U[f]] = f
           /\ \A x \in D : f \in below[x] /\ x # f =>
                /\ TurnU(D, L, R, U, f)[x] = U[x]
                /\ U[x] # Null => /\ TurnL(D, L, R, U, f)[U[x]] = x <=> L[U[x]] = x
                                  /\ TurnR(D, L, R, U, f)[U[x]] = x <=> R[U[x]] = x
<1> DEFINE a == L[f]
           L2 == TurnL(D, L, R, U, f)
           R2 == TurnR(D, L, R, U, f)
           U2 == TurnU(D, L, R, U, f)
<1>1. /\ a \in D /\ a # f /\ R[a] # f /\ R[a] # a /\ R[f] # f /\ R[f] # a
      /\ L[a] # f /\ L[a] # a
      /\ U[f] # f /\ U[f] # a /\ (R[a] # Null => U[f] # R[a] /\ R[f] # R[a])
      /\ U[a] = f
      /\ \A n \in D : L[n] = f \/ R[n] = f => n = U[f]
      /\ \A n \in D : L[n] = a \/ R[n] = a => n = f
  BY TurnApart
<1>2. \A n \in D : L[n] \in D \cup {Null} /\ R[n] \in D \cup {Null} /\ U[n] \in D \cup {Null}
  BY DEF Links
<1>3. Null \notin D
  BY DEF Links
<1>4. \A n \in D : L2[n] = IF n = f THEN R[a] ELSE IF n = U[f] /\ L[n] = f THEN a ELSE L[n]
  BY DEF TurnL
<1>5. \A n \in D : R2[n] = IF n = a THEN f ELSE IF n = U[f] /\ R[n] = f THEN a ELSE R[n]
  BY DEF TurnR
<1>6. \A n \in D : U2[n] = IF n = R[a] THEN f ELSE IF n = f THEN a ELSE IF n = a THEN U[f] ELSE U[n]
  BY DEF TurnU
<1>7. below[a] \subseteq below[f] /\ (R[a] # Null => R[a] \in below[a]) /\ a \in below[a]
  <2>1. a \in below[a] /\ below[a] \subseteq below[f]
    BY <1>1, <1>3 DEF Sorted, Of
  <2>2. R[a] # Null => R[a] \in below[R[a]] /\ below[R[a]] \subseteq below[a]
    BY <1>1, <1>2 DEF Sorted, Of
  <2> QED BY <2>1, <2>2
<1>8. ASSUME NEW x \in D, f \in below[x], x # f
      PROVE  /\ x # a /\ x # R[a]
             /\ U[x] # Null => U[x] # f /\ U[x] # a
  <2>1. x \notin below[f]
    BY <1>8, BelowOnce
  <2>2. ASSUME U[x] # Null PROVE U[x] # f /\ U[x] # a
    <3>1. x \in below[U[x]]
      BY <2>2, FatherApart
    <3> QED BY <1>7, <2>1, <3>1
  <2> QED BY <1>3, <1>7, <2>1, <2>2
<1> HIDE DEF a, L2, R2, U2
<1>9. U2[a] = U[f]
  BY <1>1, <1>6
<1>10. U[f] # Null => (L2[U[f]] = a <=> L[U[f]] = f) /\ (R2[U[f]] = a <=> R[U[f]] = f)
  <2>1. U[f] # Null => U[f] \in D
    BY <1>2
  <2> QED BY <1>1, <1>4, <1>5, <2>1
<1>11. ASSUME NEW x \in D, f \in below[x], x # f
       PROVE  /\ U2[x] = U[x]
              /\ U[x] # Null => (L2[U[x]] = x <=> L[U[x]] = x) /\ (R2[U[x]] = x <=> R[U[x]] = x)
  <2>1. /\ x # a /\ x # R[a]
        /\ U[x] # Null => U[x] # f /\ U[x] # a /\ U[x] \in D
    BY <1>2, <1>8, <1>11
  <2> QED BY <1>4, <1>5, <1>6, <1>11, <2>1
<1>12. /\ U2[a] = U[f]
       /\ U[f] # Null => (L2[U[f]] = a <=> L[U[f]] = f) /\ (R2[U[f]] = a <=> R[U[f]] = f)
       /\ \A x \in D : f \in below[x] /\ x # f =>
            /\ U2[x] = U[x]
            /\ U[x] # Null => (L2[U[x]] = x <=> L[U[x]] = x) /\ (R2[U[x]] = x <=> R[U[x]] = x)
  BY <1>9, <1>10, <1>11
<1> QED BY <1>12 DEF a, L2, R2, U2

(***************************************************************************)
(* Depths.                                                                 *)
(***************************************************************************)
\* The two depths that are corrected are those of the tree that the rotation makes.
LEMMA CorrectDeep ==
    ASSUME NEW D, NEW L, NEW R, NEW U, NEW below, NEW before, NEW after, NEW LD, NEW RD,
           Links(D, L, R, U), Ordered(D, before, after),
           Sorted(D, L, R, U, below, before, after), NEW f \in D, L[f] # Null,
           Deep(D, L, R, LD, RD, Null)
    PROVE  Deep(D, TurnL(D, L, R, U, f), TurnR(D, L, R, U, f),
                [LD EXCEPT ![f] = RD[L[f]]],
                [RD EXCEPT ![L[f]] = 1 + Larger(RD[L[f]], RD[f])], L[f])
<1> DEFINE a == L[f]
           L2 == TurnL(D, L, R, U, f)
           R2 == TurnR(D, L, R, U, f)
           LD2 == [LD EXCEPT ![f] = RD[a]]
           RD2 == [RD EXCEPT ![a] = 1 + Larger(RD[a], RD[f])]
<1>1. /\ a \in D /\ a # f /\ R[a] # f /\ R[a] # a /\ R[f] # f /\ R[f] # a
      /\ L[a] # f /\ L[a] # a /\ U[f] # f /\ U[f] # a
      /\ \A n \in D : L[n] = f \/ R[n] = f => n = U[f]
      /\ \A n \in D : L[n] = a \/ R[n] = a => n = f
  BY TurnApart
<1>2. \A n \in D : L[n] \in D \cup {Null} /\ R[n] \in D \cup {Null}
  BY DEF Links
<1>3. Null \notin D
  BY DEF Links
<1>4. \A n \in D : L2[n] = IF n = f THEN R[a] ELSE IF n = U[f] /\ L[n] = f THEN a ELSE L[n]
  BY DEF TurnL
<1>5. \A n \in D : R2[n] = IF n = a THEN f ELSE IF n = U[f] /\ R[n] = f THEN a ELSE R[n]
  BY DEF TurnR
<1>6. LD \in [D -> Nat] /\ RD \in [D -> Nat] /\ 1 + Larger(RD[a], RD[f]) \in Nat
  BY <1>1 DEF Deep, Larger
<1>7. /\ LD2 \in [D -> Nat] /\ RD2 \in [D -> Nat]
      /\ LD2[f] = RD[a] /\ RD2[a] = 1 + Larger(RD[a], RD[f]) /\ LD2[a] = LD[a] /\ RD2[f] = RD[f]
      /\ \A n \in D : n # f /\ n # a => LD2[n] = LD[n] /\ RD2[n] = RD[n]
  BY <1>1, <1>6
<1>8. \A n \in D : LD[n] = DepthOf(LD, RD, L[n]) /\ RD[n] = DepthOf(LD, RD, R[n])
  BY DEF Deep
<1> HIDE DEF a, L2, R2, LD2, RD2
<1>9. \A c \in D \cup {Null} : c # f /\ c # a => DepthOf(LD2, RD2, c) = DepthOf(LD, RD, c)
  BY <1>7 DEF DepthOf
<1>10. DepthOf(LD2, RD2, f) = RD2[a]
  BY <1>3, <1>7 DEF DepthOf
<1>11. ASSUME NEW n \in D
       PROVE  /\ L2[n] = Null \/ L2[n] # a => LD2[n] = DepthOf(LD2, RD2, L2[n])
              /\ R2[n] = Null \/ R2[n] # a => RD2[n] = DepthOf(LD2, RD2, R2[n])
  <2>1. CASE n = f
    <3>1. L2[n] = R[a] /\ R2[n] = R[f]
      BY <1>1, <1>4, <1>5, <2>1
    <3> QED BY <1>1, <1>2, <1>7, <1>8, <1>9, <2>1, <3>1
  <2>2. CASE n = a
    <3>1. L2[n] = L[a] /\ R2[n] = f
      BY <1>1, <1>4, <1>5, <2>2
    <3> QED BY <1>1, <1>2, <1>7, <1>8, <1>9, <1>10, <2>2, <3>1
  <2>3. CASE n # f /\ n # a
    <3>1. L2[n] = a \/ (L2[n] = L[n] /\ L[n] # f /\ L[n] # a)
      BY <1>1, <1>4, <2>3
    <3>2. R2[n] = a \/ (R2[n] = R[n] /\ R[n] # f /\ R[n] # a)
      BY <1>1, <1>5, <2>3
    <3> QED BY <1>1, <1>2, <1>3, <1>7, <1>8, <1>9, <2>3, <3>1, <3>2
  <2> QED BY <2>1, <2>2, <2>3
<1>12. Deep(D, L2, R2, LD2, RD2, a)
  BY <1>7, <1>11 DEF Deep
<1> QED BY <1>12 DEF a, L2, R2, LD2, RD2

\* Above an element without father there is no depth to be put right.
LEMMA DeepRoot ==
    ASSUME NEW D, NEW L, NEW R, NEW U, NEW LD, NEW RD, Links(D, L, R, U), NEW x \in D,
           Deep(D, L, R, LD, RD, x), U[x] = Null
    PROVE  Deep(D, L, R, LD, RD, Null)
<1>1. \A n \in D : (L[n] # Null => L[n] # x) /\ (R[n] # Null => R[n] # x)
  BY DEF Links
<1> QED BY <1>1 DEF Deep

\* One turn of the loop that puts the depths right, for a left child x.
LEMMA LiftDeep ==
    ASSUME NEW D, NEW L, NEW R, NEW U, NEW LD, NEW RD, Links(D, L, R, U), NEW x \in D,
           Deep(D, L, R, LD, RD, x), U[x] # Null, U[x] # x, L[U[x]] = x
    PROVE  /\ Deep(D, L, R, [LD EXCEPT ![U[x]] = DepthOf(LD, RD, x)], RD, U[x])
           /\ LD[U[x]] = DepthOf(LD, RD, x) \/ U[U[x]] = Null =>
                 Deep(D, L, R, [LD EXCEPT ![U[x]] = DepthOf(LD, RD, x)], RD, Null)
<1> DEFINE p == U[x]
           d == DepthOf(LD, RD, x)
           LD2 == [LD EXCEPT ![p] = d]
<1>1. /\ p \in D /\ x # Null /\ p # Null /\ x # p /\ L[p] = x
      /\ \A n \in D : L[n] = x => n = p
      /\ \A n \in D : R[n] # x
      /\ \A n \in D : L[n] \in D \cup {Null} /\ R[n] \in D \cup {Null}
  BY DEF Links
<1>2. LD \in [D -> Nat] /\ RD \in [D -> Nat] /\ d \in Nat
  BY <1>1 DEF Deep, Larger, DepthOf
<1>3. LD2 \in [D -> Nat] /\ LD2[p] = d /\ \A n \in D : n # p => LD2[n] = LD[n]
  BY <1>1, <1>2
<1>4. \A n \in D : /\ L[n] # x => LD[n] = DepthOf(LD, RD, L[n])
                   /\ RD[n] = DepthOf(LD, RD, R[n])
  BY <1>1 DEF Deep
<1>5. U[p] = Null /\ Deep(D, L, R, LD2, RD, p) => Deep(D, L, R, LD2, RD, Null)
  BY <1>1, DeepRoot
<1>6. d = DepthOf(LD, RD, x)
  OBVIOUS
<1>7. LD[p] = d => LD2 = LD
  BY <1>2
<1> HIDE DEF p, d, LD2
<1>8. \A c \in D \cup {Null} : c # p \/ c = Null => DepthOf(LD2, RD, c) = DepthOf(LD, RD, c)
  BY <1>3 DEF DepthOf
<1>9. Deep(D, L, R, LD2, RD, p)
  <2>1. ASSUME NEW n \in D
        PROVE  /\ L[n] = Null \/ L[n] # p => LD2[n] = DepthOf(LD2, RD, L[n])
               /\ R[n] = Null \/ R[n] # p => RD[n] = DepthOf(LD2, RD, R[n])
    <3>1. CASE n = p
      BY <1>1, <1>3, <1>4, <1>6, <1>8, <3>1
    <3>2. CASE n # p
      BY <1>1, <1>3, <1>4, <1>8, <3>2
    <3> QED BY <3>1, <3>2
  <2> QED BY <1>2, <1>3, <2>1 DEF Deep
<1>10. ASSUME LD[p] = d PROVE Deep(D, L, R, LD2, RD, Null)
  <2>1. LD2 = LD
    BY <1>7, <1>10
  <2>2. \A n \in D : LD[n] = DepthOf(LD, RD, L[n]) /\ RD[n] = DepthOf(LD, RD, R[n])
    BY <1>1, <1>4, <1>6, <1>10
  <2> QED BY <1>2, <2>1, <2>2 DEF Deep
<1>11. Deep(D, L, R, LD2, RD, p) /\ (LD[p] = d \/ U[p] = Null => Deep(D, L, R, LD2, RD, Null))
  BY <1>5, <1>9, <1>10
<1> QED BY <1>11 DEF p, d, LD2

(***************************************************************************)
(* A new element v at the empty left side of f.                            *)
(***************************************************************************)
PutL(D, L, f, v) == [n \in D \cup {v} |-> IF n = v THEN Null ELSE IF n = f THEN v ELSE L[n]]
PutR(D, R, v)    == [n \in D \cup {v} |-> IF n = v THEN Null ELSE R[n]]
PutU(D, U, f, v) == [n \in D \cup {v} |-> IF n = v THEN f ELSE U[n]]
PutDepth(D, LD, v) == [n \in D \cup {v} |-> IF n = v THEN 0 ELSE LD[n]]
PutBelow(D, below, f, v) ==
    [n \in D \cup {v} |-> IF n = v THEN {v} ELSE IF f \in below[n] THEN below[n] \cup {v} ELSE below[n]]

\* The new element belongs below f: what has f on its left is in high, what has f on
\* its right is in low.
Path(D, L, R, below, low, high, f) ==
    \A n \in D : /\ f \in Of(below, L[n]) => n \in high
                 /\ f \in Of(below, R[n]) => n \in low

\* A path has a mirror image.
LEMMA PathMirror ==
    ASSUME NEW D, NEW L, NEW R, NEW below, NEW low, NEW high, NEW f,
           Path(D, L, R, below, low, high, f)
    PROVE  Path(D, R, L, below, high, low, f)
BY DEF Path

\* The search may start at the root.
LEMMA PathRoot ==
    ASSUME NEW D, NEW L, NEW R, NEW U, NEW below, NEW before, NEW after, NEW low, NEW high,
           Links(D, L, R, U), Sorted(D, L, R, U, below, before, after), NEW f \in D, U[f] = Null
    PROVE  Path(D, L, R, below, low, high, f)
<1>1. ASSUME NEW n \in D, NEW c \in {L[n], R[n]}, f \in Of(below, c) PROVE FALSE
  <2>1. c \in D /\ f \in below[c] /\ U[c] = n /\ Null \notin D
    BY <1>1 DEF Links, Of
  <2>2. f # c
    BY <2>1
  <2>3. U[f] \in below[c] /\ below[c] \subseteq D
    BY <2>1, <2>2 DEF Sorted
  <2> QED BY <2>1, <2>3
<1> QED BY <1>1 DEF Path

\* It goes on in the left subtree of f if f is in high.
LEMMA PathDown ==
    ASSUME NEW D, NEW L, NEW R, NEW U, NEW below, NEW before, NEW after, NEW low, NEW high,
           Links(D, L, R, U), Ordered(D, before, after),
           Sorted(D, L, R, U, below, before, after), NEW f \in D, L[f] # Null, f \in high,
           Path(D, L, R, below, low, high, f)
    PROVE  Path(D, L, R, below, low, high, L[f])
<1> DEFINE c == L[f]
<1>1. c \in D /\ U[c] = f /\ Null \notin D
  BY DEF Links
<1>2. ASSUME NEW n \in D, n # f, NEW e \in {L[n], R[n]}, c \in Of(below, e)
      PROVE  f \in Of(below, e)
  <2>1. e \in D /\ c \in below[e] /\ U[e] = n
    BY <1>1, <1>2 DEF Links, Of
  <2>2. e # c
    BY <1>1, <1>2, <2>1
  <2>3. f \in below[e]
    BY <1>1, <2>1, <2>2 DEF Sorted
  <2> QED BY <1>1, <2>1, <2>3 DEF Of
<1>3. c \notin Of(below, R[f])
  <2> SUFFICES ASSUME c \in Of(below, R[f]) PROVE FALSE
    OBVIOUS
  <2>1. c \in after[f]
    BY DEF Sorted
  <2>2. c \in before[f]
    BY <1>1 DEF Sorted, Of
  <2> QED BY <1>1, <2>1, <2>2 DEF Ordered
<1>4. c = L[f]
  OBVIOUS
<1> HIDE DEF c
<1>5. ASSUME NEW n \in D
      PROVE  (c \in Of(below, L[n]) => n \in high) /\ (c \in Of(below, R[n]) => n \in low)
  <2>1. CASE n = f
    BY <1>3, <2>1
  <2>2. CASE n # f
    BY <1>2, <2>2 DEF Path
  <2> QED BY <2>1, <2>2
<1> QED BY <1>4, <1>5 DEF Path

\* The tree with the new element is a tree.
LEMMA PutLinks ==
    ASSUME NEW D, NEW L, NEW R, NEW U, NEW f \in D, NEW v, v \notin D, v # Null,
           Links(D, L, R, U), L[f] = Null
    PROVE  Links(D \cup {v}, PutL(D, L, f, v), PutR(D, R, v), PutU(D, U, f, v))
<1> DEFINE E == D \cup {v}
           L2 == PutL(D, L, f, v)
           R2 == PutR(D, R, v)
           U2 == PutU(D, U, f, v)
<1>1. \A n \in D : L[n] \in D \cup {Null} /\ R[n] \in D \cup {Null} /\ U[n] \in D \cup {Null}
  BY DEF Links
<1>2. Null \notin D
  BY DEF Links
<1>3. \A n \in E : /\ L2[n] = IF n = v THEN Null ELSE IF n = f THEN v ELSE L[n]
                   /\ R2[n] = IF n = v THEN Null ELSE R[n]
                   /\ U2[n] = IF n = v THEN f ELSE U[n]
  BY DEF PutL, PutR, PutU
<1>4. L2 \in [E -> E \cup {Null}] /\ R2 \in [E -> E \cup {Null}] /\ U2 \in [E -> E \cup {Null}]
  BY <1>1 DEF PutL, PutR, PutU
<1>5. \A n \in D : /\ L[n] # Null => U[L[n]] = n
                   /\ R[n] # Null => U[R[n]] = n
                   /\ L[n] # Null => L[n] # R[n]
                   /\ U[n] # Null => L[U[n]] = n \/ R[U[n]] = n
  BY DEF Links
<1> HIDE DEF L2, R2, U2
<1>6. ASSUME NEW n \in E
      PROVE  /\ L2[n] # Null => U2[L2[n]] = n
             /\ R2[n] # Null => U2[R2[n]] = n
             /\ L2[n] # Null => L2[n] # R2[n]
             /\ U2[n] # Null => L2[U2[n]] = n \/ R2[U2[n]] = n
  <2>1. CASE n = v
    BY <1>3, <2>1
  <2>2. CASE n = f
    BY <1>1, <1>2, <1>3, <1>5, <2>2
  <2>3. CASE n # v /\ n # f
    BY <1>1, <1>2, <1>3, <1>5, <2>3
  <2> QED BY <2>1, <2>2, <2>3
<1>7. Links(E, L2, R2, U2)
  BY <1>2, <1>4, <1>6 DEF Links
<1> QED BY <1>7 DEF L2, R2, U2

\* ... in order, as v comes before f and belongs below it.
LEMMA PutSorted ==
    ASSUME NEW D, NEW L, NEW R, NEW U, NEW f \in D, NEW v, v \notin D, v # Null,
           NEW below, NEW before, NEW after, NEW before2, NEW after2,
           Links(D, L, R, U), Ordered(D, before, after),
           Sorted(D, L, R, U, below, before, after), L[f] = Null,
           \A n \in D : before[n] \subseteq before2[n] /\ after[n] \subseteq after2[n],
           Path(D, L, R, below, {n \in D : v \in after2[n]}, {n \in D : v \in before2[n]}, f),
           v \in before2[f]
    PROVE  Sorted(D \cup {v}, PutL(D, L, f, v), PutR(D, R, v), PutU(D, U, f, v),
                  PutBelow(D, below, f, v), before2, after2)
<1> DEFINE E == D \cup {v}
           L2 == PutL(D, L, f, v)
           R2 == PutR(D, R, v)
           U2 == PutU(D, U, f, v)
           B2 == PutBelow(D, below, f, v)
<1>1. \A n \in D : L[n] \in D \cup {Null} /\ R[n] \in D \cup {Null} /\ U[n] \in D \cup {Null}
  BY DEF Links
<1>2. Null \notin D
  BY DEF Links
<1>3. \A n \in E : /\ L2[n] = IF n = v THEN Null ELSE IF n = f THEN v ELSE L[n]
                   /\ R2[n] = IF n = v THEN Null ELSE R[n]
                   /\ U2[n] = IF n = v THEN f ELSE U[n]
                   /\ B2[n] = IF n = v THEN {v} ELSE IF f \in below[n] THEN below[n] \cup {v} ELSE below[n]
  BY DEF PutL, PutR, PutU, PutBelow
<1>4. /\ below \in [D -> SUBSET D]
      /\ \A n \in D : /\ below[n] = {n} \cup Of(below, L[n]) \cup Of(below, R[n])
                      /\ Of(below, L[n]) \subseteq before[n]
                      /\ Of(below, R[n]) \subseteq after[n]
                      /\ \A m \in below[n] : below[m] \subseteq below[n] /\ (m # n => U[m] \in below[n])
  BY DEF Sorted
<1>5. B2 \in [E -> SUBSET E]
  BY <1>4 DEF PutBelow
<1>6. \A n \in D : /\ f \in Of(below, L[n]) => v \in before2[n]
                   /\ f \in Of(below, R[n]) => v \in after2[n]
  BY DEF Path
<1> HIDE DEF L2, R2, U2, B2
<1>7. \A c \in D \cup {Null} : Of(B2, c) = IF f \in Of(below, c) THEN Of(below, c) \cup {v} ELSE Of(below, c)
  BY <1>2, <1>3 DEF Of
<1>8. f \notin Of(below, R[f]) /\ Of(below, L[f]) = {}
  BY <1>4 DEF Ordered, Of
<1>9. Of(B2, v) = {v}
  BY <1>3 DEF Of
<1>10. ASSUME NEW n \in E
       PROVE  /\ B2[n] = {n} \cup Of(B2, L2[n]) \cup Of(B2, R2[n])
              /\ Of(B2, L2[n]) \subseteq before2[n]
              /\ Of(B2, R2[n]) \subseteq after2[n]
              /\ \A m \in B2[n] : B2[m] \subseteq B2[n] /\ (m # n => U2[m] \in B2[n])
  <2>1. CASE n = v
    <3>1. L2[n] = Null /\ R2[n] = Null /\ B2[n] = {v}
      BY <1>3, <2>1
    <3>2. Of(B2, Null) = {}
      BY DEF Of
    <3> QED BY <2>1, <3>1, <3>2
  <2>2. CASE n \in D
    <3>1. n # v /\ R2[n] = R[n]
      BY <1>3, <2>2
    <3>2. /\ B2[n] = {n} \cup Of(B2, L2[n]) \cup Of(B2, R2[n])
          /\ Of(B2, L2[n]) \subseteq before2[n]
      <4>1. CASE n = f
        <5>1. L2[n] = v /\ Of(B2, R2[n]) = Of(below, R[n])
          BY <1>1, <1>3, <1>7, <1>8, <3>1, <4>1
        <5>2. f \in below[f] /\ B2[f] = below[f] \cup {v}
          BY <1>3, <1>4, ZenonT(60)
        <5> QED BY <1>4, <1>8, <1>9, <4>1, <5>1, <5>2
      <4>2. CASE n # f
        <5>1. L2[n] = L[n] /\ L[n] \in D \cup {Null} /\ R[n] \in D \cup {Null}
          BY <1>1, <1>3, <2>2, <3>1, <4>2
        <5>2. below[n] = {n} \cup Of(below, L[n]) \cup Of(below, R[n])
          BY <1>4, <2>2
        <5>3. Of(below, L[n]) \subseteq before2[n]
          BY <1>4, <2>2
        <5>4. B2[n] = IF f \in below[n] THEN below[n] \cup {v} ELSE below[n]
          BY <1>3, <3>1
        <5> QED BY <1>6, <1>7, <2>2, <3>1, <4>2, <5>1, <5>2, <5>3, <5>4
      <4> QED BY <4>1, <4>2
    <3>3. Of(B2, R2[n]) \subseteq after2[n]
      <4>1. R[n] \in D \cup {Null} /\ Of(below, R[n]) \subseteq after2[n]
        BY <1>1, <1>4, <2>2
      <4> QED BY <1>6, <1>7, <2>2, <3>1, <4>1
    <3>4. ASSUME NEW m \in B2[n]
          PROVE  B2[m] \subseteq B2[n] /\ (m # n => U2[m] \in B2[n])
      <4>1. B2[n] = IF f \in below[n] THEN below[n] \cup {v} ELSE below[n]
        BY <1>3, <3>1
      <4>2. CASE m = v
        <5>1. B2[m] = {v} /\ U2[m] = f /\ f \in below[n]
          BY <1>3, <1>4, <2>2, <4>1, <4>2
        <5> QED BY <4>1, <4>2, <5>1
      <4>3. CASE m # v
        <5>1. m \in below[n] /\ m \in D
          BY <1>4, <2>2, <4>1, <4>3
        <5>2. below[m] \subseteq below[n] /\ (m # n => U[m] \in below[n])
          BY <1>4, <2>2, <5>1
        <5>3. B2[m] = IF f \in below[m] THEN below[m] \cup {v} ELSE below[m]
          BY <1>3, <4>3, <5>1
        <5>4. U2[m] = U[m]
          BY <1>3, <4>3, <5>1
        <5> QED BY <4>1, <5>2, <5>3, <5>4
      <4> QED BY <4>2, <4>3
    <3> QED BY <3>2, <3>3, <3>4
  <2> QED BY <2>1, <2>2
<1>11. Sorted(E, L2, R2, U2, B2, before2, after2)
  BY <1>5, <1>10 DEF Sorted
<1> QED BY <1>11 DEF L2, R2, U2, B2

\* ... with the depths right, except that of v in f.
LEMMA PutDeep ==
    ASSUME NEW D, NEW L, NEW R, NEW U, NEW LD, NEW RD, NEW f \in D, NEW v, v \notin D, v # Null,
           Links(D, L, R, U), L[f] = Null, Deep(D, L, R, LD, RD, Null)
    PROVE  Deep(D \cup {v}, PutL(D, L, f, v), PutR(D, R, v),
                PutDepth(D, LD, v), PutDepth(D, RD, v), v)
<1> DEFINE E == D \cup {v}
           L2 == PutL(D, L, f, v)
           R2 == PutR(D, R, v)
           LD2 == PutDepth(D, LD, v)
           RD2 == PutDepth(D, RD, v)
<1>1. \A n \in D : L[n] \in D \cup {Null} /\ R[n] \in D \cup {Null}
  BY DEF Links
<1>2. Null \notin D
  BY DEF Links
<1>3. \A n \in E : /\ L2[n] = IF n = v THEN Null ELSE IF n = f THEN v ELSE L[n]
                   /\ R2[n] = IF n = v THEN Null ELSE R[n]
                   /\ LD2[n] = IF n = v THEN 0 ELSE LD[n]
                   /\ RD2[n] = IF n = v THEN 0 ELSE RD[n]
  BY DEF PutL, PutR, PutDepth
<1>4. /\ LD \in [D -> Nat] /\ RD \in [D -> Nat]
      /\ \A n \in D : LD[n] = DepthOf(LD, RD, L[n]) /\ RD[n] = DepthOf(LD, RD, R[n])
  BY DEF Deep
<1>5. LD2 \in [E -> Nat] /\ RD2 \in [E -> Nat]
  BY <1>4 DEF PutDepth
<1> HIDE DEF L2, R2, LD2, RD2
<1>6. \A c \in D \cup {Null} : DepthOf(LD2, RD2, c) = DepthOf(LD, RD, c)
  BY <1>3 DEF DepthOf
<1>7. DepthOf(LD2, RD2, Null) = 0
  BY DEF DepthOf
<1>8. ASSUME NEW n \in E
      PROVE  /\ L2[n] = Null \/ L2[n] # v => LD2[n] = DepthOf(LD2, RD2, L2[n])
             /\ R2[n] = Null \/ R2[n] # v => RD2[n] = DepthOf(LD2, RD2, R2[n])
  <2>1. CASE n = v
    BY <1>3, <1>7, <2>1
  <2>2. CASE n = f
    BY <1>1, <1>3, <1>4, <1>6, <2>2
  <2>3. CASE n # v /\ n # f
    BY <1>1, <1>3, <1>4, <1>6, <2>3
  <2> QED BY <2>1, <2>2, <2>3
<1>9. Deep(E, L2, R2, LD2, RD2, v)
  BY <1>5, <1>8 DEF Deep
<1> QED BY <1>9 DEF L2, R2, LD2, RD2

(***************************************************************************)
(* The tree of the elements nd.                                            *)
(***************************************************************************)
Elem == [up : Nat, left : Nat, left_depth : Nat, right : Nat, right_depth : Nat]

Lefts(nd)       == [n \in DOMAIN nd |-> nd[n].left]
Rights(nd)      == [n \in DOMAIN nd |-> nd[n].right]
Fathers(nd)     == [n \in DOMAIN nd |-> nd[n].up]
LeftDepths(nd)  == [n \in DOMAIN nd |-> nd[n].left_depth]
RightDepths(nd) == [n \in DOMAIN nd |-> nd[n].right_depth]

SameTree(nd, nd2) ==
    Lefts(nd2) = Lefts(nd) /\ Rights(nd2) = Rights(nd) /\ Fathers(nd2) = Fathers(nd)

\* A depth of p is set.
SetLeft(nd, p, d)  == [nd EXCEPT ![p]["left_depth"] = d]
SetRight(nd, p, d) == [nd EXCEPT ![p]["right_depth"] = d]

\* A left depth that is set moves nothing ...
LEMMA SetLeftDepth ==
    ASSUME NEW nd \in Seq(Elem), NEW p \in DOMAIN nd, NEW d \in Nat
    PROVE  /\ SetLeft(nd, p, d) \in Seq(Elem) /\ DOMAIN SetLeft(nd, p, d) = DOMAIN nd
           /\ Len(SetLeft(nd, p, d)) = Len(nd) /\ SameTree(nd, SetLeft(nd, p, d))
           /\ LeftDepths(SetLeft(nd, p, d)) = [LeftDepths(nd) EXCEPT ![p] = d]
           /\ RightDepths(SetLeft(nd, p, d)) = RightDepths(nd)
<1> DEFINE nd2 == SetLeft(nd, p, d)
<1>1. \A n \in DOMAIN nd : nd[n] \in Elem
  OBVIOUS
<1>2. [nd[p] EXCEPT !["left_depth"] = d] \in Elem
  BY <1>1 DEF Elem
<1>3. nd2 \in Seq(Elem) /\ DOMAIN nd2 = DOMAIN nd /\ Len(nd2) = Len(nd)
  BY <1>2 DEF SetLeft
<1>4. \A n \in DOMAIN nd : nd2[n] = IF n = p THEN [nd[p] EXCEPT !["left_depth"] = d] ELSE nd[n]
  BY DEF SetLeft
<1> HIDE DEF nd2
<1>5. \A n \in DOMAIN nd : /\ nd2[n].left = nd[n].left /\ nd2[n].right = nd[n].right /\ nd2[n].up = nd[n].up
                           /\ nd2[n].right_depth = nd[n].right_depth
                           /\ nd2[n].left_depth = IF n = p THEN d ELSE nd[n].left_depth
  BY <1>1, <1>4 DEF Elem
<1>6. /\ nd2 \in Seq(Elem) /\ DOMAIN nd2 = DOMAIN nd
      /\ Len(nd2) = Len(nd) /\ SameTree(nd, nd2)
      /\ LeftDepths(nd2) = [LeftDepths(nd) EXCEPT ![p] = d]
      /\ RightDepths(nd2) = RightDepths(nd)
  BY <1>3, <1>5 DEF SameTree, Lefts, Rights, Fathers, LeftDepths, RightDepths
<1> QED BY <1>6 DEF nd2

\* ... and neither does a right one.
LEMMA SetRightDepth ==
    ASSUME NEW nd \in Seq(Elem), NEW p \in DOMAIN nd, NEW d \in Nat
    PROVE  /\ SetRight(nd, p, d) \in Seq(Elem) /\ DOMAIN SetRight(nd, p, d) = DOMAIN nd
           /\ Len(SetRight(nd, p, d)) = Len(nd) /\ SameTree(nd, SetRight(nd, p, d))
           /\ RightDepths(SetRight(nd, p, d)) = [RightDepths(nd) EXCEPT ![p] = d]
           /\ LeftDepths(SetRight(nd, p, d)) = LeftDepths(nd)
<1> DEFINE nd2 == SetRight(nd, p, d)
<1>1. \A n \in DOMAIN nd : nd[n] \in Elem
  OBVIOUS
<1>2. [nd[p] EXCEPT !["right_depth"] = d] \in Elem
  BY <1>1 DEF Elem
<1>3. nd2 \in Seq(Elem) /\ DOMAIN nd2 = DOMAIN nd /\ Len(nd2) = Len(nd)
  BY <1>2 DEF SetRight
<1>4. \A n \in DOMAIN nd : nd2[n] = IF n = p THEN [nd[p] EXCEPT !["right_depth"] = d] ELSE nd[n]
  BY DEF SetRight
<1> HIDE DEF nd2
<1>5. \A n \in DOMAIN nd : /\ nd2[n].left = nd[n].left /\ nd2[n].right = nd[n].right /\ nd2[n].up = nd[n].up
                           /\ nd2[n].left_depth = nd[n].left_depth
                           /\ nd2[n].right_depth = IF n = p THEN d ELSE nd[n].right_depth
  BY <1>1, <1>4 DEF Elem
<1>6. /\ nd2 \in Seq(Elem) /\ DOMAIN nd2 = DOMAIN nd
      /\ Len(nd2) = Len(nd) /\ SameTree(nd, nd2)
      /\ RightDepths(nd2) = [RightDepths(nd) EXCEPT ![p] = d]
      /\ LeftDepths(nd2) = LeftDepths(nd)
  BY <1>3, <1>5 DEF SameTree, Lefts, Rights, Fathers, LeftDepths, RightDepths
<1> QED BY <1>6 DEF nd2

\* A new element v is hung below f.
HangLeft(nd, f, v)  == Append([nd EXCEPT ![f]["left"] = v], Element(f))
HangRight(nd, f, v) == Append([nd EXCEPT ![f]["right"] = v], Element(f))

\* The elements with a new one hung on the left of f ...
LEMMA AttachLeft ==
    ASSUME NEW nd \in Seq(Elem), NEW f \in DOMAIN nd, NEW v, v = Len(nd) + 1
    PROVE  /\ HangLeft(nd, f, v) \in Seq(Elem) /\ DOMAIN HangLeft(nd, f, v) = DOMAIN nd \cup {v}
           /\ Len(HangLeft(nd, f, v)) = Len(nd) + 1
           /\ v \notin DOMAIN nd /\ v \in Nat /\ v # Null
           /\ Lefts(HangLeft(nd, f, v)) = PutL(DOMAIN nd, Lefts(nd), f, v)
           /\ Rights(HangLeft(nd, f, v)) = PutR(DOMAIN nd, Rights(nd), v)
           /\ Fathers(HangLeft(nd, f, v)) = PutU(DOMAIN nd, Fathers(nd), f, v)
           /\ LeftDepths(HangLeft(nd, f, v)) = PutDepth(DOMAIN nd, LeftDepths(nd), v)
           /\ RightDepths(HangLeft(nd, f, v)) = PutDepth(DOMAIN nd, RightDepths(nd), v)
<1> DEFINE h == [nd EXCEPT ![f]["left"] = v]
           nd2 == HangLeft(nd, f, v)
<1>1. DOMAIN nd = 1..Len(nd) /\ Len(nd) \in Nat /\ \A n \in DOMAIN nd : nd[n] \in Elem
  OBVIOUS
<1>2. f \in Nat /\ v \in Nat /\ v # Null /\ v \notin DOMAIN nd
  BY <1>1 DEF Null
<1>3. [nd[f] EXCEPT !["left"] = v] \in Elem
  BY <1>1, <1>2 DEF Elem
<1>4. h \in Seq(Elem) /\ DOMAIN h = DOMAIN nd /\ Len(h) = Len(nd)
  BY <1>3
<1>5. \A n \in DOMAIN nd : h[n] = IF n = f THEN [nd[f] EXCEPT !["left"] = v] ELSE nd[n]
  OBVIOUS
<1>6. Element(f) \in Elem /\ nd2 = Append(h, Element(f))
  BY <1>2 DEF Elem, Element, Null, HangLeft
<1> HIDE DEF h, nd2
<1>7. /\ nd2 \in Seq(Elem) /\ Len(nd2) = Len(nd) + 1
      /\ \A n \in 1..Len(nd) : nd2[n] = h[n]
      /\ nd2[Len(nd) + 1] = Element(f)
  BY <1>1, <1>4, <1>6, AppendProperties
<1>8. DOMAIN nd2 = DOMAIN nd \cup {v}
  BY <1>1, <1>7
<1>9. \A n \in DOMAIN nd \cup {v} :
          /\ nd2[n].left = IF n = v THEN Null ELSE IF n = f THEN v ELSE nd[n].left
          /\ nd2[n].right = IF n = v THEN Null ELSE nd[n].right
          /\ nd2[n].up = IF n = v THEN f ELSE nd[n].up
          /\ nd2[n].left_depth  = IF n = v THEN 0 ELSE nd[n].left_depth
          /\ nd2[n].right_depth = IF n = v THEN 0 ELSE nd[n].right_depth
  <2> TAKE n \in DOMAIN nd \cup {v}
  <2>1. CASE n = v
    <3>1. nd2[n] = Element(f)
      BY <1>7, <2>1
    <3> QED BY <2>1, <3>1 DEF Element
  <2>2. CASE n # v
    <3>1. n \in DOMAIN nd /\ nd[n] \in Elem
      BY <1>1, <2>2
    <3>2. nd2[n] = h[n]
      BY <1>1, <1>7, <3>1
    <3>3. CASE n = f
      BY <1>5, <2>2, <3>1, <3>2, <3>3 DEF Elem
    <3>4. CASE n # f
      BY <1>5, <2>2, <3>1, <3>2, <3>4 DEF Elem
    <3> QED BY <3>3, <3>4
  <2> QED BY <2>1, <2>2
<1>10. /\ nd2 \in Seq(Elem) /\ DOMAIN nd2 = DOMAIN nd \cup {v}
       /\ Len(nd2) = Len(nd) + 1
       /\ v \notin DOMAIN nd /\ v \in Nat /\ v # Null
       /\ Lefts(nd2) = PutL(DOMAIN nd, Lefts(nd), f, v)
       /\ Rights(nd2) = PutR(DOMAIN nd, Rights(nd), v)
       /\ Fathers(nd2) = PutU(DOMAIN nd, Fathers(nd), f, v)
       /\ LeftDepths(nd2) = PutDepth(DOMAIN nd, LeftDepths(nd), v)
       /\ RightDepths(nd2) = PutDepth(DOMAIN nd, RightDepths(nd), v)
  BY <1>2, <1>7, <1>8, <1>9
     DEF Lefts, Rights, Fathers, LeftDepths, RightDepths, PutL, PutR, PutU, PutDepth
<1> QED BY <1>10 DEF nd2

\* ... and on its right.
LEMMA AttachRight ==
    ASSUME NEW nd \in Seq(Elem), NEW f \in DOMAIN nd, NEW v, v = Len(nd) + 1
    PROVE  /\ HangRight(nd, f, v) \in Seq(Elem) /\ DOMAIN HangRight(nd, f, v) = DOMAIN nd \cup {v}
           /\ Len(HangRight(nd, f, v)) = Len(nd) + 1
           /\ v \notin DOMAIN nd /\ v \in Nat /\ v # Null
           /\ Rights(HangRight(nd, f, v)) = PutL(DOMAIN nd, Rights(nd), f, v)
           /\ Lefts(HangRight(nd, f, v)) = PutR(DOMAIN nd, Lefts(nd), v)
           /\ Fathers(HangRight(nd, f, v)) = PutU(DOMAIN nd, Fathers(nd), f, v)
           /\ LeftDepths(HangRight(nd, f, v)) = PutDepth(DOMAIN nd, LeftDepths(nd), v)
           /\ RightDepths(HangRight(nd, f, v)) = PutDepth(DOMAIN nd, RightDepths(nd), v)
<1> DEFINE h == [nd EXCEPT ![f]["right"] = v]
           nd2 == HangRight(nd, f, v)
<1>1. DOMAIN nd = 1..Len(nd) /\ Len(nd) \in Nat /\ \A n \in DOMAIN nd : nd[n] \in Elem
  OBVIOUS
<1>2. f \in Nat /\ v \in Nat /\ v # Null /\ v \notin DOMAIN nd
  BY <1>1 DEF Null
<1>3. [nd[f] EXCEPT !["right"] = v] \in Elem
  BY <1>1, <1>2 DEF Elem
<1>4. h \in Seq(Elem) /\ DOMAIN h = DOMAIN nd /\ Len(h) = Len(nd)
  BY <1>3
<1>5. \A n \in DOMAIN nd : h[n] = IF n = f THEN [nd[f] EXCEPT !["right"] = v] ELSE nd[n]
  OBVIOUS
<1>6. Element(f) \in Elem /\ nd2 = Append(h, Element(f))
  BY <1>2 DEF Elem, Element, Null, HangRight
<1> HIDE DEF h, nd2
<1>7. /\ nd2 \in Seq(Elem) /\ Len(nd2) = Len(nd) + 1
      /\ \A n \in 1..Len(nd) : nd2[n] = h[n]
      /\ nd2[Len(nd) + 1] = Element(f)
  BY <1>1, <1>4, <1>6, AppendProperties
<1>8. DOMAIN nd2 = DOMAIN nd \cup {v}
  BY <1>1, <1>7
<1>9. \A n \in DOMAIN nd \cup {v} :
          /\ nd2[n].right = IF n = v THEN Null ELSE IF n = f THEN v ELSE nd[n].right
          /\ nd2[n].left = IF n = v THEN Null ELSE nd[n].left
          /\ nd2[n].up = IF n = v THEN f ELSE nd[n].up
          /\ nd2[n].left_depth  = IF n = v THEN 0 ELSE nd[n].left_depth
          /\ nd2[n].right_depth = IF n = v THEN 0 ELSE nd[n].right_depth
  <2> TAKE n \in DOMAIN nd \cup {v}
  <2>1. CASE n = v
    <3>1. nd2[n] = Element(f)
      BY <1>7, <2>1
    <3> QED BY <2>1, <3>1 DEF Element
  <2>2. CASE n # v
    <3>1. n \in DOMAIN nd /\ nd[n] \in Elem
      BY <1>1, <2>2
    <3>2. nd2[n] = h[n]
      BY <1>1, <1>7, <3>1
    <3>3. CASE n = f
      BY <1>5, <2>2, <3>1, <3>2, <3>3 DEF Elem
    <3>4. CASE n # f
      BY <1>5, <2>2, <3>1, <3>2, <3>4 DEF Elem
    <3> QED BY <3>3, <3>4
  <2> QED BY <2>1, <2>2
<1>10. /\ nd2 \in Seq(Elem) /\ DOMAIN nd2 = DOMAIN nd \cup {v}
       /\ Len(nd2) = Len(nd) + 1
       /\ v \notin DOMAIN nd /\ v \in Nat /\ v # Null
       /\ Rights(nd2) = PutL(DOMAIN nd, Rights(nd), f, v)
       /\ Lefts(nd2) = PutR(DOMAIN nd, Lefts(nd), v)
       /\ Fathers(nd2) = PutU(DOMAIN nd, Fathers(nd), f, v)
       /\ LeftDepths(nd2) = PutDepth(DOMAIN nd, LeftDepths(nd), v)
       /\ RightDepths(nd2) = PutDepth(DOMAIN nd, RightDepths(nd), v)
  BY <1>2, <1>7, <1>8, <1>9
     DEF Lefts, Rights, Fathers, LeftDepths, RightDepths, PutL, PutR, PutU, PutDepth
<1> QED BY <1>10 DEF nd2

\* A depth of f and one of its child a are corrected.
LEMMA CorrectLeft ==
    ASSUME NEW nd \in Seq(Elem), NEW f \in DOMAIN nd, NEW a \in DOMAIN nd, NEW d \in Nat, NEW e \in Nat,
           NEW nd2, nd2 = SetRight(SetLeft(nd, f, d), a, e)
    PROVE  /\ nd2 \in Seq(Elem) /\ DOMAIN nd2 = DOMAIN nd /\ Len(nd2) = Len(nd) /\ SameTree(nd, nd2)
           /\ LeftDepths(nd2) = [LeftDepths(nd) EXCEPT ![f] = d]
           /\ RightDepths(nd2) = [RightDepths(nd) EXCEPT ![a] = e]
<1> DEFINE h == SetLeft(nd, f, d)
<1>1. /\ h \in Seq(Elem) /\ DOMAIN h = DOMAIN nd /\ Len(h) = Len(nd) /\ SameTree(nd, h)
      /\ LeftDepths(h) = [LeftDepths(nd) EXCEPT ![f] = d] /\ RightDepths(h) = RightDepths(nd)
  BY SetLeftDepth
<1>2. nd2 = SetRight(h, a, e)
  OBVIOUS
<1> HIDE DEF h
<1>3. a \in DOMAIN h
  BY <1>1
<1>4. /\ nd2 \in Seq(Elem) /\ DOMAIN nd2 = DOMAIN h /\ Len(nd2) = Len(h) /\ SameTree(h, nd2)
      /\ RightDepths(nd2) = [RightDepths(h) EXCEPT ![a] = e] /\ LeftDepths(nd2) = LeftDepths(h)
  <2>1. /\ SetRight(h, a, e) \in Seq(Elem) /\ DOMAIN SetRight(h, a, e) = DOMAIN h
        /\ Len(SetRight(h, a, e)) = Len(h) /\ SameTree(h, SetRight(h, a, e))
        /\ RightDepths(SetRight(h, a, e)) = [RightDepths(h) EXCEPT ![a] = e]
        /\ LeftDepths(SetRight(h, a, e)) = LeftDepths(h)
    BY <1>1, <1>3, SetRightDepth
  <2> QED BY <1>2, <2>1
<1> QED BY <1>1, <1>4 DEF SameTree

\* The same, with the sides changed.
LEMMA CorrectRight ==
    ASSUME NEW nd \in Seq(Elem), NEW f \in DOMAIN nd, NEW a \in DOMAIN nd, NEW d \in Nat, NEW e \in Nat,
           NEW nd2, nd2 = SetLeft(SetRight(nd, f, d), a, e)
    PROVE  /\ nd2 \in Seq(Elem) /\ DOMAIN nd2 = DOMAIN nd /\ Len(nd2) = Len(nd) /\ SameTree(nd, nd2)
           /\ RightDepths(nd2) = [RightDepths(nd) EXCEPT ![f] = d]
           /\ LeftDepths(nd2) = [LeftDepths(nd) EXCEPT ![a] = e]
<1> DEFINE h == SetRight(nd, f, d)
<1>1. /\ h \in Seq(Elem) /\ DOMAIN h = DOMAIN nd /\ Len(h) = Len(nd) /\ SameTree(nd, h)
      /\ RightDepths(h) = [RightDepths(nd) EXCEPT ![f] = d] /\ LeftDepths(h) = LeftDepths(nd)
  BY SetRightDepth
<1>2. nd2 = SetLeft(h, a, e)
  OBVIOUS
<1> HIDE DEF h
<1>3. a \in DOMAIN h
  BY <1>1
<1>4. /\ nd2 \in Seq(Elem) /\ DOMAIN nd2 = DOMAIN h /\ Len(nd2) = Len(h) /\ SameTree(h, nd2)
      /\ LeftDepths(nd2) = [LeftDepths(h) EXCEPT ![a] = e] /\ RightDepths(nd2) = RightDepths(h)
  <2>1. /\ SetLeft(h, a, e) \in Seq(Elem) /\ DOMAIN SetLeft(h, a, e) = DOMAIN h
        /\ Len(SetLeft(h, a, e)) = Len(h) /\ SameTree(h, SetLeft(h, a, e))
        /\ LeftDepths(SetLeft(h, a, e)) = [LeftDepths(h) EXCEPT ![a] = e]
        /\ RightDepths(SetLeft(h, a, e)) = RightDepths(h)
    BY <1>1, <1>3, SetLeftDepth
  <2> QED BY <1>2, <2>1
<1> QED BY <1>1, <1>4 DEF SameTree

\* The pointers of a rotation.
LEMMA TurnedLeft ==
    ASSUME node \in Seq(Elem), NEW below, NEW before, NEW after,
           Links(DOMAIN node, Lefts(node), Rights(node), Fathers(node)),
           Ordered(DOMAIN node, before, after),
           Sorted(DOMAIN node, Lefts(node), Rights(node), Fathers(node), below, before, after),
           father \in DOMAIN node, node[father].left # Null
    PROVE  LET nd2 == Turned(node[father].left, "left", "right")
           IN  /\ nd2 \in Seq(Elem) /\ DOMAIN nd2 = DOMAIN node /\ Len(nd2) = Len(node)
               /\ Lefts(nd2) = TurnL(DOMAIN node, Lefts(node), Rights(node), Fathers(node), father)
               /\ Rights(nd2) = TurnR(DOMAIN node, Lefts(node), Rights(node), Fathers(node), father)
               /\ Fathers(nd2) = TurnU(DOMAIN node, Lefts(node), Rights(node), Fathers(node), father)
               /\ LeftDepths(nd2) = LeftDepths(node) /\ RightDepths(nd2) = RightDepths(node)
<1> DEFINE D == DOMAIN node
           L == Lefts(node)
           R == Rights(node)
           U == Fathers(node)
           f == father
           a == node[f].left
           above == node[f].up
           inner == node[a].right
           nd2 == Turned(a, "left", "right")
           hung == [node EXCEPT ![f]["left"] = inner, ![f].up = a, ![a]["right"] = f, ![a].up = above]
           low == IF above = Null THEN hung
                  ELSE [hung EXCEPT ![above].left  = IF @ = f THEN a ELSE @,
                                    ![above].right = IF @ = f THEN a ELSE @]
<1>1. /\ L[f] \in D /\ L[f] # f /\ R[L[f]] # f /\ R[L[f]] # L[f] /\ R[f] # f /\ R[f] # L[f]
      /\ L[L[f]] # f /\ L[L[f]] # L[f]
      /\ U[f] # f /\ U[f] # L[f] /\ (R[L[f]] # Null => U[f] # R[L[f]] /\ R[f] # R[L[f]])
      /\ U[L[f]] = f
      /\ \A n \in D : L[n] = f \/ R[n] = f => n = U[f]
      /\ \A n \in D : L[n] = L[f] \/ R[n] = L[f] => n = f
  <2>1. L[f] # Null
    BY DEF Lefts
  <2> HIDE DEF L, R, U, f, D
  <2> QED BY <2>1, TurnApart DEF L, R, U, f, D
<1>2. \A n \in D : node[n] \in Elem /\ L[n] = node[n].left /\ R[n] = node[n].right /\ U[n] = node[n].up
  BY DEF Lefts, Rights, Fathers
<1>3. \A n \in D : L[n] \in D \cup {Null} /\ R[n] \in D \cup {Null} /\ U[n] \in D \cup {Null}
  BY DEF Links
<1>4. Null \notin D /\ D \subseteq Nat /\ Null \in Nat
  BY DEF Links, Null
<1>5. nd2 = IF inner = Null THEN low ELSE [low EXCEPT ![inner].up = f]
  BY DEF Turned
<1>6. /\ f \in D /\ a \in D /\ a = L[f] /\ a # f /\ above = U[f] /\ above # f /\ above # a
      /\ inner = R[a] /\ inner # f /\ inner # a /\ (inner # Null => above # inner)
      /\ above \in D \cup {Null} /\ inner \in D \cup {Null}
      /\ \A n \in D : L[n] = f \/ R[n] = f => n = above
      /\ \A n \in D : L[n] = a \/ R[n] = a => n = f
  BY <1>1, <1>2, <1>3
<1> DEFINE F(n) == [node[n] EXCEPT !["left"] = inner, !.up = a]
           A(n) == [node[n] EXCEPT !["right"] = f, !.up = above]
           G(r) == [r EXCEPT !.left = IF @ = f THEN a ELSE @, !.right = IF @ = f THEN a ELSE @]
           I(r) == [r EXCEPT !.up = f]
<1> HIDE DEF nd2, D, L, R, U
<1>7. /\ DOMAIN hung = D
      /\ hung[f] = F(f) /\ hung[a] = A(a) /\ \A n \in D : n # f /\ n # a => hung[n] = node[n]
  BY <1>6 DEF D
<1>8. hung = [n \in D |-> hung[n]]
  BY <1>7
<1> HIDE DEF hung, F, A
<1>9. /\ low = [n \in D |-> low[n]]
      /\ \A n \in D : low[n] = IF n = above THEN G(hung[n]) ELSE hung[n]
  <2>1. CASE above = Null
    <3>1. low = hung
      BY <2>1
    <3>2. \A n \in D : n # above
      BY <1>4, <2>1
    <3> HIDE DEF low, above
    <3> QED BY <1>8, <3>1, <3>2
  <2>2. CASE above # Null
    <3>1. low = [hung EXCEPT ![above] = G(hung[above])]
      BY <2>2
    <3>2. above \in D
      BY <1>6, <2>2
    <3> HIDE DEF low, above, G
    <3> QED BY <1>8, <3>1, <3>2
  <2> QED BY <2>1, <2>2
<1> HIDE DEF low, G
<1>10. /\ nd2 = [n \in D |-> nd2[n]]
       /\ \A n \in D : nd2[n] = IF n = inner THEN I(low[n]) ELSE low[n]
  <2>1. CASE inner = Null
    <3>1. nd2 = low /\ \A n \in D : n # inner
      BY <1>4, <1>5, <2>1
    <3> HIDE DEF inner, I
    <3> QED BY <1>9, <3>1
  <2>2. CASE inner # Null
    <3>1. nd2 = [low EXCEPT ![inner] = I(low[inner])]
      BY <1>5, <2>2
    <3>2. inner \in D
      BY <1>6, <2>2
    <3> HIDE DEF inner, I
    <3> QED BY <1>9, <3>1, <3>2
  <2> QED BY <2>1, <2>2
<1> HIDE DEF I
<1> HIDE DEF above, inner, a, f
<1>11. ASSUME NEW n \in D
       PROVE  /\ nd2[n] \in Elem
              /\ nd2[n].left = IF n = f THEN inner ELSE IF n = above /\ L[n] = f THEN a ELSE L[n]
              /\ nd2[n].right = IF n = a THEN f ELSE IF n = above /\ R[n] = f THEN a ELSE R[n]
              /\ nd2[n].up = IF n = inner THEN f ELSE IF n = f THEN a ELSE IF n = a THEN above ELSE U[n]
              /\ nd2[n].left_depth = node[n].left_depth /\ nd2[n].right_depth = node[n].right_depth
  <2>1. node[n] \in Elem /\ n \in Nat /\ f \in Nat /\ a \in Nat /\ above \in Nat /\ inner \in Nat
    BY <1>2, <1>4, <1>6
  <2>2. L[n] = node[n].left /\ R[n] = node[n].right /\ U[n] = node[n].up
    BY <1>2
  <2>3. CASE n = f
    <3>1. nd2[n] = F(n)
      <4>1. n # above /\ n # inner /\ hung[n] = F(n)
        BY <1>6, <1>7, <2>3
      <4> QED BY <1>9, <1>10, <4>1
    <3> QED BY <1>6, <2>1, <2>2, <2>3, <3>1 DEF Elem, F
  <2>4. CASE n = a
    <3>1. nd2[n] = A(n)
      <4>1. n # above /\ n # inner /\ hung[n] = A(n)
        BY <1>6, <1>7, <2>4
      <4> QED BY <1>9, <1>10, <4>1
    <3> QED BY <1>6, <2>1, <2>2, <2>4, <3>1 DEF Elem, A
  <2>5. CASE n = above
    <3>1. n # f /\ n # a /\ n # inner
      BY <1>4, <1>6, <2>5
    <3>2. hung[n] = node[n]
      BY <1>7, <3>1
    <3>3. low[n] = G(hung[n])
      BY <1>9, <2>5
    <3>4. nd2[n] = low[n]
      BY <1>10, <3>1
    <3>5. nd2[n] = G(node[n]) /\ n # f /\ n # a /\ n # inner
      BY <3>1, <3>2, <3>3, <3>4
    <3>6. nd2[n] = [node[n] EXCEPT !.left = IF @ = f THEN a ELSE @, !.right = IF @ = f THEN a ELSE @]
      BY <3>5 DEF G
    <3> QED BY <1>6, <2>1, <2>2, <2>5, <3>5, <3>6, ZenonT(60) DEF Elem
  <2>6. CASE n = inner
    <3>1. n # f /\ n # a /\ n # above
      BY <1>4, <1>6, <2>6
    <3>2. low[n] = node[n]
      BY <1>7, <1>9, <3>1
    <3>3. nd2[n] = I(low[n])
      BY <1>10, <2>6
    <3>4. nd2[n] = I(node[n]) /\ n # f /\ n # a /\ n # above
      BY <3>1, <3>2, <3>3
    <3> QED BY <1>6, <2>1, <2>2, <2>6, <3>4 DEF Elem, I
  <2>7. CASE n # f /\ n # a /\ n # above /\ n # inner
    <3>1. nd2[n] = node[n]
      BY <1>7, <1>9, <1>10, <2>7
    <3> QED BY <2>1, <2>2, <2>7, <3>1 DEF Elem
  <2> QED BY <2>3, <2>4, <2>5, <2>6, <2>7
<1>12. nd2 \in Seq(Elem) /\ Len(nd2) = Len(node)
  <2>1. Len(node) \in Nat /\ D = 1..Len(node)
    BY DEF D
  <2>2. nd2 \in [1..Len(node) -> Elem]
    BY <1>10, <1>11, <2>1
  <2>3. nd2 \in Seq(Elem)
    BY <2>1, <2>2, SeqDef
  <2> QED BY <2>1, <2>2, <2>3, LenProperties
<1>13. /\ Lefts(nd2) = TurnL(D, L, R, U, f) /\ Rights(nd2) = TurnR(D, L, R, U, f)
       /\ Fathers(nd2) = TurnU(D, L, R, U, f)
  BY <1>6, <1>10, <1>11 DEF TurnL, TurnR, TurnU, Lefts, Rights, Fathers
<1>14. LeftDepths(nd2) = LeftDepths(node) /\ RightDepths(nd2) = RightDepths(node)
  BY <1>10, <1>11 DEF LeftDepths, RightDepths, D
<1> QED BY <1>10, <1>12, <1>13, <1>14 DEF nd2, D, L, R, U, f, a

\* The same to the other side.
LEMMA TurnedRight ==
    ASSUME node \in Seq(Elem), NEW below, NEW before, NEW after,
           Links(DOMAIN node, Rights(node), Lefts(node), Fathers(node)),
           Ordered(DOMAIN node, before, after),
           Sorted(DOMAIN node, Rights(node), Lefts(node), Fathers(node), below, before, after),
           father \in DOMAIN node, node[father].right # Null
    PROVE  LET nd2 == Turned(node[father].right, "right", "left")
           IN  /\ nd2 \in Seq(Elem) /\ DOMAIN nd2 = DOMAIN node /\ Len(nd2) = Len(node)
               /\ Rights(nd2) = TurnL(DOMAIN node, Rights(node), Lefts(node), Fathers(node), father)
               /\ Lefts(nd2) = TurnR(DOMAIN node, Rights(node), Lefts(node), Fathers(node), father)
               /\ Fathers(nd2) = TurnU(DOMAIN node, Rights(node), Lefts(node), Fathers(node), father)
               /\ LeftDepths(nd2) = LeftDepths(node) /\ RightDepths(nd2) = RightDepths(node)
<1> DEFINE D == DOMAIN node
           L == Rights(node)
           R == Lefts(node)
           U == Fathers(node)
           f == father
           a == node[f].right
           above == node[f].up
           inner == node[a].left
           nd2 == Turned(a, "right", "left")
           hung == [node EXCEPT ![f]["right"] = inner, ![f].up = a, ![a]["left"] = f, ![a].up = above]
           low == IF above = Null THEN hung
                  ELSE [hung EXCEPT ![above].left  = IF @ = f THEN a ELSE @,
                                    ![above].right = IF @ = f THEN a ELSE @]
<1>1. /\ L[f] \in D /\ L[f] # f /\ R[L[f]] # f /\ R[L[f]] # L[f] /\ R[f] # f /\ R[f] # L[f]
      /\ L[L[f]] # f /\ L[L[f]] # L[f]
      /\ U[f] # f /\ U[f] # L[f] /\ (R[L[f]] # Null => U[f] # R[L[f]] /\ R[f] # R[L[f]])
      /\ U[L[f]] = f
      /\ \A n \in D : L[n] = f \/ R[n] = f => n = U[f]
      /\ \A n \in D : L[n] = L[f] \/ R[n] = L[f] => n = f
  <2>1. L[f] # Null
    BY DEF Rights
  <2> HIDE DEF L, R, U, f, D
  <2> QED BY <2>1, TurnApart DEF L, R, U, f, D
<1>2. \A n \in D : node[n] \in Elem /\ L[n] = node[n].right /\ R[n] = node[n].left /\ U[n] = node[n].up
  BY DEF Lefts, Rights, Fathers
<1>3. \A n \in D : L[n] \in D \cup {Null} /\ R[n] \in D \cup {Null} /\ U[n] \in D \cup {Null}
  BY DEF Links
<1>4. Null \notin D /\ D \subseteq Nat /\ Null \in Nat
  BY DEF Links, Null
<1>5. nd2 = IF inner = Null THEN low ELSE [low EXCEPT ![inner].up = f]
  BY DEF Turned
<1>6. /\ f \in D /\ a \in D /\ a = L[f] /\ a # f /\ above = U[f] /\ above # f /\ above # a
      /\ inner = R[a] /\ inner # f /\ inner # a /\ (inner # Null => above # inner)
      /\ above \in D \cup {Null} /\ inner \in D \cup {Null}
      /\ \A n \in D : L[n] = f \/ R[n] = f => n = above
      /\ \A n \in D : L[n] = a \/ R[n] = a => n = f
  BY <1>1, <1>2, <1>3
<1> DEFINE F(n) == [node[n] EXCEPT !["right"] = inner, !.up = a]
           A(n) == [node[n] EXCEPT !["left"] = f, !.up = above]
           G(r) == [r EXCEPT !.left = IF @ = f THEN a ELSE @, !.right = IF @ = f THEN a ELSE @]
           I(r) == [r EXCEPT !.up = f]
<1> HIDE DEF nd2, D, L, R, U
<1>7. /\ DOMAIN hung = D
      /\ hung[f] = F(f) /\ hung[a] = A(a) /\ \A n \in D : n # f /\ n # a => hung[n] = node[n]
  BY <1>6 DEF D
<1>8. hung = [n \in D |-> hung[n]]
  BY <1>7
<1> HIDE DEF hung, F, A
<1>9. /\ low = [n \in D |-> low[n]]
      /\ \A n \in D : low[n] = IF n = above THEN G(hung[n]) ELSE hung[n]
  <2>1. CASE above = Null
    <3>1. low = hung
      BY <2>1
    <3>2. \A n \in D : n # above
      BY <1>4, <2>1
    <3> HIDE DEF low, above
    <3> QED BY <1>8, <3>1, <3>2
  <2>2. CASE above # Null
    <3>1. low = [hung EXCEPT ![above] = G(hung[above])]
      BY <2>2
    <3>2. above \in D
      BY <1>6, <2>2
    <3> HIDE DEF low, above, G
    <3> QED BY <1>8, <3>1, <3>2
  <2> QED BY <2>1, <2>2
<1> HIDE DEF low, G
<1>10. /\ nd2 = [n \in D |-> nd2[n]]
       /\ \A n \in D : nd2[n] = IF n = inner THEN I(low[n]) ELSE low[n]
  <2>1. CASE inner = Null
    <3>1. nd2 = low /\ \A n \in D : n # inner
      BY <1>4, <1>5, <2>1
    <3> HIDE DEF inner, I
    <3> QED BY <1>9, <3>1
  <2>2. CASE inner # Null
    <3>1. nd2 = [low EXCEPT ![inner] = I(low[inner])]
      BY <1>5, <2>2
    <3>2. inner \in D
      BY <1>6, <2>2
    <3> HIDE DEF inner, I
    <3> QED BY <1>9, <3>1, <3>2
  <2> QED BY <2>1, <2>2
<1> HIDE DEF I
<1> HIDE DEF above, inner, a, f
<1>11. ASSUME NEW n \in D
       PROVE  /\ nd2[n] \in Elem
              /\ nd2[n].right = IF n = f THEN inner ELSE IF n = above /\ L[n] = f THEN a ELSE L[n]
              /\ nd2[n].left = IF n = a THEN f ELSE IF n = above /\ R[n] = f THEN a ELSE R[n]
              /\ nd2[n].up = IF n = inner THEN f ELSE IF n = f THEN a ELSE IF n = a THEN above ELSE U[n]
              /\ nd2[n].left_depth = node[n].left_depth /\ nd2[n].right_depth = node[n].right_depth
  <2>1. node[n] \in Elem /\ n \in Nat /\ f \in Nat /\ a \in Nat /\ above \in Nat /\ inner \in Nat
    BY <1>2, <1>4, <1>6
  <2>2. L[n] = node[n].right /\ R[n] = node[n].left /\ U[n] = node[n].up
    BY <1>2
  <2>3. CASE n = f
    <3>1. nd2[n] = F(n)
      <4>1. n # above /\ n # inner /\ hung[n] = F(n)
        BY <1>6, <1>7, <2>3
      <4> QED BY <1>9, <1>10, <4>1
    <3> QED BY <1>6, <2>1, <2>2, <2>3, <3>1 DEF Elem, F
  <2>4. CASE n = a
    <3>1. nd2[n] = A(n)
      <4>1. n # above /\ n # inner /\ hung[n] = A(n)
        BY <1>6, <1>7, <2>4
      <4> QED BY <1>9, <1>10, <4>1
    <3> QED BY <1>6, <2>1, <2>2, <2>4, <3>1 DEF Elem, A
  <2>5. CASE n = above
    <3>1. n # f /\ n # a /\ n # inner
      BY <1>4, <1>6, <2>5
    <3>2. hung[n] = node[n]
      BY <1>7, <3>1
    <3>3. low[n] = G(hung[n])
      BY <1>9, <2>5
    <3>4. nd2[n] = low[n]
      BY <1>10, <3>1
    <3>5. nd2[n] = G(node[n]) /\ n # f /\ n # a /\ n # inner
      BY <3>1, <3>2, <3>3, <3>4
    <3>6. nd2[n] = [node[n] EXCEPT !.left = IF @ = f THEN a ELSE @, !.right = IF @ = f THEN a ELSE @]
      BY <3>5 DEF G
    <3> QED BY <1>6, <2>1, <2>2, <2>5, <3>5, <3>6, ZenonT(60) DEF Elem
  <2>6. CASE n = inner
    <3>1. n # f /\ n # a /\ n # above
      BY <1>4, <1>6, <2>6
    <3>2. low[n] = node[n]
      BY <1>7, <1>9, <3>1
    <3>3. nd2[n] = I(low[n])
      BY <1>10, <2>6
    <3>4. nd2[n] = I(node[n]) /\ n # f /\ n # a /\ n # above
      BY <3>1, <3>2, <3>3
    <3> QED BY <1>6, <2>1, <2>2, <2>6, <3>4 DEF Elem, I
  <2>7. CASE n # f /\ n # a /\ n # above /\ n # inner
    <3>1. nd2[n] = node[n]
      BY <1>7, <1>9, <1>10, <2>7
    <3> QED BY <2>1, <2>2, <2>7, <3>1 DEF Elem
  <2> QED BY <2>3, <2>4, <2>5, <2>6, <2>7
<1>12. nd2 \in Seq(Elem) /\ Len(nd2) = Len(node)
  <2>1. Len(node) \in Nat /\ D = 1..Len(node)
    BY DEF D
  <2>2. nd2 \in [1..Len(node) -> Elem]
    BY <1>10, <1>11, <2>1
  <2>3. nd2 \in Seq(Elem)
    BY <2>1, <2>2, SeqDef
  <2> QED BY <2>1, <2>2, <2>3, LenProperties
<1>13. /\ Rights(nd2) = TurnL(D, L, R, U, f) /\ Lefts(nd2) = TurnR(D, L, R, U, f)
       /\ Fathers(nd2) = TurnU(D, L, R, U, f)
  BY <1>6, <1>10, <1>11 DEF TurnL, TurnR, TurnU, Lefts, Rights, Fathers
<1>14. LeftDepths(nd2) = LeftDepths(node) /\ RightDepths(nd2) = RightDepths(node)
  BY <1>10, <1>11 DEF LeftDepths, RightDepths, D
<1> QED BY <1>10, <1>12, <1>13, <1>14 DEF nd2, D, L, R, U, f, a

(***************************************************************************)
(* The inductive invariant: the pointers make a tree in which the elements *)
(* are in order, of which the only root is above everything; and every     *)
(* depth is right in the tree that is being made, except above from.       *)
(***************************************************************************)
Less(ky, a, b)  == ky[a] < ky[b] \/ (ky[a] = ky[b] /\ a < b)
Befores(ky, D) == [n \in D |-> {m \in D : Less(ky, m, n)}]
Afters(ky, D)  == [n \in D |-> {m \in D : Less(ky, n, m)}]

TreeTyped ==
    /\ key \in Seq(Keys) /\ node \in Seq(Elem)
    /\ Len(key) = IF pc = "find" THEN Len(node) + 1 ELSE Len(node)
    /\ pc \in {"idle", "find", "depths", "balance", "lift", "turn"}
    /\ pc # "idle" => father \in DOMAIN node
    /\ pc = "idle" => IF Len(node) = 0 THEN top = Null ELSE top \in DOMAIN node /\ node[top].up = Null

InPlace ==
    /\ pc = "depths" => child = from
    /\ pc \in {"depths", "lift"} => child \in DOMAIN node /\ Fathers(node)[child] # Null
    /\ pc \in {"lift", "turn"} => added \in DOMAIN node /\ added \in {Lefts(node)[father], Rights(node)[father]}

\* The pointers as they are to be after the rotation that has been started.
Leftward == Lefts(node)[father] = added
MadeLefts ==
    IF pc \notin {"lift", "turn"} THEN Lefts(node)
    ELSE IF Leftward THEN TurnL(DOMAIN node, Lefts(node), Rights(node), Fathers(node), father)
                     ELSE TurnR(DOMAIN node, Rights(node), Lefts(node), Fathers(node), father)
MadeRights ==
    IF pc \notin {"lift", "turn"} THEN Rights(node)
    ELSE IF Leftward THEN TurnR(DOMAIN node, Lefts(node), Rights(node), Fathers(node), father)
                     ELSE TurnL(DOMAIN node, Rights(node), Lefts(node), Fathers(node), father)
MadeFathers ==
    IF pc \notin {"lift", "turn"} THEN Fathers(node)
    ELSE IF Leftward THEN TurnU(DOMAIN node, Lefts(node), Rights(node), Fathers(node), father)
                     ELSE TurnU(DOMAIN node, Rights(node), Lefts(node), Fathers(node), father)

DepthsKnown ==
    Deep(DOMAIN node, MadeLefts, MadeRights, LeftDepths(node), RightDepths(node),
         IF pc \in {"depths", "lift"} THEN from ELSE Null)

InOrder(below) ==
    /\ Sorted(DOMAIN node, Lefts(node), Rights(node), Fathers(node), below,
              Befores(key, DOMAIN node), Afters(key, DOMAIN node))
    /\ \A n \in DOMAIN node : Fathers(node)[n] = Null => below[n] = DOMAIN node
    /\ pc = "find" =>
           Path(DOMAIN node, Lefts(node), Rights(node), below,
                {n \in DOMAIN node : Less(key, n, New)}, {n \in DOMAIN node : Less(key, New, n)}, father)
    /\ pc = "lift" => \/ from = added /\ child = father
                      \/ from = child /\ child # father /\ father \in below[child]

TreeInv ==
    /\ TreeTyped /\ InPlace
    /\ Links(DOMAIN node, Lefts(node), Rights(node), Fathers(node))
    /\ DepthsKnown
    /\ \E below \in [DOMAIN node -> SUBSET DOMAIN node] : InOrder(below)

\* By the keys, equal ones by their age, the elements are in an order.
LEMMA OrderOfKeys ==
    ASSUME NEW ky \in Seq(Keys), NEW D \in SUBSET (1..Len(ky))
    PROVE  Ordered(D, Befores(ky, D), Afters(ky, D))
<1>1. \A n \in D : ky[n] \in Int /\ n \in Int
  <2> TAKE n \in D
  <2>1. n \in 1..Len(ky) /\ Len(ky) \in Nat
    BY LenProperties
  <2>2. ky[n] \in Keys
    BY <2>1, ElementOfSeq
  <2>3. Keys \subseteq Int
    BY BTreeAssumption
  <2>4. n \in Int
    BY <2>1
  <2> QED BY <2>2, <2>3, <2>4
<1>2. /\ Befores(ky, D) \in [D -> SUBSET D] /\ Afters(ky, D) \in [D -> SUBSET D]
      /\ \A m, n \in D : /\ m \in Befores(ky, D)[n] <=> Less(ky, m, n)
                         /\ m \in Afters(ky, D)[n] <=> Less(ky, n, m)
  BY DEF Befores, Afters
<1>3. \A k, m, n \in D : Less(ky, k, m) /\ Less(ky, m, n) => Less(ky, k, n)
  BY <1>1 DEF Less
<1>4. \A m, n \in D : ~Less(ky, n, n) /\ (m = n \/ Less(ky, m, n) \/ Less(ky, n, m))
  BY <1>1 DEF Less
<1> QED BY <1>2, <1>3, <1>4 DEF Ordered

\* The elements in play are elements of the tree.
LEMMA NodeFacts ==
    ASSUME TreeInv
    PROVE  /\ DOMAIN node = 1..Len(node) /\ Len(node) \in Nat /\ Null \notin DOMAIN node
           /\ DOMAIN node \subseteq 1..Len(key)
           /\ \A n \in DOMAIN node : /\ node[n] \in Elem
                                     /\ Lefts(node)[n] = node[n].left /\ Rights(node)[n] = node[n].right
                                     /\ Fathers(node)[n] = node[n].up
                                     /\ LeftDepths(node)[n] = node[n].left_depth
                                     /\ RightDepths(node)[n] = node[n].right_depth
                                     /\ node[n].left \in DOMAIN node \cup {Null}
                                     /\ node[n].right \in DOMAIN node \cup {Null}
                                     /\ node[n].up \in DOMAIN node \cup {Null}
           /\ Ordered(DOMAIN node, Befores(key, DOMAIN node), Afters(key, DOMAIN node))
<1>1. node \in Seq(Elem) /\ key \in Seq(Keys) /\ Len(key) \in {Len(node), Len(node) + 1}
  BY DEF TreeInv, TreeTyped
<1>2. DOMAIN node = 1..Len(node) /\ Len(node) \in Nat /\ Len(key) \in Nat /\ \A n \in DOMAIN node : node[n] \in Elem
  BY <1>1
<1>3. Null \notin DOMAIN node
  BY <1>2 DEF Null
<1>4. DOMAIN node \subseteq 1..Len(key)
  BY <1>1, <1>2
<1>5. \A n \in DOMAIN node : /\ Lefts(node)[n] = node[n].left /\ Rights(node)[n] = node[n].right
                             /\ Fathers(node)[n] = node[n].up
                             /\ LeftDepths(node)[n] = node[n].left_depth
                             /\ RightDepths(node)[n] = node[n].right_depth
  BY DEF Lefts, Rights, Fathers, LeftDepths, RightDepths
<1>6. \A n \in DOMAIN node : /\ node[n].left \in DOMAIN node \cup {Null}
                             /\ node[n].right \in DOMAIN node \cup {Null}
                             /\ node[n].up \in DOMAIN node \cup {Null}
  BY <1>5 DEF TreeInv, Links
<1>7. Ordered(DOMAIN node, Befores(key, DOMAIN node), Afters(key, DOMAIN node))
  BY <1>1, <1>4, OrderOfKeys
<1> QED BY <1>2, <1>3, <1>4, <1>5, <1>6, <1>7

\* The way up to the root does not touch the tree, and ends at the top.
LEMMA ClimbStep ==
    ASSUME TreeInv, Climb
    PROVE  TreeInv'
<1> USE NodeFacts
<1>1. node' = node /\ key' = key /\ pc = "balance" /\ pc' \in {"balance", "idle"}
  BY DEF Climb
<1>2. TreeTyped'
  <2>1. father \in DOMAIN node /\ Len(key) = Len(node) /\ Len(node) # 0
    BY <1>1 DEF TreeInv, TreeTyped
  <2>2. CASE node[father].up # Null
    BY <1>1, <2>1, <2>2 DEF TreeInv, TreeTyped, Climb
  <2>3. CASE node[father].up = Null
    BY <1>1, <2>1, <2>3 DEF TreeInv, TreeTyped, Climb
  <2> QED BY <2>2, <2>3
<1>3. InPlace'
  BY <1>1 DEF InPlace
<1>4. Links(DOMAIN node, Lefts(node), Rights(node), Fathers(node))'
  BY <1>1 DEF TreeInv
<1>5. DepthsKnown'
  BY <1>1 DEF TreeInv, DepthsKnown, MadeLefts, MadeRights
<1>6. (\E below \in [DOMAIN node -> SUBSET DOMAIN node] : InOrder(below))'
  <2>1. PICK below \in [DOMAIN node -> SUBSET DOMAIN node] : InOrder(below)
    BY DEF TreeInv
  <2>2. InOrder(below)'
    BY <1>1, <2>1 DEF InOrder
  <2> QED BY <1>1, <2>2
<1> QED BY <1>2, <1>3, <1>4, <1>5, <1>6 DEF TreeInv

\* Nor does the way up to the next father.
LEMMA GoUpStep ==
    ASSUME TreeInv, GoUp
    PROVE  TreeInv'
<1> USE NodeFacts
<1>1. /\ node' = node /\ key' = key /\ pc = "balance" /\ pc' = "balance"
      /\ father' = node[father].up /\ node[father].up # Null
  BY DEF GoUp, GoTo
<1>2. TreeTyped'
  <2>1. father \in DOMAIN node
    BY <1>1 DEF TreeInv, TreeTyped
  <2> QED BY <1>1, <2>1 DEF TreeInv, TreeTyped
<1>3. InPlace'
  BY <1>1 DEF InPlace
<1>4. Links(DOMAIN node, Lefts(node), Rights(node), Fathers(node))'
  BY <1>1 DEF TreeInv
<1>5. DepthsKnown'
  BY <1>1 DEF TreeInv, DepthsKnown, MadeLefts, MadeRights
<1>6. (\E below \in [DOMAIN node -> SUBSET DOMAIN node] : InOrder(below))'
  <2>1. PICK below \in [DOMAIN node -> SUBSET DOMAIN node] : InOrder(below)
    BY DEF TreeInv
  <2>2. InOrder(below)'
    BY <1>1, <2>1 DEF InOrder
  <2> QED BY <1>1, <2>2
<1> QED BY <1>2, <1>3, <1>4, <1>5, <1>6 DEF TreeInv

(***************************************************************************)
(* Adding: the first element, or the search for the place.                 *)
(***************************************************************************)
\* The first element is the tree.
LEMMA FirstStep ==
    ASSUME TreeInv, NEW k \in Keys, Add(k), top = Null
    PROVE  TreeInv'
<1> DEFINE B == [n \in {1} |-> {1}]
<1>1. /\ pc = "idle" /\ pc' = "idle" /\ key' = Append(key, k)
      /\ node' = Append(node, Element(Null)) /\ top' = 1
  BY DEF Add
<1>2. node = <<>> /\ Len(key) = 0 /\ key \in Seq(Keys)
  BY <1>1, NodeFacts DEF TreeInv, TreeTyped
<1>3. node' = <<Element(Null)>> /\ key' \in Seq(Keys) /\ Len(key') = 1
  BY <1>1, <1>2
<1>4. Element(Null) \in Elem /\ Null \in Nat /\ 1 # Null
  BY DEF Element, Elem, Null
<1>5. node' \in Seq(Elem) /\ Len(node') = 1 /\ DOMAIN node' = {1} /\ node'[1] = Element(Null)
  BY <1>3, <1>4
<1>6. /\ Lefts(node') = [n \in {1} |-> Null] /\ Rights(node') = [n \in {1} |-> Null]
      /\ Fathers(node') = [n \in {1} |-> Null]
      /\ LeftDepths(node') = [n \in {1} |-> 0] /\ RightDepths(node') = [n \in {1} |-> 0]
  BY <1>5 DEF Lefts, Rights, Fathers, LeftDepths, RightDepths, Element
<1>7. TreeTyped'
  BY <1>1, <1>3, <1>5 DEF TreeTyped, Element
<1>8. InPlace'
  BY <1>1 DEF InPlace
<1>9. Links(DOMAIN node, Lefts(node), Rights(node), Fathers(node))'
  BY <1>4, <1>5, <1>6 DEF Links
<1>10. DepthsKnown'
  BY <1>1, <1>5, <1>6 DEF DepthsKnown, MadeLefts, MadeRights, Deep, DepthOf
<1>11. (\E below \in [DOMAIN node -> SUBSET DOMAIN node] : InOrder(below))'
  <2>1. B \in [{1} -> SUBSET {1}] /\ B[1] = {1} /\ Of(B, Null) = {}
    BY DEF Of
  <2> HIDE DEF B
  <2>2. InOrder(B)'
    BY <1>1, <1>5, <1>6, <2>1 DEF InOrder, Sorted
  <2> QED BY <1>5, <2>1, <2>2
<1> QED BY <1>7, <1>8, <1>9, <1>10, <1>11 DEF TreeInv

\* The search for the place of a new element starts at the top, which is above everything.
LEMMA AddStep ==
    ASSUME TreeInv, NEW k \in Keys, Add(k), top # Null
    PROVE  TreeInv'
<1> USE NodeFacts
<1>1. /\ pc = "idle" /\ pc' = "find" /\ key' = Append(key, k) /\ key \in Seq(Keys)
      /\ node' = node /\ father' = top
  BY DEF Add, TreeInv, TreeTyped
<1>2. Len(node) = Len(key) /\ top \in DOMAIN node /\ node[top].up = Null
  BY <1>1 DEF TreeInv, TreeTyped
<1>3. /\ key' \in Seq(Keys) /\ Len(key') = Len(key) + 1
      /\ \A n \in DOMAIN node : key'[n] = key[n]
  BY <1>1, <1>2
<1>4. TreeTyped'
  BY <1>1, <1>2, <1>3 DEF TreeInv, TreeTyped
<1>5. InPlace'
  BY <1>1 DEF InPlace
<1>6. Links(DOMAIN node, Lefts(node), Rights(node), Fathers(node))'
  BY <1>1 DEF TreeInv
<1>7. DepthsKnown'
  BY <1>1 DEF TreeInv, DepthsKnown, MadeLefts, MadeRights
<1>8. /\ Befores(key', DOMAIN node) = Befores(key, DOMAIN node)
      /\ Afters(key', DOMAIN node) = Afters(key, DOMAIN node)
  BY <1>3 DEF Befores, Afters, Less
<1>9. (\E below \in [DOMAIN node -> SUBSET DOMAIN node] : InOrder(below))'
  <2>1. PICK below \in [DOMAIN node -> SUBSET DOMAIN node] : InOrder(below)
    BY DEF TreeInv
  <2>2. /\ Sorted(DOMAIN node, Lefts(node), Rights(node), Fathers(node), below,
                  Befores(key, DOMAIN node), Afters(key, DOMAIN node))
        /\ \A n \in DOMAIN node : Fathers(node)[n] = Null => below[n] = DOMAIN node
    BY <2>1 DEF InOrder
  <2>3. Path(DOMAIN node, Lefts(node), Rights(node), below,
             {n \in DOMAIN node : Less(key', n, New')}, {n \in DOMAIN node : Less(key', New', n)}, top)
    <3>1. Links(DOMAIN node, Lefts(node), Rights(node), Fathers(node)) /\ Fathers(node)[top] = Null
      BY <1>2 DEF TreeInv
    <3> QED BY <1>2, <2>2, <3>1, PathRoot
  <2>4. InOrder(below)'
    BY <1>1, <1>8, <2>2, <2>3 DEF InOrder
  <2> QED BY <1>1, <2>4
<1> QED BY <1>4, <1>5, <1>6, <1>7, <1>9 DEF TreeInv

\* The new element is hung where the search ends, on the left ...
LEMMA HangLeftStep ==
    ASSUME TreeInv, pc = "find", NEW f \in DOMAIN node, Attach("left", f), node[f].left = Null,
           key[New] < key[f],
           NEW below \in [DOMAIN node -> SUBSET DOMAIN node], InOrder(below),
           Path(DOMAIN node, Lefts(node), Rights(node), below, {n \in DOMAIN node : Less(key, n, New)},
                {n \in DOMAIN node : Less(key, New, n)}, f)
    PROVE  TreeInv'
<1> DEFINE D == DOMAIN node
           v == Len(node) + 1
           E == D \cup {v}
           L == Lefts(node)
           R == Rights(node)
           U == Fathers(node)
           LD == LeftDepths(node)
           RD == RightDepths(node)
           before2 == Befores(key, E)
           after2 == Afters(key, E)
           B2 == PutBelow(D, below, f, v)
<1>1. /\ node' = HangLeft(node, f, v) /\ v = New /\ pc' = "depths" /\ father' = f /\ child' = v /\ from' = v
      /\ key' = key /\ key \in Seq(Keys) /\ Len(key) = v /\ node \in Seq(Elem)
  BY DEF Attach, TreeInv, TreeTyped, New, HangLeft
<1>2. /\ node' \in Seq(Elem) /\ DOMAIN node' = E /\ Len(node') = Len(node) + 1
      /\ v \notin D /\ v \in Nat /\ v # Null
      /\ Lefts(node') = PutL(D, L, f, v)
      /\ Rights(node') = PutR(D, R, v)
      /\ Fathers(node') = PutU(D, U, f, v)
      /\ LeftDepths(node') = PutDepth(D, LeftDepths(node), v)
      /\ RightDepths(node') = PutDepth(D, RightDepths(node), v)
  <2>1. node \in Seq(Elem) /\ node' = HangLeft(node, f, v)
    BY <1>1
  <2> HIDE DEF v
  <2>2. v = Len(node) + 1
    BY DEF v
  <2> QED BY <2>1, <2>2, AttachLeft
<1>3. Links(D, L, R, U) /\ L[f] = Null /\ Null \notin D
  BY NodeFacts, Mirror DEF TreeInv
<1>4. Deep(D, L, R, LD, RD, Null)
  <2>1. Deep(D, Lefts(node), Rights(node), LeftDepths(node), RightDepths(node), Null)
    BY DEF TreeInv, DepthsKnown, MadeLefts, MadeRights
  <2>2. Lefts(node) \in [D -> D \cup {Null}] /\ Rights(node) \in [D -> D \cup {Null}]
    BY DEF TreeInv, Links
  <2> QED BY <2>1, <2>2, DepthMirror
<1>5. Ordered(D, Befores(key, D), Afters(key, D))
  BY NodeFacts, Mirror
<1>6. Sorted(D, L, R, U, below, Befores(key, D), Afters(key, D))
  BY Mirror DEF InOrder
<1>7. \A n \in D : U[n] = Null => below[n] = D
  BY DEF InOrder
<1>8. \A n \in D : n < v /\ n \in Nat /\ key[n] \in Int /\ key[v] \in Int
  <2> TAKE n \in D
  <2>1. n \in 1..Len(key) /\ v \in 1..Len(key) /\ n < v /\ n \in Nat
    BY <1>1, NodeFacts
  <2>2. key[n] \in Keys /\ key[v] \in Keys
    BY <1>1, <2>1, ElementOfSeq
  <2> QED BY <2>1, <2>2, BTreeAssumption
<1>9. /\ \A n \in D : Befores(key, D)[n] \subseteq before2[n] /\ Afters(key, D)[n] \subseteq after2[n]
      /\ \A n \in D : (v \in after2[n] <=> Less(key, n, v)) /\ (v \in before2[n] <=> Less(key, v, n))
      /\ v \in before2[f]
  <2>1. Less(key, v, f)
    BY <1>1, <1>8 DEF Less
  <2> QED BY <2>1 DEF Befores, Afters
<1>10. Path(D, L, R, below, {n \in D : v \in after2[n]}, {n \in D : v \in before2[n]}, f)
  <2> DEFINE low == {n \in D : Less(key, n, New)}
             high == {n \in D : Less(key, New, n)}
  <2>1. Path(D, Lefts(node), Rights(node), below, low, high, f)
    OBVIOUS
  <2>2. /\ {n \in D : v \in after2[n]} = low
        /\ {n \in D : v \in before2[n]} = high
    BY <1>1, <1>9
  <2> HIDE DEF low, high
  <2>3. Path(D, L, R, below, low, high, f)
    BY <2>1, PathMirror
  <2> QED BY <2>2, <2>3
<1> HIDE DEF v, D, E, L, R, U, LD, RD, before2, after2, B2
<1>11. f \in D /\ v \notin D /\ v # Null
  BY <1>2 DEF D
<1>12. Links(E, PutL(D, L, f, v), PutR(D, R, v), PutU(D, U, f, v))
  BY <1>3, <1>11, PutLinks DEF E
<1>13. Sorted(E, PutL(D, L, f, v), PutR(D, R, v), PutU(D, U, f, v), B2, before2, after2)
  <2>1. /\ f \in D /\ v \notin D /\ v # Null /\ Links(D, L, R, U) /\ L[f] = Null
        /\ Ordered(D, Befores(key, D), Afters(key, D))
        /\ Sorted(D, L, R, U, below, Befores(key, D), Afters(key, D))
        /\ \A n \in D : Befores(key, D)[n] \subseteq before2[n] /\ Afters(key, D)[n] \subseteq after2[n]
        /\ Path(D, L, R, below, {n \in D : v \in after2[n]}, {n \in D : v \in before2[n]}, f)
        /\ v \in before2[f]
    BY <1>3, <1>5, <1>6, <1>9, <1>10, <1>11
  <2>2. Sorted(D \cup {v}, PutL(D, L, f, v), PutR(D, R, v), PutU(D, U, f, v),
               PutBelow(D, below, f, v), before2, after2)
    BY ONLY <2>1, PutSorted, ZenonT(60)
  <2> QED BY <2>2 DEF E, B2
<1>14. \A n \in E : PutU(D, U, f, v)[n] = Null => B2[n] = E
  <2>1. f \in D /\ v \notin D /\ Null \notin D /\ \A n \in D : U[n] = Null => below[n] = D
    BY <1>3, <1>7, <1>11
  <2> TAKE n \in E
  <2> HAVE PutU(D, U, f, v)[n] = Null
  <2>2. n \in D /\ n # v /\ U[n] = Null
    BY <2>1 DEF E, PutU
  <2>3. B2[n] = below[n] \cup {v} /\ below[n] = D
    BY <2>1, <2>2 DEF E, B2, PutBelow
  <2> QED BY <2>3 DEF E
<1>15. Deep(E, PutL(D, L, f, v), PutR(D, R, v), PutDepth(D, LD, v), PutDepth(D, RD, v), v)
  BY <1>3, <1>4, <1>11, PutDeep DEF E
<1>16. TreeTyped'
  BY <1>1, <1>2 DEF TreeTyped, E, D, v
<1>17. InPlace'
  <2>1. v \in E /\ Fathers(node')[v] = f /\ Fathers(node')[v] = node'[v].up
    BY <1>2 DEF E, PutU, Fathers
  <2>2. f # Null
    BY <1>3, <1>11
  <2> QED BY <1>1, <1>2, <2>1, <2>2 DEF InPlace
<1>18. Links(E, Lefts(node'), Rights(node'), Fathers(node'))
  BY <1>2, <1>12, Mirror
<1>19. DepthsKnown'
  <2>1. Deep(E, Lefts(node'), Rights(node'), LeftDepths(node'), RightDepths(node'), v)
    BY <1>2, <1>15 DEF LD, RD
  <2>2. Lefts(node') \in [E -> E \cup {Null}] /\ Rights(node') \in [E -> E \cup {Null}]
    BY <1>18 DEF Links
  <2>3. Deep(E, Lefts(node'), Rights(node'), LeftDepths(node'), RightDepths(node'), v)
    BY <2>1, <2>2, DepthMirror
  <2> QED BY <1>1, <1>2, <2>3 DEF DepthsKnown, MadeLefts, MadeRights
<1>20. B2 \in [E -> SUBSET E]
  BY <1>13 DEF Sorted
<1>21. PICK b \in [E -> SUBSET E] : b = B2
  BY <1>20
<1>22. InOrder(b)'
  <2>1. Sorted(E, Lefts(node'), Rights(node'), Fathers(node'), B2, before2, after2)
    BY <1>2, <1>13
  <2>2. Sorted(E, Lefts(node'), Rights(node'), Fathers(node'), B2, Befores(key, E), Afters(key, E))
    BY <2>1, Mirror DEF before2, after2
  <2> QED BY <1>1, <1>2, <1>14, <1>21, <2>2 DEF InOrder
<1> QED BY <1>2, <1>16, <1>17, <1>18, <1>19, <1>22 DEF TreeInv

\* ... or on the right, where equal objects go: it comes after those added before it.
LEMMA HangRightStep ==
    ASSUME TreeInv, pc = "find", NEW f \in DOMAIN node, Attach("right", f), node[f].right = Null,
           key[New] >= key[f],
           NEW below \in [DOMAIN node -> SUBSET DOMAIN node], InOrder(below),
           Path(DOMAIN node, Lefts(node), Rights(node), below, {n \in DOMAIN node : Less(key, n, New)},
                {n \in DOMAIN node : Less(key, New, n)}, f)
    PROVE  TreeInv'
<1> DEFINE D == DOMAIN node
           v == Len(node) + 1
           E == D \cup {v}
           L == Rights(node)
           R == Lefts(node)
           U == Fathers(node)
           LD == RightDepths(node)
           RD == LeftDepths(node)
           before2 == Afters(key, E)
           after2 == Befores(key, E)
           B2 == PutBelow(D, below, f, v)
<1>1. /\ node' = HangRight(node, f, v) /\ v = New /\ pc' = "depths" /\ father' = f /\ child' = v /\ from' = v
      /\ key' = key /\ key \in Seq(Keys) /\ Len(key) = v /\ node \in Seq(Elem)
  BY DEF Attach, TreeInv, TreeTyped, New, HangRight
<1>2. /\ node' \in Seq(Elem) /\ DOMAIN node' = E /\ Len(node') = Len(node) + 1
      /\ v \notin D /\ v \in Nat /\ v # Null
      /\ Rights(node') = PutL(D, L, f, v)
      /\ Lefts(node') = PutR(D, R, v)
      /\ Fathers(node') = PutU(D, U, f, v)
      /\ LeftDepths(node') = PutDepth(D, LeftDepths(node), v)
      /\ RightDepths(node') = PutDepth(D, RightDepths(node), v)
  <2>1. node \in Seq(Elem) /\ node' = HangRight(node, f, v)
    BY <1>1
  <2> HIDE DEF v
  <2>2. v = Len(node) + 1
    BY DEF v
  <2> QED BY <2>1, <2>2, AttachRight
<1>3. Links(D, L, R, U) /\ L[f] = Null /\ Null \notin D
  BY NodeFacts, Mirror DEF TreeInv
<1>4. Deep(D, L, R, LD, RD, Null)
  <2>1. Deep(D, Lefts(node), Rights(node), LeftDepths(node), RightDepths(node), Null)
    BY DEF TreeInv, DepthsKnown, MadeLefts, MadeRights
  <2>2. Lefts(node) \in [D -> D \cup {Null}] /\ Rights(node) \in [D -> D \cup {Null}]
    BY DEF TreeInv, Links
  <2> QED BY <2>1, <2>2, DepthMirror
<1>5. Ordered(D, Afters(key, D), Befores(key, D))
  BY NodeFacts, Mirror
<1>6. Sorted(D, L, R, U, below, Afters(key, D), Befores(key, D))
  BY Mirror DEF InOrder
<1>7. \A n \in D : U[n] = Null => below[n] = D
  BY DEF InOrder
<1>8. \A n \in D : n < v /\ n \in Nat /\ key[n] \in Int /\ key[v] \in Int
  <2> TAKE n \in D
  <2>1. n \in 1..Len(key) /\ v \in 1..Len(key) /\ n < v /\ n \in Nat
    BY <1>1, NodeFacts
  <2>2. key[n] \in Keys /\ key[v] \in Keys
    BY <1>1, <2>1, ElementOfSeq
  <2> QED BY <2>1, <2>2, BTreeAssumption
<1>9. /\ \A n \in D : Afters(key, D)[n] \subseteq before2[n] /\ Befores(key, D)[n] \subseteq after2[n]
      /\ \A n \in D : (v \in after2[n] <=> Less(key, v, n)) /\ (v \in before2[n] <=> Less(key, n, v))
      /\ v \in before2[f]
  <2>1. Less(key, f, v)
    BY <1>1, <1>8 DEF Less
  <2> QED BY <2>1 DEF Befores, Afters
<1>10. Path(D, L, R, below, {n \in D : v \in after2[n]}, {n \in D : v \in before2[n]}, f)
  <2> DEFINE low == {n \in D : Less(key, n, New)}
             high == {n \in D : Less(key, New, n)}
  <2>1. Path(D, Lefts(node), Rights(node), below, low, high, f)
    OBVIOUS
  <2>2. /\ {n \in D : v \in after2[n]} = high
        /\ {n \in D : v \in before2[n]} = low
    BY <1>1, <1>9
  <2> HIDE DEF low, high
  <2>3. Path(D, L, R, below, high, low, f)
    BY <2>1, PathMirror
  <2> QED BY <2>2, <2>3
<1> HIDE DEF v, D, E, L, R, U, LD, RD, before2, after2, B2
<1>11. f \in D /\ v \notin D /\ v # Null
  BY <1>2 DEF D
<1>12. Links(E, PutL(D, L, f, v), PutR(D, R, v), PutU(D, U, f, v))
  BY <1>3, <1>11, PutLinks DEF E
<1>13. Sorted(E, PutL(D, L, f, v), PutR(D, R, v), PutU(D, U, f, v), B2, before2, after2)
  <2>1. /\ f \in D /\ v \notin D /\ v # Null /\ Links(D, L, R, U) /\ L[f] = Null
        /\ Ordered(D, Afters(key, D), Befores(key, D))
        /\ Sorted(D, L, R, U, below, Afters(key, D), Befores(key, D))
        /\ \A n \in D : Afters(key, D)[n] \subseteq before2[n] /\ Befores(key, D)[n] \subseteq after2[n]
        /\ Path(D, L, R, below, {n \in D : v \in after2[n]}, {n \in D : v \in before2[n]}, f)
        /\ v \in before2[f]
    BY <1>3, <1>5, <1>6, <1>9, <1>10, <1>11
  <2>2. Sorted(D \cup {v}, PutL(D, L, f, v), PutR(D, R, v), PutU(D, U, f, v),
               PutBelow(D, below, f, v), before2, after2)
    BY ONLY <2>1, PutSorted, ZenonT(60)
  <2> QED BY <2>2 DEF E, B2
<1>14. \A n \in E : PutU(D, U, f, v)[n] = Null => B2[n] = E
  <2>1. f \in D /\ v \notin D /\ Null \notin D /\ \A n \in D : U[n] = Null => below[n] = D
    BY <1>3, <1>7, <1>11
  <2> TAKE n \in E
  <2> HAVE PutU(D, U, f, v)[n] = Null
  <2>2. n \in D /\ n # v /\ U[n] = Null
    BY <2>1 DEF E, PutU
  <2>3. B2[n] = below[n] \cup {v} /\ below[n] = D
    BY <2>1, <2>2 DEF E, B2, PutBelow
  <2> QED BY <2>3 DEF E
<1>15. Deep(E, PutL(D, L, f, v), PutR(D, R, v), PutDepth(D, LD, v), PutDepth(D, RD, v), v)
  BY <1>3, <1>4, <1>11, PutDeep DEF E
<1>16. TreeTyped'
  BY <1>1, <1>2 DEF TreeTyped, E, D, v
<1>17. InPlace'
  <2>1. v \in E /\ Fathers(node')[v] = f /\ Fathers(node')[v] = node'[v].up
    BY <1>2 DEF E, PutU, Fathers
  <2>2. f # Null
    BY <1>3, <1>11
  <2> QED BY <1>1, <1>2, <2>1, <2>2 DEF InPlace
<1>18. Links(E, Lefts(node'), Rights(node'), Fathers(node'))
  BY <1>2, <1>12, Mirror
<1>19. DepthsKnown'
  <2>1. Deep(E, Rights(node'), Lefts(node'), RightDepths(node'), LeftDepths(node'), v)
    BY <1>2, <1>15 DEF LD, RD
  <2>2. Lefts(node') \in [E -> E \cup {Null}] /\ Rights(node') \in [E -> E \cup {Null}]
    BY <1>18 DEF Links
  <2>3. Deep(E, Lefts(node'), Rights(node'), LeftDepths(node'), RightDepths(node'), v)
    BY <2>1, <2>2, DepthMirror
  <2> QED BY <1>1, <1>2, <2>3 DEF DepthsKnown, MadeLefts, MadeRights
<1>20. B2 \in [E -> SUBSET E]
  BY <1>13 DEF Sorted
<1>21. PICK b \in [E -> SUBSET E] : b = B2
  BY <1>20
<1>22. InOrder(b)'
  <2>1. Sorted(E, Rights(node'), Lefts(node'), Fathers(node'), B2, before2, after2)
    BY <1>2, <1>13
  <2>2. Sorted(E, Lefts(node'), Rights(node'), Fathers(node'), B2, Befores(key, E), Afters(key, E))
    BY <2>1, Mirror DEF before2, after2
  <2> QED BY <1>1, <1>2, <1>14, <1>21, <2>2 DEF InOrder
<1> QED BY <1>2, <1>16, <1>17, <1>18, <1>19, <1>22 DEF TreeInv

\* Where a turn of the search comes to, the new element belongs as well.
LEMMA ReachedFacts ==
    ASSUME TreeInv, pc = "find",
           NEW below \in [DOMAIN node -> SUBSET DOMAIN node], InOrder(below)
    PROVE  /\ Reached \in DOMAIN node /\ father \in DOMAIN node
           /\ Path(DOMAIN node, Lefts(node), Rights(node), below, {n \in DOMAIN node : Less(key, n, New)},
                   {n \in DOMAIN node : Less(key, New, n)}, Reached)
           /\ key[New] >= key[Reached] /\ node[Reached].right # Null =>
                 /\ node[Reached].right \in DOMAIN node
                 /\ Path(DOMAIN node, Lefts(node), Rights(node), below,
                         {n \in DOMAIN node : Less(key, n, New)},
                         {n \in DOMAIN node : Less(key, New, n)}, node[Reached].right)
<1> DEFINE D == DOMAIN node
           L == Lefts(node)
           R == Rights(node)
           U == Fathers(node)
           low == {n \in D : Less(key, n, New)}
           high == {n \in D : Less(key, New, n)}
           before == Befores(key, D)
           after == Afters(key, D)
<1>1. /\ Links(D, L, R, U) /\ Ordered(D, before, after) /\ Sorted(D, L, R, U, below, before, after)
      /\ Path(D, L, R, below, low, high, father)
  BY NodeFacts DEF TreeInv, InOrder
<1>2. father \in D
  BY DEF TreeInv, TreeTyped
<1>3. \A n \in D : L[n] = node[n].left /\ R[n] = node[n].right
  BY NodeFacts
<1>4. \A n \in D : n < New /\ n \in Nat /\ New \in Nat /\ key[n] \in Int /\ key[New] \in Int
  <2> TAKE n \in D
  <2>1. Len(key) = Len(node) + 1 /\ key \in Seq(Keys)
    BY DEF TreeInv, TreeTyped
  <2>2. n \in 1..Len(key) /\ New \in 1..Len(key) /\ n < New /\ n \in Nat /\ New \in Nat
    BY <2>1, NodeFacts DEF New
  <2>3. key[n] \in Keys /\ key[New] \in Keys
    BY <2>1, <2>2, ElementOfSeq
  <2> QED BY <2>2, <2>3, BTreeAssumption
<1>5. \A n \in D : (key[New] < key[n] => n \in high) /\ (key[New] >= key[n] => n \in low)
  BY <1>4 DEF Less
<1>6. \A n \in D : L[n] \in D \cup {Null} /\ R[n] \in D \cup {Null}
  BY <1>1 DEF Links
<1> HIDE DEF D, L, R, U, low, high, before, after
<1>7. Reached \in D /\ Path(D, L, R, below, low, high, Reached)
  <2>1. CASE key[New] < key[father] /\ node[father].left # Null
    <3>1. Reached = L[father] /\ L[father] # Null /\ father \in high
      BY <1>2, <1>3, <1>5, <2>1 DEF Reached
    <3>2. Path(D, L, R, below, low, high, L[father])
      BY ONLY <1>1, <1>2, <3>1, PathDown, ZenonT(60)
    <3> QED BY <1>2, <1>6, <3>1, <3>2
  <2>2. CASE ~(key[New] < key[father] /\ node[father].left # Null)
    BY <1>1, <1>2, <2>2 DEF Reached
  <2> QED BY <2>1, <2>2
<1>8. ASSUME NEW r \in D, Path(D, L, R, below, low, high, r), key[New] >= key[r], node[r].right # Null
      PROVE  node[r].right \in D /\ Path(D, L, R, below, low, high, node[r].right)
  <2>1. R[r] # Null /\ r \in low /\ node[r].right = R[r]
    BY <1>3, <1>5, <1>8
  <2>2. /\ Links(D, R, L, U) /\ Ordered(D, after, before) /\ Sorted(D, R, L, U, below, after, before)
        /\ Path(D, R, L, below, high, low, r)
    BY <1>1, <1>8, Mirror, PathMirror
  <2>3. Path(D, R, L, below, high, low, R[r])
    BY ONLY <1>8, <2>1, <2>2, PathDown, ZenonT(60)
  <2>4. Path(D, L, R, below, low, high, R[r])
    BY <2>3, PathMirror
  <2> QED BY <1>6, <2>1, <2>4
<1>9. key[New] >= key[Reached] /\ node[Reached].right # Null =>
          node[Reached].right \in D /\ Path(D, L, R, below, low, high, node[Reached].right)
  BY <1>7, <1>8
<1> QED BY <1>2, <1>7, <1>9 DEF D, L, R, low, high

\* The search goes on below.
LEMMA DownStep ==
    ASSUME TreeInv, pc = "find", NEW n \in DOMAIN node, GoTo(n),
           NEW below \in [DOMAIN node -> SUBSET DOMAIN node], InOrder(below),
           Path(DOMAIN node, Lefts(node), Rights(node), below, {m \in DOMAIN node : Less(key, m, New)},
                {m \in DOMAIN node : Less(key, New, m)}, n)
    PROVE  TreeInv'
<1>1. node' = node /\ key' = key /\ pc' = "find" /\ father' = n /\ New' = New
  BY DEF GoTo, New
<1>2. TreeTyped'
  BY <1>1 DEF TreeInv, TreeTyped
<1>3. InPlace'
  BY <1>1 DEF InPlace
<1>4. Links(DOMAIN node, Lefts(node), Rights(node), Fathers(node))'
  BY <1>1 DEF TreeInv
<1>5. DepthsKnown'
  BY <1>1 DEF TreeInv, DepthsKnown, MadeLefts, MadeRights
<1>6. InOrder(below)'
  BY <1>1 DEF InOrder
<1> QED BY <1>1, <1>2, <1>3, <1>4, <1>5, <1>6 DEF TreeInv

\* A turn of the search goes on or ends.
LEMMA FindStep ==
    ASSUME TreeInv, Find
    PROVE  TreeInv'
<1>1. pc = "find"
  BY DEF Find
<1>2. PICK below \in [DOMAIN node -> SUBSET DOMAIN node] : InOrder(below)
  BY DEF TreeInv
<1>3. /\ Reached \in DOMAIN node /\ father \in DOMAIN node
      /\ Path(DOMAIN node, Lefts(node), Rights(node), below, {n \in DOMAIN node : Less(key, n, New)},
              {n \in DOMAIN node : Less(key, New, n)}, Reached)
      /\ key[New] >= key[Reached] /\ node[Reached].right # Null =>
            /\ node[Reached].right \in DOMAIN node
            /\ Path(DOMAIN node, Lefts(node), Rights(node), below,
                    {n \in DOMAIN node : Less(key, n, New)},
                    {n \in DOMAIN node : Less(key, New, n)}, node[Reached].right)
  BY <1>1, <1>2, ReachedFacts
<1>4. key[New] \in Int /\ key[Reached] \in Int
  <2>1. Len(key) = Len(node) + 1 /\ key \in Seq(Keys)
    BY <1>1 DEF TreeInv, TreeTyped
  <2>2. Reached \in 1..Len(key) /\ New \in 1..Len(key)
    BY <1>3, <2>1, NodeFacts DEF New
  <2>3. key[Reached] \in Keys /\ key[New] \in Keys
    BY <2>1, <2>2, ElementOfSeq
  <2> QED BY <2>3, BTreeAssumption
<1>5. CASE key[New] < key[Reached] /\ Reached # father
  <2>1. GoTo(Reached)
    BY <1>4, <1>5 DEF Find
  <2> QED BY <1>1, <1>2, <1>3, <2>1, DownStep
<1>6. CASE key[New] < key[Reached] /\ Reached = father
  <2>1. Attach("left", father)
    BY <1>4, <1>6 DEF Find
  <2>2. node[father].left = Null
    <3> SUFFICES ASSUME node[father].left # Null PROVE FALSE
      OBVIOUS
    <3>1. Reached = node[father].left
      BY <1>6 DEF Reached
    <3>2. Fathers(node)[father] = father /\ Lefts(node)[father] = father
      BY <1>3, <1>6, <3>1, NodeFacts DEF TreeInv, Links
    <3>3. Fathers(node)[father] # father
      <4>1. /\ Links(DOMAIN node, Lefts(node), Rights(node), Fathers(node))
            /\ Ordered(DOMAIN node, Befores(key, DOMAIN node), Afters(key, DOMAIN node))
            /\ Sorted(DOMAIN node, Lefts(node), Rights(node), Fathers(node), below,
                      Befores(key, DOMAIN node), Afters(key, DOMAIN node))
            /\ father \in DOMAIN node /\ Fathers(node)[father] # Null
        BY <1>2, <1>3, <3>2, NodeFacts DEF TreeInv, InOrder
      <4> QED BY ONLY <4>1, FatherApart, ZenonT(60)
    <3> QED BY <3>2, <3>3
  <2> QED BY <1>1, <1>2, <1>3, <1>6, <2>1, <2>2, HangLeftStep
<1>7. CASE key[New] >= key[Reached] /\ node[Reached].right # Null
  <2>1. GoTo(node[Reached].right)
    BY <1>4, <1>7 DEF Find
  <2> QED BY <1>1, <1>2, <1>3, <1>7, <2>1, DownStep
<1>8. CASE key[New] >= key[Reached] /\ node[Reached].right = Null
  <2>1. Attach("right", Reached)
    BY <1>4, <1>8 DEF Find
  <2> QED BY <1>1, <1>2, <1>3, <1>8, <2>1, HangRightStep
<1> QED BY <1>4, <1>5, <1>6, <1>7, <1>8

(***************************************************************************)
(* The loops that put the depths right.                                    *)
(***************************************************************************)
\* One turn of such a loop, on either side: the depth that is wrong is one element further
\* up, and none is where the loop ends.
LEMMA LiftKnown ==
    ASSUME NEW nd \in Seq(Elem), NEW L, NEW R, NEW U, Links(DOMAIN nd, L, R, U),
           NEW x \in DOMAIN nd, U[x] # Null, U[x] # x,
           Deep(DOMAIN nd, L, R, LeftDepths(nd), RightDepths(nd), x),
           NEW d, d = DepthOf(LeftDepths(nd), RightDepths(nd), x),
           NEW nd2, nd2 = IF L[U[x]] = x THEN SetLeft(nd, U[x], d) ELSE SetRight(nd, U[x], d)
    PROVE  /\ nd2 \in Seq(Elem) /\ DOMAIN nd2 = DOMAIN nd /\ Len(nd2) = Len(nd) /\ SameTree(nd, nd2)
           /\ Deep(DOMAIN nd, L, R, LeftDepths(nd2), RightDepths(nd2), U[x])
           /\ (IF L[U[x]] = x THEN LeftDepths(nd)[U[x]] ELSE RightDepths(nd)[U[x]]) = d \/ U[U[x]] = Null =>
                  Deep(DOMAIN nd, L, R, LeftDepths(nd2), RightDepths(nd2), Null)
<1> DEFINE D == DOMAIN nd
           LD == LeftDepths(nd)
           RD == RightDepths(nd)
           p == U[x]
<1>1. p \in D /\ (L[p] = x \/ R[p] = x)
  BY DEF Links
<1>2. d \in Nat /\ d = DepthOf(LD, RD, x) /\ d = DepthOf(RD, LD, x)
  BY DEF Deep, DepthOf, Larger
<1>3. L \in [D -> D \cup {Null}] /\ R \in [D -> D \cup {Null}]
  BY DEF Links
<1>4. CASE L[p] = x
  <2>1. nd2 = SetLeft(nd, p, d)
    BY <1>4
  <2>2. /\ nd2 \in Seq(Elem) /\ DOMAIN nd2 = DOMAIN nd /\ Len(nd2) = Len(nd) /\ SameTree(nd, nd2)
        /\ LeftDepths(nd2) = [LD EXCEPT ![p] = d] /\ RightDepths(nd2) = RD
    BY <1>1, <1>2, <2>1, SetLeftDepth
  <2>3. /\ Deep(D, L, R, [LD EXCEPT ![p] = d], RD, p)
        /\ LD[p] = d \/ U[p] = Null => Deep(D, L, R, [LD EXCEPT ![p] = d], RD, Null)
    <3> HIDE DEF D, LD, RD
    <3>1. /\ Links(D, L, R, U) /\ x \in D /\ Deep(D, L, R, LD, RD, x) /\ U[x] # Null /\ U[x] # x
          /\ L[U[x]] = x
      BY <1>4 DEF D, LD, RD
    <3>2. /\ Deep(D, L, R, [LD EXCEPT ![U[x]] = DepthOf(LD, RD, x)], RD, U[x])
          /\ LD[U[x]] = DepthOf(LD, RD, x) \/ U[U[x]] = Null =>
                 Deep(D, L, R, [LD EXCEPT ![U[x]] = DepthOf(LD, RD, x)], RD, Null)
      BY ONLY <3>1, LiftDeep, ZenonT(60)
    <3> QED BY <1>2, <3>2
  <2> QED BY <1>4, <2>2, <2>3
<1>5. CASE L[p] # x
  <2>1. nd2 = SetRight(nd, p, d) /\ R[p] = x
    BY <1>1, <1>5
  <2>2. /\ nd2 \in Seq(Elem) /\ DOMAIN nd2 = DOMAIN nd /\ Len(nd2) = Len(nd) /\ SameTree(nd, nd2)
        /\ RightDepths(nd2) = [RD EXCEPT ![p] = d] /\ LeftDepths(nd2) = LD
    BY <1>1, <1>2, <2>1, SetRightDepth, SMTT(30)
  <2>3. /\ Deep(D, R, L, [RD EXCEPT ![p] = d], LD, p)
        /\ RD[p] = d \/ U[p] = Null => Deep(D, R, L, [RD EXCEPT ![p] = d], LD, Null)
    <3> HIDE DEF D, LD, RD
    <3>1. /\ Links(D, R, L, U) /\ x \in D /\ Deep(D, R, L, RD, LD, x) /\ U[x] # Null /\ U[x] # x
          /\ R[U[x]] = x
      BY <1>3, <2>1, Mirror, DepthMirror DEF D, LD, RD
    <3>2. /\ Deep(D, R, L, [RD EXCEPT ![U[x]] = DepthOf(RD, LD, x)], LD, U[x])
          /\ RD[U[x]] = DepthOf(RD, LD, x) \/ U[U[x]] = Null =>
                 Deep(D, R, L, [RD EXCEPT ![U[x]] = DepthOf(RD, LD, x)], LD, Null)
      BY ONLY <3>1, LiftDeep, ZenonT(60)
    <3> QED BY <1>2, <3>2
  <2>4. /\ Deep(D, L, R, LD, [RD EXCEPT ![p] = d], p)
        /\ RD[p] = d \/ U[p] = Null => Deep(D, L, R, LD, [RD EXCEPT ![p] = d], Null)
    BY <1>3, <2>3, DepthMirror
  <2> QED BY <1>5, <2>2, <2>4
<1> QED BY <1>4, <1>5

\* Above a new element the depths are those of the tree as it is ...
LEMMA NewDepthsStep ==
    ASSUME TreeInv, NewDepths
    PROVE  TreeInv'
<1> DEFINE D == DOMAIN node
           p == node[child].up
           d == Depth(from)
           left == node[p].left = child
<1>1. /\ pc = "depths" /\ child = from /\ child \in D /\ Fathers(node)[child] # Null /\ father \in D
      /\ key' = key /\ father' = father /\ added' = added /\ top' = top
  BY DEF NewDepths, Lift, TreeInv, InPlace, TreeTyped
<1>2. /\ node[child].up = Fathers(node)[child] /\ p \in D /\ Fathers(node)[p] = node[p].up
      /\ Lefts(node)[p] = node[p].left /\ d = DepthOf(LeftDepths(node), RightDepths(node), from)
      /\ LeftDepths(node)[p] = node[p].left_depth /\ RightDepths(node)[p] = node[p].right_depth
  BY <1>1, NodeFacts DEF Depth, DepthOf
<1>3. node' = IF left THEN SetLeft(node, p, d) ELSE SetRight(node, p, d)
  BY DEF NewDepths, Lift, SetLeft, SetRight
<1>4. IF (IF left THEN node[p].left_depth ELSE node[p].right_depth) = d \/ node[p].up = Null
      THEN pc' = "balance" ELSE child' = p /\ from' = p /\ pc' = "depths"
  <2>1. CASE left
    BY <1>1, <2>1 DEF NewDepths, Lift
  <2>2. CASE ~left
    BY <1>1, <2>2 DEF NewDepths, Lift
  <2> QED BY <2>1, <2>2
<1>5. PICK below \in [DOMAIN node -> SUBSET DOMAIN node] : InOrder(below)
  BY DEF TreeInv
<1>6. /\ Links(D, Lefts(node), Rights(node), Fathers(node))
      /\ Ordered(D, Befores(key, D), Afters(key, D))
      /\ Sorted(D, Lefts(node), Rights(node), Fathers(node), below, Befores(key, D), Afters(key, D))
      /\ Deep(D, Lefts(node), Rights(node), LeftDepths(node), RightDepths(node), from)
  BY <1>1, <1>5, NodeFacts DEF TreeInv, InOrder, DepthsKnown, MadeLefts, MadeRights
<1>7. Fathers(node)[child] # child
  BY <1>1, <1>6, FatherApart
<1>8. /\ node' \in Seq(Elem) /\ DOMAIN node' = D /\ Len(node') = Len(node) /\ SameTree(node, node')
      /\ Deep(D, Lefts(node), Rights(node), LeftDepths(node'), RightDepths(node'), p)
      /\ (IF left THEN LeftDepths(node)[p] ELSE RightDepths(node)[p]) = d \/ Fathers(node)[p] = Null =>
             Deep(D, Lefts(node), Rights(node), LeftDepths(node'), RightDepths(node'), Null)
  <2> DEFINE L == Lefts(node)
             R == Rights(node)
             U == Fathers(node)
             nd2 == node'
  <2>1. /\ node \in Seq(Elem) /\ Links(DOMAIN node, L, R, U) /\ from \in DOMAIN node
        /\ U[from] # Null /\ U[from] # from
        /\ Deep(DOMAIN node, L, R, LeftDepths(node), RightDepths(node), from)
        /\ d = DepthOf(LeftDepths(node), RightDepths(node), from)
        /\ nd2 = IF L[U[from]] = from THEN SetLeft(node, U[from], d) ELSE SetRight(node, U[from], d)
    BY <1>1, <1>2, <1>3, <1>6, <1>7 DEF TreeInv, TreeTyped
  <2>2. U[from] = p /\ (L[U[from]] = from <=> left)
    BY <1>1, <1>2
  <2> HIDE DEF D, p, d, left, L, R, U, nd2
  <2>3. /\ nd2 \in Seq(Elem) /\ DOMAIN nd2 = DOMAIN node /\ Len(nd2) = Len(node) /\ SameTree(node, nd2)
        /\ Deep(DOMAIN node, L, R, LeftDepths(nd2), RightDepths(nd2), U[from])
        /\ (IF L[U[from]] = from THEN LeftDepths(node)[U[from]] ELSE RightDepths(node)[U[from]]) = d
               \/ U[U[from]] = Null =>
               Deep(DOMAIN node, L, R, LeftDepths(nd2), RightDepths(nd2), Null)
    BY <2>1, LiftKnown
  <2> QED BY <2>2, <2>3 DEF D, L, R, U, nd2
<1>9. pc' \in {"balance", "depths"} /\ (pc' = "depths" => child' = p /\ from' = p /\ Fathers(node)[p] # Null)
  BY <1>2, <1>4
<1>10. TreeTyped'
  BY <1>1, <1>8, <1>9 DEF TreeInv, TreeTyped
<1>11. InPlace'
  BY <1>2, <1>8, <1>9 DEF InPlace, SameTree
<1>12. Links(D, Lefts(node'), Rights(node'), Fathers(node'))
  BY <1>6, <1>8 DEF SameTree
<1>13. DepthsKnown'
  <2>1. pc' = "balance" => Deep(D, Lefts(node), Rights(node), LeftDepths(node'), RightDepths(node'), Null)
    BY <1>2, <1>4, <1>8
  <2> QED BY <1>8, <1>9, <2>1 DEF DepthsKnown, MadeLefts, MadeRights, SameTree
<1>14. InOrder(below)'
  BY <1>1, <1>5, <1>8, <1>9 DEF InOrder, SameTree
<1> QED BY <1>8, <1>10, <1>11, <1>12, <1>13, <1>14 DEF TreeInv

(***************************************************************************)
(* A correction is started.                                                *)
(***************************************************************************)
\* From then on the depths are right in the tree that the rotation makes, except above the
\* element that comes up: here for a child on the left ...
LEMMA CorrectLeftStep ==
    ASSUME TreeInv, StartCorrection, Skew > 0
    PROVE  TreeInv'
<1> DEFINE D == DOMAIN node
           f == father
           a == node[f].left
           L == Lefts(node)
           R == Rights(node)
           U == Fathers(node)
           LD == LeftDepths(node)
           RD == RightDepths(node)
           d == RD[a]
           e == 1 + Larger(RD[a], RD[f])
           L2 == TurnL(D, L, R, U, f)
           R2 == TurnR(D, L, R, U, f)
           U2 == TurnU(D, L, R, U, f)
<1>1. /\ pc = "balance" /\ f \in D /\ key' = key /\ father' = f /\ top' = top
      /\ Correct("left", "left_depth", "right", "right_depth")
  <2>1. pc = "balance" /\ f \in D /\ key' = key /\ father' = f /\ top' = top
    BY DEF StartCorrection, TreeInv, TreeTyped
  <2>2. Skew \in Int /\ Skew > 0
    BY <2>1, NodeFacts DEF Skew, Elem
  <2> QED BY <2>1, <2>2 DEF StartCorrection
<1>2. /\ added' = a /\ child' = f /\ from' = a
      /\ pc' = IF node[f].up = Null THEN "turn" ELSE "lift"
  BY <1>1 DEF Correct
<1>3. /\ a = L[f] /\ U[f] = node[f].up
      /\ node[f].left_depth = LD[f] /\ node[f].right_depth = RD[f]
  BY <1>1, NodeFacts
<1>4. Deep(D, L, R, LD, RD, Null)
  <2>1. Deep(D, Lefts(node), Rights(node), LeftDepths(node), RightDepths(node), Null)
    BY <1>1 DEF TreeInv, DepthsKnown, MadeLefts, MadeRights
  <2> QED BY <2>1, DepthMirror DEF TreeInv, Links
<1>5. L[f] # Null
  <2>1. LD[f] = DepthOf(LD, RD, L[f]) /\ LD[f] \in Nat /\ RD[f] \in Nat
    BY <1>1, <1>4 DEF Deep
  <2>2. LD[f] > RD[f]
    BY <1>3, <2>1 DEF Skew
  <2> QED BY <2>1, <2>2 DEF DepthOf
<1>6. PICK below \in [DOMAIN node -> SUBSET DOMAIN node] : InOrder(below)
  BY DEF TreeInv
<1>7. PICK before, after :
          /\ Links(D, L, R, U) /\ Ordered(D, before, after)
          /\ Sorted(D, L, R, U, below, before, after)
  BY <1>6, NodeFacts DEF TreeInv, InOrder
<1>8. a \in D /\ a # f /\ node[a].right_depth = RD[a] /\ d \in Nat /\ e \in Nat
  <2>1. L[f] \in D /\ L[f] # f
    <3> HIDE DEF D, L, R, U, f
    <3> QED BY <1>1, <1>5, <1>7, TurnApart
  <2>2. node[a].right_depth = RD[a]
    BY <1>3, <2>1, NodeFacts
  <2>3. RD[a] \in Nat /\ RD[f] \in Nat
    BY <1>1, <1>3, <1>4, <2>1 DEF Deep
  <2> QED BY <1>3, <2>1, <2>2, <2>3 DEF Larger
<1>9. node' = SetRight(SetLeft(node, f, d), a, e)
  <2>1. node' = [node EXCEPT ![f]["left_depth"] = node[a].right_depth,
                             ![a]["right_depth"] = 1 + Larger(node[a].right_depth, node[f].right_depth)]
    BY <1>1 DEF Correct
  <2>2. node[a].right_depth = d /\ node[f].right_depth = RD[f]
    BY <1>3, <1>8
  <2> QED BY <2>1, <2>2 DEF SetLeft, SetRight
<1>10. /\ node' \in Seq(Elem) /\ DOMAIN node' = D /\ Len(node') = Len(node) /\ SameTree(node, node')
       /\ LeftDepths(node') = [LD EXCEPT ![f] = d]
       /\ RightDepths(node') = [RD EXCEPT ![a] = e]
  <2>1. node \in Seq(Elem) /\ f \in DOMAIN node /\ a \in DOMAIN node /\ d \in Nat /\ e \in Nat
    BY <1>1, <1>8 DEF TreeInv, TreeTyped
  <2> HIDE DEF a, d, e
  <2> QED BY <1>9, <2>1, CorrectLeft
<1>11. Deep(D, L2, R2, LeftDepths(node'), RightDepths(node'), a)
  <2> HIDE DEF D, L, R, U, LD, RD
  <2>1. Deep(D, TurnL(D, L, R, U, f), TurnR(D, L, R, U, f), [LD EXCEPT ![f] = RD[L[f]]],
             [RD EXCEPT ![L[f]] = 1 + Larger(RD[L[f]], RD[f])], L[f])
    BY <1>1, <1>4, <1>5, <1>7, CorrectDeep
  <2>2. [RD EXCEPT ![a] = e] = [RD EXCEPT ![L[f]] = 1 + Larger(RD[L[f]], RD[f])]
    BY <1>3
  <2>3. [LD EXCEPT ![f] = d] = [LD EXCEPT ![f] = RD[L[f]]]
    BY <1>3
  <2> QED BY <1>3, <1>10, <2>1, <2>2, <2>3
<1>12. Links(D, L2, R2, U2) /\ U2[a] = U[f]
  <2> HIDE DEF D, L, R, U
  <2>1. Links(D, TurnL(D, L, R, U, f), TurnR(D, L, R, U, f), TurnU(D, L, R, U, f))
    BY <1>1, <1>5, <1>7, TurnLinks
  <2>2. TurnU(D, L, R, U, f)[L[f]] = U[f]
    BY <1>1, <1>5, <1>7, TurnElsewhere
  <2> QED BY <1>3, <2>1, <2>2
<1>13. U[f] = Null => Deep(D, L2, R2, LeftDepths(node'), RightDepths(node'), Null)
  <2> HIDE DEF D, U, L2, R2, U2, a
  <2> QED BY <1>8, <1>11, <1>12, DeepRoot
<1>14. TreeTyped'
  BY <1>1, <1>2, <1>10 DEF TreeInv, TreeTyped
<1>15. InPlace'
  BY <1>1, <1>2, <1>3, <1>8, <1>10 DEF InPlace, SameTree
<1>16. Links(D, Lefts(node'), Rights(node'), Fathers(node'))
  BY <1>10 DEF SameTree, TreeInv
<1>17. DepthsKnown'
  <2>1. Leftward'
    BY <1>1, <1>2, <1>3, <1>5, <1>7, <1>10 DEF Leftward, SameTree, Links
  <2>2. MadeLefts' = L2 /\ MadeRights' = R2
    BY <1>1, <1>2, <1>10, <2>1 DEF MadeLefts, MadeRights, SameTree
  <2>3. /\ Deep(D, L2, R2, LeftDepths(node'), RightDepths(node'), a)
        /\ U[f] = Null => Deep(D, L2, R2, LeftDepths(node'), RightDepths(node'), Null)
    BY <1>11, <1>13
  <2>4. pc' = "lift" \/ (pc' = "turn" /\ U[f] = Null)
    BY <1>2, <1>3
  <2> QED BY <1>2, <1>10, <2>2, <2>3, <2>4 DEF DepthsKnown
<1>18. InOrder(below)'
  BY <1>1, <1>2, <1>6, <1>10 DEF InOrder, SameTree
<1> QED BY <1>10, <1>14, <1>15, <1>16, <1>17, <1>18 DEF TreeInv

\* ... and on the right.
LEMMA CorrectRightStep ==
    ASSUME TreeInv, StartCorrection, Skew < 0
    PROVE  TreeInv'
<1> DEFINE D == DOMAIN node
           f == father
           a == node[f].right
           L == Rights(node)
           R == Lefts(node)
           U == Fathers(node)
           LD == RightDepths(node)
           RD == LeftDepths(node)
           d == RD[a]
           e == 1 + Larger(RD[a], RD[f])
           L2 == TurnL(D, L, R, U, f)
           R2 == TurnR(D, L, R, U, f)
           U2 == TurnU(D, L, R, U, f)
<1>1. /\ pc = "balance" /\ f \in D /\ key' = key /\ father' = f /\ top' = top
      /\ Correct("right", "right_depth", "left", "left_depth")
  <2>1. pc = "balance" /\ f \in D /\ key' = key /\ father' = f /\ top' = top
    BY DEF StartCorrection, TreeInv, TreeTyped
  <2>2. Skew \in Int /\ Skew < 0
    BY <2>1, NodeFacts DEF Skew, Elem
  <2> QED BY <2>1, <2>2 DEF StartCorrection
<1>2. /\ added' = a /\ child' = f /\ from' = a
      /\ pc' = IF node[f].up = Null THEN "turn" ELSE "lift"
  BY <1>1 DEF Correct
<1>3. /\ a = L[f] /\ U[f] = node[f].up
      /\ node[f].right_depth = LD[f] /\ node[f].left_depth = RD[f]
  BY <1>1, NodeFacts
<1>4. Deep(D, L, R, LD, RD, Null)
  <2>1. Deep(D, Lefts(node), Rights(node), LeftDepths(node), RightDepths(node), Null)
    BY <1>1 DEF TreeInv, DepthsKnown, MadeLefts, MadeRights
  <2> QED BY <2>1, DepthMirror DEF TreeInv, Links
<1>5. L[f] # Null
  <2>1. LD[f] = DepthOf(LD, RD, L[f]) /\ LD[f] \in Nat /\ RD[f] \in Nat
    BY <1>1, <1>4 DEF Deep
  <2>2. LD[f] > RD[f]
    BY <1>3, <2>1 DEF Skew
  <2> QED BY <2>1, <2>2 DEF DepthOf
<1>6. PICK below \in [DOMAIN node -> SUBSET DOMAIN node] : InOrder(below)
  BY DEF TreeInv
<1>7. PICK before, after :
          /\ Links(D, L, R, U) /\ Ordered(D, before, after)
          /\ Sorted(D, L, R, U, below, before, after)
  <2>1. /\ Links(D, Lefts(node), Rights(node), U) /\ Ordered(D, Befores(key, D), Afters(key, D))
        /\ Sorted(D, Lefts(node), Rights(node), U, below, Befores(key, D), Afters(key, D))
    BY <1>6, NodeFacts DEF TreeInv, InOrder
  <2>2. /\ Links(D, L, R, U) /\ Ordered(D, Afters(key, D), Befores(key, D))
        /\ Sorted(D, L, R, U, below, Afters(key, D), Befores(key, D))
    BY <2>1, Mirror
  <2> QED BY <2>2
<1>8. a \in D /\ a # f /\ node[a].left_depth = RD[a] /\ d \in Nat /\ e \in Nat
  <2>1. L[f] \in D /\ L[f] # f
    <3> HIDE DEF D, L, R, U, f
    <3> QED BY <1>1, <1>5, <1>7, TurnApart
  <2>2. node[a].left_depth = RD[a]
    BY <1>3, <2>1, NodeFacts
  <2>3. RD[a] \in Nat /\ RD[f] \in Nat
    BY <1>1, <1>3, <1>4, <2>1 DEF Deep
  <2> QED BY <1>3, <2>1, <2>2, <2>3 DEF Larger
<1>9. node' = SetLeft(SetRight(node, f, d), a, e)
  <2>1. node' = [node EXCEPT ![f]["right_depth"] = node[a].left_depth,
                             ![a]["left_depth"] = 1 + Larger(node[a].left_depth, node[f].left_depth)]
    BY <1>1 DEF Correct
  <2>2. node[a].left_depth = d /\ node[f].left_depth = RD[f]
    BY <1>3, <1>8
  <2> QED BY <2>1, <2>2 DEF SetLeft, SetRight
<1>10. /\ node' \in Seq(Elem) /\ DOMAIN node' = D /\ Len(node') = Len(node) /\ SameTree(node, node')
       /\ RightDepths(node') = [LD EXCEPT ![f] = d]
       /\ LeftDepths(node') = [RD EXCEPT ![a] = e]
  <2>1. node \in Seq(Elem) /\ f \in DOMAIN node /\ a \in DOMAIN node /\ d \in Nat /\ e \in Nat
    BY <1>1, <1>8 DEF TreeInv, TreeTyped
  <2> HIDE DEF a, d, e
  <2> QED BY <1>9, <2>1, CorrectRight
<1>11. Deep(D, L2, R2, RightDepths(node'), LeftDepths(node'), a)
  <2> HIDE DEF D, L, R, U, LD, RD
  <2>1. Deep(D, TurnL(D, L, R, U, f), TurnR(D, L, R, U, f), [LD EXCEPT ![f] = RD[L[f]]],
             [RD EXCEPT ![L[f]] = 1 + Larger(RD[L[f]], RD[f])], L[f])
    BY <1>1, <1>4, <1>5, <1>7, CorrectDeep
  <2>2. [RD EXCEPT ![a] = e] = [RD EXCEPT ![L[f]] = 1 + Larger(RD[L[f]], RD[f])]
    BY <1>3
  <2>3. [LD EXCEPT ![f] = d] = [LD EXCEPT ![f] = RD[L[f]]]
    BY <1>3
  <2> QED BY <1>3, <1>10, <2>1, <2>2, <2>3
<1>12. Links(D, L2, R2, U2) /\ U2[a] = U[f]
  <2> HIDE DEF D, L, R, U
  <2>1. Links(D, TurnL(D, L, R, U, f), TurnR(D, L, R, U, f), TurnU(D, L, R, U, f))
    BY <1>1, <1>5, <1>7, TurnLinks
  <2>2. TurnU(D, L, R, U, f)[L[f]] = U[f]
    BY <1>1, <1>5, <1>7, TurnElsewhere
  <2> QED BY <1>3, <2>1, <2>2
<1>13. U[f] = Null => Deep(D, L2, R2, RightDepths(node'), LeftDepths(node'), Null)
  <2> HIDE DEF D, U, L2, R2, U2, a
  <2> QED BY <1>8, <1>11, <1>12, DeepRoot
<1>14. TreeTyped'
  BY <1>1, <1>2, <1>10 DEF TreeInv, TreeTyped
<1>15. InPlace'
  BY <1>1, <1>2, <1>3, <1>8, <1>10 DEF InPlace, SameTree
<1>16. Links(D, Lefts(node'), Rights(node'), Fathers(node'))
  BY <1>10 DEF SameTree, TreeInv
<1>17. DepthsKnown'
  <2>1. ~Leftward'
    BY <1>1, <1>2, <1>3, <1>5, <1>7, <1>10 DEF Leftward, SameTree, Links
  <2>2. MadeLefts' = R2 /\ MadeRights' = L2
    BY <1>1, <1>2, <1>10, <2>1 DEF MadeLefts, MadeRights, SameTree
  <2>3. /\ Deep(D, R2, L2, LeftDepths(node'), RightDepths(node'), a)
        /\ U[f] = Null => Deep(D, R2, L2, LeftDepths(node'), RightDepths(node'), Null)
    <3>1. L2 \in [D -> D \cup {Null}] /\ R2 \in [D -> D \cup {Null}]
      BY <1>12 DEF Links
    <3> HIDE DEF D, L2, R2, a, f, U
    <3> QED BY <1>11, <1>13, <3>1, DepthMirror
  <2>4. pc' = "lift" \/ (pc' = "turn" /\ U[f] = Null)
    BY <1>2, <1>3
  <2> QED BY <1>2, <1>10, <2>2, <2>3, <2>4 DEF DepthsKnown
<1>18. InOrder(below)'
  BY <1>1, <1>2, <1>6, <1>10 DEF InOrder, SameTree
<1> QED BY <1>10, <1>14, <1>15, <1>16, <1>17, <1>18 DEF TreeInv

\* A correction starts with the deeper side, so there is a child to come up.
LEMMA StartCorrectionStep ==
    ASSUME TreeInv, StartCorrection
    PROVE  TreeInv'
<1>1. father \in DOMAIN node /\ Skew \notin {-1, 0, 1}
  BY DEF StartCorrection, Balanced, TreeInv, TreeTyped
<1>2. Skew \in Int
  BY <1>1, NodeFacts DEF Skew, Elem
<1>3. Skew > 0 \/ Skew < 0
  BY <1>1, <1>2
<1> QED BY <1>3, CorrectLeftStep, CorrectRightStep

(***************************************************************************)
(* The rotation that has been started: the tree that it makes, and what is *)
(* above it.                                                               *)
(***************************************************************************)
\* It is a tree in order with one root; from the rotated elements up it differs from the
\* old one only in which of the two is the child.
LEMMA MadeTree ==
    ASSUME TreeInv, pc \in {"lift", "turn"},
           NEW below \in [DOMAIN node -> SUBSET DOMAIN node], InOrder(below)
    PROVE  /\ Links(DOMAIN node, MadeLefts, MadeRights, MadeFathers)
           /\ \E b \in [DOMAIN node -> SUBSET DOMAIN node] :
                 /\ Sorted(DOMAIN node, MadeLefts, MadeRights, MadeFathers, b,
                           Befores(key, DOMAIN node), Afters(key, DOMAIN node))
                 /\ \A n \in DOMAIN node : MadeFathers[n] = Null => b[n] = DOMAIN node
           /\ MadeFathers[added] = Fathers(node)[father]
           /\ Fathers(node)[father] # Null =>
                 (MadeLefts[Fathers(node)[father]] = added <=> Lefts(node)[Fathers(node)[father]] = father)
           /\ \A x \in DOMAIN node : father \in below[x] /\ x # father =>
                 /\ MadeFathers[x] = Fathers(node)[x]
                 /\ Fathers(node)[x] # Null =>
                       (MadeLefts[Fathers(node)[x]] = x <=> Lefts(node)[Fathers(node)[x]] = x)
<1> DEFINE D == DOMAIN node
           U == Fathers(node)
           f == father
           before == Befores(key, D)
           after == Afters(key, D)
<1>1. /\ pc \in {"lift", "turn"} /\ added \in D /\ added \in {Lefts(node)[f], Rights(node)[f]} /\ added # Null
  BY NodeFacts DEF TreeInv, InPlace
<1>2. f \in D
  BY DEF TreeInv, TreeTyped
<1>3. /\ Links(D, Lefts(node), Rights(node), U) /\ Ordered(D, before, after)
      /\ Sorted(D, Lefts(node), Rights(node), U, below, before, after)
  BY NodeFacts DEF TreeInv, InOrder
<1>4. \A n \in D : U[n] = Null => below[n] = D
  BY DEF InOrder
<1> HIDE DEF before, after
<1>5. /\ Links(D, MadeLefts, MadeRights, MadeFathers)
      /\ \E b \in [D -> SUBSET D] : /\ Sorted(D, MadeLefts, MadeRights, MadeFathers, b, before, after)
                                    /\ \A n \in D : MadeFathers[n] = Null => b[n] = D
      /\ MadeFathers[added] = U[f]
      /\ U[f] # Null => (MadeLefts[U[f]] = added <=> Lefts(node)[U[f]] = f)
      /\ \A x \in D : f \in below[x] /\ x # f =>
            MadeFathers[x] = U[x] /\ (U[x] # Null => (MadeLefts[U[x]] = x <=> Lefts(node)[U[x]] = x))
  <2>1. CASE Leftward
    <3> DEFINE L == Lefts(node)
               R == Rights(node)
               bf == before
               af == after
               L2 == TurnL(D, L, R, U, f)
               R2 == TurnR(D, L, R, U, f)
               U2 == TurnU(D, L, R, U, f)
               B2 == TurnBelow(D, L, R, below, f)
    <3>1. MadeLefts = L2 /\ MadeRights = R2 /\ MadeFathers = U2 /\ L[f] = added /\ L[f] # Null
      BY <1>1, <1>2, <2>1 DEF MadeLefts, MadeRights, MadeFathers, Leftward
    <3>2. Links(D, L, R, U) /\ Ordered(D, bf, af) /\ Sorted(D, L, R, U, below, bf, af)
      BY <1>3, Mirror
    <3> HIDE DEF D, L, R, U, f, bf, af
    <3>3. Links(D, L2, R2, U2)
      BY <1>2, <3>1, <3>2, TurnLinks
    <3>4. Sorted(D, L2, R2, U2, B2, bf, af)
      BY <1>2, <3>1, <3>2, TurnSorted
    <3>5. \A n \in D : U2[n] = Null => B2[n] = D
      BY <1>2, <1>4, <3>1, <3>2, TurnRoots
    <3>6. /\ U2[L[f]] = U[f]
          /\ U[f] # Null => (L2[U[f]] = L[f] <=> L[U[f]] = f) /\ (R2[U[f]] = L[f] <=> R[U[f]] = f)
          /\ \A x \in D : f \in below[x] /\ x # f =>
                /\ U2[x] = U[x]
                /\ U[x] # Null => (L2[U[x]] = x <=> L[U[x]] = x) /\ (R2[U[x]] = x <=> R[U[x]] = x)
      BY <1>2, <3>1, <3>2, TurnElsewhere
    <3> HIDE DEF L2, R2, U2, B2
    <3>7. B2 \in [D -> SUBSET D]
      BY <3>4 DEF Sorted
    <3>8. /\ Links(D, MadeLefts, MadeRights, MadeFathers)
          /\ Sorted(D, MadeLefts, MadeRights, MadeFathers, B2, before, after)
      BY <3>1, <3>3, <3>4, Mirror DEF bf, af
    <3> QED BY <3>1, <3>5, <3>6, <3>7, <3>8 DEF L, R
  <2>2. CASE ~Leftward
    <3> DEFINE L == Rights(node)
               R == Lefts(node)
               bf == after
               af == before
               L2 == TurnL(D, L, R, U, f)
               R2 == TurnR(D, L, R, U, f)
               U2 == TurnU(D, L, R, U, f)
               B2 == TurnBelow(D, L, R, below, f)
    <3>1. MadeRights = L2 /\ MadeLefts = R2 /\ MadeFathers = U2 /\ L[f] = added /\ L[f] # Null
      BY <1>1, <1>2, <2>2 DEF MadeLefts, MadeRights, MadeFathers, Leftward
    <3>2. Links(D, L, R, U) /\ Ordered(D, bf, af) /\ Sorted(D, L, R, U, below, bf, af)
      BY <1>3, Mirror
    <3> HIDE DEF D, L, R, U, f, bf, af
    <3>3. Links(D, L2, R2, U2)
      BY <1>2, <3>1, <3>2, TurnLinks
    <3>4. Sorted(D, L2, R2, U2, B2, bf, af)
      BY <1>2, <3>1, <3>2, TurnSorted
    <3>5. \A n \in D : U2[n] = Null => B2[n] = D
      BY <1>2, <1>4, <3>1, <3>2, TurnRoots
    <3>6. /\ U2[L[f]] = U[f]
          /\ U[f] # Null => (L2[U[f]] = L[f] <=> L[U[f]] = f) /\ (R2[U[f]] = L[f] <=> R[U[f]] = f)
          /\ \A x \in D : f \in below[x] /\ x # f =>
                /\ U2[x] = U[x]
                /\ U[x] # Null => (L2[U[x]] = x <=> L[U[x]] = x) /\ (R2[U[x]] = x <=> R[U[x]] = x)
      BY <1>2, <3>1, <3>2, TurnElsewhere
    <3> HIDE DEF L2, R2, U2, B2
    <3>7. B2 \in [D -> SUBSET D]
      BY <3>4 DEF Sorted
    <3>8. /\ Links(D, MadeLefts, MadeRights, MadeFathers)
          /\ Sorted(D, MadeLefts, MadeRights, MadeFathers, B2, before, after)
      BY <3>1, <3>3, <3>4, Mirror DEF bf, af
    <3> QED BY <3>1, <3>5, <3>6, <3>7, <3>8 DEF L, R
  <2> QED BY <2>1, <2>2
<1> QED BY <1>5 DEF before, after

\* Above a rotation they are those of the tree that the rotation makes, although the
\* pointers are the old ones still.
LEMMA LiftedDepthsStep ==
    ASSUME TreeInv, LiftedDepths
    PROVE  TreeInv'
<1> DEFINE D == DOMAIN node
           L == Lefts(node)
           U == Fathers(node)
           p == node[child].up
           d == Depth(from)
           left == node[p].left = child
           L2 == MadeLefts
           R2 == MadeRights
           U2 == MadeFathers
<1>1. /\ pc = "lift" /\ child \in D /\ U[child] # Null /\ father \in D
      /\ key' = key /\ father' = father /\ added' = added /\ top' = top
      /\ added \in D /\ added \in {L[father], Rights(node)[father]}
  BY DEF LiftedDepths, Lift, TreeInv, InPlace, TreeTyped
<1>2. PICK below \in [DOMAIN node -> SUBSET DOMAIN node] : InOrder(below)
  BY DEF TreeInv
<1>3. /\ Links(D, L, Rights(node), U)
      /\ Ordered(D, Befores(key, D), Afters(key, D))
      /\ Sorted(D, L, Rights(node), U, below, Befores(key, D), Afters(key, D))
      /\ Deep(D, L2, R2, LeftDepths(node), RightDepths(node), from)
      /\ \/ from = added /\ child = father
         \/ from = child /\ child # father /\ father \in below[child]
  BY <1>1, <1>2, NodeFacts DEF TreeInv, InOrder, DepthsKnown
<1>4. from \in D /\ p = U[child] /\ p \in D /\ U[p] = node[p].up /\ L[p] = node[p].left
  BY <1>1, <1>3, NodeFacts
<1>5. /\ d = DepthOf(LeftDepths(node), RightDepths(node), from)
      /\ LeftDepths(node)[p] = node[p].left_depth /\ RightDepths(node)[p] = node[p].right_depth
  BY <1>4, NodeFacts DEF Depth, DepthOf
<1>6. /\ Links(D, L2, R2, U2)
      /\ \E b \in [D -> SUBSET D] :
            /\ Sorted(D, L2, R2, U2, b, Befores(key, D), Afters(key, D))
            /\ \A n \in D : U2[n] = Null => b[n] = D
      /\ U2[added] = U[father]
      /\ U[father] # Null => (L2[U[father]] = added <=> L[U[father]] = father)
      /\ \A x \in D : father \in below[x] /\ x # father =>
            /\ U2[x] = U[x]
            /\ U[x] # Null => (L2[U[x]] = x <=> L[U[x]] = x)
  <2> HIDE DEF L2, R2, U2
  <2> QED BY <1>1, <1>2, MadeTree DEF L2, R2, U2
<1>7. U2[from] = p /\ (L2[p] = from <=> left)
  BY <1>1, <1>3, <1>4, <1>6
<1>8. father \in below[p] /\ p # father
  <2> HIDE DEF D, L, U, p
  <2>1. U[child] \in D /\ U[child] # child /\ below[child] \subseteq below[U[child]] /\ child \in below[child]
    BY <1>1, <1>3, FatherApart
  <2>2. father \in below[child]
    BY <1>3, <2>1
  <2>3. p # father
    <3> SUFFICES ASSUME p = father PROVE FALSE
      OBVIOUS
    <3>1. child \in below[father]
      BY <1>4, <2>1
    <3>2. child = father
      BY <1>1, <1>3, <2>2, <3>1, BelowOnce
    <3> QED BY <1>4, <2>1, <3>2
  <2> QED BY <1>4, <2>1, <2>2, <2>3
<1>9. U2[p] = U[p]
  BY <1>4, <1>6, <1>8
<1>10. U2[from] # from
  <2>1. PICK b \in [D -> SUBSET D] : Sorted(D, L2, R2, U2, b, Befores(key, D), Afters(key, D))
    BY <1>6
  <2>2. U2[from] # Null
    BY <1>1, <1>4, <1>7
  <2>3. Links(D, L2, R2, U2)
    BY <1>6
  <2> HIDE DEF D, L2, R2, U2
  <2> QED BY <1>3, <1>4, <2>1, <2>2, <2>3, FatherApart
<1>11. node' = IF left THEN SetLeft(node, p, d) ELSE SetRight(node, p, d)
  BY DEF LiftedDepths, Lift, SetLeft, SetRight
<1>12. IF (IF left THEN node[p].left_depth ELSE node[p].right_depth) = d \/ node[p].up = Null
       THEN pc' = "turn" /\ child' = child /\ from' = from
       ELSE child' = p /\ from' = p /\ pc' = "lift"
  <2>1. CASE left
    BY <1>1, <2>1 DEF LiftedDepths, Lift
  <2>2. CASE ~left
    BY <1>1, <2>2 DEF LiftedDepths, Lift
  <2> QED BY <2>1, <2>2
<1>13. /\ node' \in Seq(Elem) /\ DOMAIN node' = D /\ Len(node') = Len(node) /\ SameTree(node, node')
       /\ Deep(D, L2, R2, LeftDepths(node'), RightDepths(node'), p)
       /\ (IF left THEN LeftDepths(node)[p] ELSE RightDepths(node)[p]) = d \/ U2[p] = Null =>
              Deep(D, L2, R2, LeftDepths(node'), RightDepths(node'), Null)
  <2> DEFINE nd2 == node'
  <2>1. /\ node \in Seq(Elem) /\ Links(DOMAIN node, L2, R2, U2) /\ from \in DOMAIN node
        /\ U2[from] # Null /\ U2[from] # from
        /\ Deep(DOMAIN node, L2, R2, LeftDepths(node), RightDepths(node), from)
        /\ d = DepthOf(LeftDepths(node), RightDepths(node), from)
        /\ nd2 = IF L2[U2[from]] = from THEN SetLeft(node, U2[from], d) ELSE SetRight(node, U2[from], d)
    BY <1>1, <1>3, <1>4, <1>5, <1>6, <1>7, <1>10, <1>11 DEF TreeInv, TreeTyped
  <2> HIDE DEF D, p, d, left, L2, R2, U2, nd2
  <2>2. /\ nd2 \in Seq(Elem) /\ DOMAIN nd2 = DOMAIN node /\ Len(nd2) = Len(node) /\ SameTree(node, nd2)
        /\ Deep(DOMAIN node, L2, R2, LeftDepths(nd2), RightDepths(nd2), U2[from])
        /\ (IF L2[U2[from]] = from THEN LeftDepths(node)[U2[from]] ELSE RightDepths(node)[U2[from]]) = d
               \/ U2[U2[from]] = Null =>
               Deep(DOMAIN node, L2, R2, LeftDepths(nd2), RightDepths(nd2), Null)
    BY <2>1, LiftKnown
  <2> QED BY <1>7, <2>2 DEF D, nd2
<1>14. /\ pc' \in {"turn", "lift"}
       /\ pc' = "lift" => child' = p /\ from' = p /\ U[p] # Null
       /\ pc' = "turn" => Deep(D, L2, R2, LeftDepths(node'), RightDepths(node'), Null)
  BY <1>4, <1>5, <1>9, <1>12, <1>13
<1>15. TreeTyped'
  BY <1>1, <1>13, <1>14 DEF TreeInv, TreeTyped
<1>16. InPlace'
  BY <1>1, <1>4, <1>13, <1>14 DEF InPlace, SameTree
<1>17. Links(D, Lefts(node'), Rights(node'), Fathers(node'))
  BY <1>3, <1>13 DEF SameTree
<1>18. DepthsKnown'
  <2>1. MadeLefts' = L2 /\ MadeRights' = R2
    BY <1>1, <1>13, <1>14 DEF MadeLefts, MadeRights, Leftward, SameTree
  <2> HIDE DEF L2, R2
  <2> QED BY <1>13, <1>14, <2>1 DEF DepthsKnown
<1>19. InOrder(below)'
  BY <1>1, <1>2, <1>8, <1>13, <1>14 DEF InOrder, SameTree
<1> QED BY <1>13, <1>15, <1>16, <1>17, <1>18, <1>19 DEF TreeInv

\* The rotation makes the tree that its depths have been put right for.
LEMMA TurnStep ==
    ASSUME TreeInv, Turn
    PROVE  TreeInv'
<1> DEFINE D == DOMAIN node
           U == Fathers(node)
           before == Befores(key, D)
           after == Afters(key, D)
<1>1. /\ pc = "turn" /\ pc' = "balance" /\ key' = key /\ father' = father /\ top' = top
  BY DEF Turn
<1>2. /\ father \in D /\ added \in D /\ added # Null
      /\ added \in {Lefts(node)[father], Rights(node)[father]}
      /\ Lefts(node)[father] = node[father].left /\ Rights(node)[father] = node[father].right
  BY <1>1, NodeFacts DEF TreeInv, InPlace, TreeTyped
<1>3. /\ Leftward => node' = Turned(added, "left", "right")
      /\ ~Leftward => node' = Turned(added, "right", "left")
  BY <1>2 DEF Turn, Side, Leftward
<1>4. PICK below \in [DOMAIN node -> SUBSET DOMAIN node] : InOrder(below)
  BY DEF TreeInv
<1>5. /\ Links(D, Lefts(node), Rights(node), U) /\ Ordered(D, before, after)
      /\ Sorted(D, Lefts(node), Rights(node), U, below, before, after)
  BY <1>4, NodeFacts DEF TreeInv, InOrder
<1>6. /\ node' \in Seq(Elem) /\ DOMAIN node' = D /\ Len(node') = Len(node)
      /\ Lefts(node') = MadeLefts /\ Rights(node') = MadeRights /\ Fathers(node') = MadeFathers
      /\ LeftDepths(node') = LeftDepths(node) /\ RightDepths(node') = RightDepths(node)
  <2>1. CASE Leftward
    <3> DEFINE L == Lefts(node)
               R == Rights(node)
               bf == before
               af == after
    <3>1. node' = Turned(node[father].left, "left", "right") /\ L[father] = added /\ L[father] # Null
      BY <1>1, <1>2, <1>3, <2>1 DEF Leftward
    <3>2. Links(D, L, R, U) /\ Ordered(D, bf, af) /\ Sorted(D, L, R, U, below, bf, af)
      BY <1>5, Mirror
    <3>3. node[father].left # Null
      BY <1>2, <3>1, NodeFacts
    <3>4. /\ node' \in Seq(Elem) /\ DOMAIN node' = D /\ Len(node') = Len(node)
          /\ Lefts(node') = TurnL(D, L, R, U, father)
          /\ Rights(node') = TurnR(D, L, R, U, father)
          /\ Fathers(node') = TurnU(D, L, R, U, father)
          /\ LeftDepths(node') = LeftDepths(node) /\ RightDepths(node') = RightDepths(node)
      <4>1. node \in Seq(Elem) /\ father \in D
        BY <1>2 DEF TreeInv, TreeTyped
      <4> HIDE DEF bf, af
      <4> QED BY <3>1, <3>2, <3>3, <4>1, TurnedLeft
    <3> QED BY <1>1, <2>1, <3>4 DEF MadeLefts, MadeRights, MadeFathers
  <2>2. CASE ~Leftward
    <3> DEFINE L == Rights(node)
               R == Lefts(node)
               bf == after
               af == before
    <3>1. node' = Turned(node[father].right, "right", "left") /\ L[father] = added /\ L[father] # Null
      BY <1>1, <1>2, <1>3, <2>2 DEF Leftward
    <3>2. Links(D, L, R, U) /\ Ordered(D, bf, af) /\ Sorted(D, L, R, U, below, bf, af)
      BY <1>5, Mirror
    <3>3. node[father].right # Null
      BY <1>2, <3>1, NodeFacts
    <3>4. /\ node' \in Seq(Elem) /\ DOMAIN node' = D /\ Len(node') = Len(node)
          /\ Rights(node') = TurnL(D, L, R, U, father)
          /\ Lefts(node') = TurnR(D, L, R, U, father)
          /\ Fathers(node') = TurnU(D, L, R, U, father)
          /\ LeftDepths(node') = LeftDepths(node) /\ RightDepths(node') = RightDepths(node)
      <4>1. node \in Seq(Elem) /\ father \in D
        BY <1>2 DEF TreeInv, TreeTyped
      <4> HIDE DEF bf, af
      <4> QED BY <3>1, <3>2, <3>3, <4>1, TurnedRight
    <3> QED BY <1>1, <2>2, <3>4 DEF MadeLefts, MadeRights, MadeFathers
  <2> QED BY <2>1, <2>2
<1>7. /\ Links(D, MadeLefts, MadeRights, MadeFathers)
      /\ \E b \in [D -> SUBSET D] :
            /\ Sorted(D, MadeLefts, MadeRights, MadeFathers, b, before, after)
            /\ \A n \in D : MadeFathers[n] = Null => b[n] = D
  BY <1>1, <1>4, MadeTree
<1>8. TreeTyped'
  BY <1>1, <1>2, <1>6 DEF TreeInv, TreeTyped
<1>9. InPlace'
  BY <1>1 DEF InPlace
<1>10. DepthsKnown'
  <2>1. Deep(D, MadeLefts, MadeRights, LeftDepths(node), RightDepths(node), Null)
    BY <1>1 DEF TreeInv, DepthsKnown
  <2>2. MadeLefts' = Lefts(node') /\ MadeRights' = Rights(node')
    BY <1>1 DEF MadeLefts, MadeRights
  <2> QED BY <1>1, <1>6, <2>1, <2>2 DEF DepthsKnown
<1>11. (\E b \in [DOMAIN node -> SUBSET DOMAIN node] : InOrder(b))'
  <2>1. PICK b \in [D -> SUBSET D] :
            /\ Sorted(D, MadeLefts, MadeRights, MadeFathers, b, before, after)
            /\ \A n \in D : MadeFathers[n] = Null => b[n] = D
    BY <1>7
  <2>2. InOrder(b)'
    BY <1>1, <1>6, <2>1 DEF InOrder
  <2> QED BY <1>6, <2>2
<1> QED BY <1>6, <1>7, <1>8, <1>9, <1>10, <1>11 DEF TreeInv

\* There is no tree to begin with.
LEMMA TreeStart == TreeInit => TreeInv
<1> SUFFICES ASSUME TreeInit PROVE TreeInv
  OBVIOUS
<1>1. key = <<>> /\ node = <<>> /\ top = Null /\ pc = "idle" /\ DOMAIN node = {} /\ Len(node) = 0
  BY DEF TreeInit
<1>2. /\ Lefts(node) = [n \in {} |-> Null] /\ Rights(node) = [n \in {} |-> Null]
      /\ Fathers(node) = [n \in {} |-> Null]
      /\ LeftDepths(node) = [n \in {} |-> 0] /\ RightDepths(node) = [n \in {} |-> 0]
  BY <1>1 DEF Lefts, Rights, Fathers, LeftDepths, RightDepths
<1>3. TreeTyped /\ InPlace
  BY <1>1 DEF TreeTyped, InPlace
<1>4. Links(DOMAIN node, Lefts(node), Rights(node), Fathers(node))
  BY <1>1, <1>2 DEF Links
<1>5. DepthsKnown
  BY <1>1, <1>2 DEF DepthsKnown, MadeLefts, MadeRights, Deep
<1>6. \E below \in [DOMAIN node -> SUBSET DOMAIN node] : InOrder(below)
  <2>1. [n \in {} |-> {}] \in [DOMAIN node -> SUBSET DOMAIN node]
    BY <1>1
  <2>2. InOrder([n \in {} |-> {}])
    BY <1>1 DEF InOrder, Sorted
  <2> QED BY <2>1, <2>2
<1> QED BY <1>3, <1>4, <1>5, <1>6 DEF TreeInv

\* Every turn of every loop keeps the invariant.
LEMMA TreeSteps == TreeInv /\ [TreeNext]_treeVars => TreeInv'
<1> SUFFICES ASSUME TreeInv, [TreeNext]_treeVars PROVE TreeInv'
  OBVIOUS
<1>1. CASE \E k \in Keys : Add(k)
  <2>1. PICK k \in Keys : Add(k)
    BY <1>1
  <2> QED BY <2>1, FirstStep, AddStep
<1>2. CASE Find
  BY <1>2, FindStep
<1>3. CASE NewDepths
  BY <1>3, NewDepthsStep
<1>4. CASE GoUp
  BY <1>4, GoUpStep
<1>5. CASE StartCorrection
  BY <1>5, StartCorrectionStep
<1>6. CASE LiftedDepths
  BY <1>6, LiftedDepthsStep
<1>7. CASE Turn
  BY <1>7, TurnStep
<1>8. CASE Climb
  BY <1>8, ClimbStep
<1>9. CASE UNCHANGED treeVars
  <2>1. /\ key' = key /\ node' = node /\ top' = top /\ pc' = pc /\ father' = father /\ added' = added
        /\ child' = child /\ from' = from
    BY <1>9 DEF treeVars
  <2>2. TreeTyped' /\ InPlace' /\ DepthsKnown'
    BY <2>1 DEF TreeInv, TreeTyped, InPlace, DepthsKnown, MadeLefts, MadeRights, Leftward
  <2>3. PICK below \in [DOMAIN node -> SUBSET DOMAIN node] : InOrder(below)
    BY DEF TreeInv
  <2>4. InOrder(below)'
    BY <2>1, <2>3 DEF InOrder, New
  <2> QED BY <2>1, <2>2, <2>4 DEF TreeInv
<1> QED BY <1>1, <1>2, <1>3, <1>4, <1>5, <1>6, <1>7, <1>8, <1>9 DEF TreeNext

\* At every turn of the loops of HTBTree_add the pointers make one tree, in which the elements
\* are in order, and the depths are right in it, or in the one that the rotation under way
\* makes, except above one element.
THEOREM TreeInvariant == TreeSpec => []TreeInv
BY TreeStart, TreeSteps, PTL DEF TreeSpec

(***************************************************************************)
(* What goes down in a rank holds of all, and is defined for all.          *)
(***************************************************************************)
LEMMA RankInduction ==
    ASSUME NEW S, NEW rank \in [S -> Nat], NEW G,
           \A n \in S : (\A m \in S : rank[m] < rank[n] => m \in G) => n \in G
    PROVE  S \subseteq G
<1> SUFFICES ASSUME NEW e \in S, e \notin G PROVE FALSE
  OBVIOUS
<1> DEFINE Bad == {n \in S : n \notin G}
           T == {rank[n] : n \in Bad}
<1>1. T \subseteq Nat /\ T # {}
  OBVIOUS
<1> HIDE DEF T
<1>2. Min(T) \in T /\ \A k \in T : Min(T) <= k
  BY <1>1, MinFacts
<1>3. PICK n \in Bad : Min(T) = rank[n]
  <2>1. \A m \in T : \E k \in Bad : m = rank[k]
    BY DEF T
  <2> HIDE DEF Bad
  <2> QED BY <1>2, <2>1
<1>4. PICK m \in S : rank[m] < rank[n] /\ m \notin G
  OBVIOUS
<1>5. rank[m] \in T
  BY <1>4 DEF T
<1> QED BY <1>2, <1>3, <1>4, <1>5

\* What is not in stop has a next element of a lower rank, and what is has a value in V.
Ranked(S, rank, bound, stop, base, step, next, V) ==
    /\ rank \in [S -> Nat] /\ bound \in Nat /\ \A n \in S : rank[n] <= bound
    /\ \A n \in S : IF n \in stop THEN base[n] \in V ELSE next[n] \in S /\ rank[next[n]] < rank[n]
    /\ \A v \in V : step[v] \in V

Recursive(f, S, stop, base, step, next, V) ==
    /\ f \in [S -> V]
    /\ f = [n \in S |-> IF n \in stop THEN base[n] ELSE step[f[next[n]]]]

\* A recursive definition along a way on which a rank falls has a solution.
LEMMA RankRecursion ==
    ASSUME NEW S, NEW rank, NEW bound, NEW stop, NEW base, NEW step, NEW next, NEW V,
           Ranked(S, rank, bound, stop, base, step, next, V)
    PROVE  \E f : Recursive(f, S, stop, base, step, next, V)
<1> /\ rank \in [S -> Nat] /\ bound \in Nat /\ \A n \in S : rank[n] <= bound
    /\ \A n \in S : n \notin stop => next[n] \in S /\ rank[next[n]] < rank[n]
    /\ \A n \in S : n \in stop => base[n] \in V
    /\ \A v \in V : step[v] \in V
  BY DEF Ranked
<1> DEFINE Low(k) == {n \in S : rank[n] <= k}
           Step(f, n) == IF n \in stop THEN base[n] ELSE step[f[next[n]]]
           Good(k) == \E f : f = [n \in Low(k) |-> Step(f, n)]
           Bad == {k \in Nat : ~Good(k)}
<1>1. \A k \in Nat : Good(k)
  <2> SUFFICES ASSUME Bad # {} PROVE FALSE
    OBVIOUS
  <2>1. Bad \subseteq Nat
    OBVIOUS
  <2> HIDE DEF Bad
  <2>2. Min(Bad) \in Bad /\ \A k \in Bad : Min(Bad) <= k
    BY <2>1, MinFacts
  <2> DEFINE k == Min(Bad)
  <2>3. k \in Nat /\ ~Good(k)
    BY <2>1, <2>2 DEF Bad
  <2>4. k = 0 \/ Good(k - 1)
    <3> SUFFICES ASSUME k # 0 PROVE k - 1 \in Nat /\ k - 1 \notin Bad
      BY DEF Bad
    <3>1. k - 1 \in Nat /\ ~(k <= k - 1)
      BY <2>3
    <3> QED BY <2>2, <3>1
  <2> HIDE DEF k
  <2>5. CASE k = 0
    <3> DEFINE f == [n \in Low(0) |-> base[n]]
    <3>1. \A n \in Low(0) : n \in stop
      <4> SUFFICES ASSUME NEW n \in Low(0), n \notin stop PROVE FALSE
        OBVIOUS
      <4>1. rank[n] \in Nat /\ rank[n] <= 0 /\ rank[next[n]] \in Nat /\ rank[next[n]] < rank[n]
        OBVIOUS
      <4> QED BY <4>1
    <3>2. f = [n \in Low(0) |-> Step(f, n)]
      BY <3>1
    <3> QED BY <2>3, <2>5, <3>2
  <2>6. CASE Good(k - 1) /\ k # 0
    <3>1. PICK f : f = [n \in Low(k - 1) |-> Step(f, n)]
      BY <2>6
    <3> DEFINE g == [n \in Low(k) |-> Step(f, n)]
    <3>2. \A n \in Low(k - 1) : n \in Low(k) /\ g[n] = f[n]
      <4> TAKE n \in Low(k - 1)
      <4>1. n \in Low(k)
        BY <2>3
      <4>2. f[n] = Step(f, n)
        BY <3>1
      <4> QED BY <4>1, <4>2
    <3>3. \A n \in Low(k) : Step(f, n) = Step(g, n)
      <4> TAKE n \in Low(k)
      <4>1. CASE n \in stop
        BY <4>1
      <4>2. CASE n \notin stop
        <5>1. next[n] \in S /\ rank[next[n]] \in Nat /\ rank[n] \in Nat /\ rank[next[n]] < rank[n]
          BY <4>2
        <5>2. next[n] \in Low(k - 1)
          BY <2>3, <5>1
        <5> HIDE DEF g
        <5> QED BY <3>2, <5>2
      <4> QED BY <4>1, <4>2
    <3>4. g = [n \in Low(k) |-> Step(g, n)]
      BY <3>3, Zenon
    <3> HIDE DEF g
    <3>5. Good(k)
      BY <3>4
    <3> QED BY <2>3, <3>5
  <2> QED BY <2>4, <2>5, <2>6
<1>2. Low(bound) = S
  OBVIOUS
<1>3. PICK f : f = [n \in S |-> Step(f, n)]
  <2>1. Good(bound)
    <3> HIDE DEF Good
    <3> QED BY <1>1
  <2> HIDE DEF Step, Low
  <2> QED BY <1>2, <2>1
<1> DEFINE G == {n \in S : f[n] \in V}
<1>4. S \subseteq G
  <2>1. ASSUME NEW n \in S, \A m \in S : rank[m] < rank[n] => m \in G
        PROVE  n \in G
    <3>1. f[n] = Step(f, n)
      BY <1>3
    <3>2. CASE n \in stop
      BY <3>1, <3>2
    <3>3. CASE n \notin stop
      <4>1. next[n] \in G
        BY <2>1, <3>3
      <4> QED BY <3>1, <3>3, <4>1
    <3> QED BY <3>2, <3>3
  <2> HIDE DEF G
  <2> QED BY <2>1, RankInduction
<1>5. f \in [S -> V]
  <2>1. \A n \in S : f[n] \in V
    BY <1>4
  <2> HIDE DEF Step
  <2> QED BY <1>3, <2>1
<1> QED BY <1>3, <1>5 DEF Recursive

(***************************************************************************)
(* The depths of the tree are its heights.                                 *)
(***************************************************************************)
\* A subtree is not as deep as the tree it is part of.
LEMMA DepthRises ==
    ASSUME NEW D, NEW L, NEW R, NEW U, NEW LD, NEW RD, Links(D, L, R, U), Deep(D, L, R, LD, RD, Null)
    PROVE  /\ \A n \in D \cup {Null} : DepthOf(LD, RD, n) \in Nat
           /\ \A n \in D : /\ DepthOf(LD, RD, L[n]) < DepthOf(LD, RD, n)
                           /\ DepthOf(LD, RD, R[n]) < DepthOf(LD, RD, n)
                           /\ U[n] # Null => DepthOf(LD, RD, n) < DepthOf(LD, RD, U[n])
<1>1. \A n \in D : /\ LD[n] \in Nat /\ RD[n] \in Nat
                   /\ LD[n] = DepthOf(LD, RD, L[n]) /\ RD[n] = DepthOf(LD, RD, R[n])
  BY DEF Deep
<1>2. \A n \in D : DepthOf(LD, RD, n) \in Nat /\ LD[n] < DepthOf(LD, RD, n) /\ RD[n] < DepthOf(LD, RD, n)
  <2> TAKE n \in D
  <2>1. n # Null
    BY DEF Links
  <2> QED BY <1>1, <2>1 DEF DepthOf, Larger
<1>3. DepthOf(LD, RD, Null) \in Nat
  BY DEF DepthOf
<1>4. \A n \in D : U[n] # Null => U[n] \in D /\ (L[U[n]] = n \/ R[U[n]] = n)
  BY DEF Links
<1> QED BY <1>1, <1>2, <1>3, <1>4

\* The heights, which are defined by recursion, are what the depths say.
LEMMA HeightIsDepth ==
    ASSUME TreeInv, pc = "idle"
    PROVE  \A n \in {Null} \cup DOMAIN node : Height[n] = DepthOf(LeftDepths(node), RightDepths(node), n)
<1> DEFINE D == DOMAIN node
           S == {Null} \cup D
           L == Lefts(node)
           R == Rights(node)
           LD == LeftDepths(node)
           RD == RightDepths(node)
           H == [n \in S |-> DepthOf(LD, RD, n)]
<1>1. Links(D, L, R, Fathers(node)) /\ Deep(D, L, R, LD, RD, Null) /\ Null \notin D
  BY NodeFacts DEF TreeInv, DepthsKnown, MadeLefts, MadeRights
<1>2. \A n \in D : /\ L[n] = node[n].left /\ R[n] = node[n].right /\ L[n] \in S /\ R[n] \in S
                   /\ LD[n] = DepthOf(LD, RD, L[n]) /\ RD[n] = DepthOf(LD, RD, R[n])
  BY <1>1, NodeFacts DEF Deep
<1>3. \A n \in S : H[n] = IF n = Null THEN 0 ELSE 1 + Larger(H[node[n].left], H[node[n].right])
  BY <1>2 DEF DepthOf
<1>4. H = [n \in S |-> IF n = Null THEN 0 ELSE 1 + Larger(H[node[n].left], H[node[n].right])]
  BY <1>3
<1>5. Height = [n \in S |-> IF n = Null THEN 0 ELSE 1 + Larger(Height[node[n].left], Height[node[n].right])]
  <2> HIDE DEF H
  <2> QED BY <1>4 DEF Height
<1>6. \A n \in S : H[n] \in Nat
  BY <1>1, DepthRises
<1>7. \A n \in D : H[node[n].left] < H[n] /\ H[node[n].right] < H[n]
  BY <1>1, <1>2, DepthRises
<1> DEFINE G == {n \in S : Height[n] = H[n]}
<1> HIDE DEF H
<1>8. S \subseteq G
  <2>1. H \in [S -> Nat]
    BY <1>4, <1>6
  <2>2. ASSUME NEW n \in S, \A m \in S : H[m] < H[n] => m \in G
        PROVE  n \in G
    <3>1. Height[n] = IF n = Null THEN 0 ELSE 1 + Larger(Height[node[n].left], Height[node[n].right])
      BY <1>5
    <3>2. CASE n = Null
      BY <1>3, <3>1, <3>2
    <3>3. CASE n # Null
      <4>1. node[n].left \in G /\ node[n].right \in G
        BY <1>2, <1>7, <2>2, <3>3
      <4> QED BY <1>3, <3>1, <3>3, <4>1
    <3> QED BY <3>2, <3>3
  <2> HIDE DEF G, S
  <2> QED BY <2>1, <2>2, RankInduction
<1> QED BY <1>8 DEF H

\* When HTBTree_add returns, the left_depth and right_depth that it balances the tree by are
\* the depths of the subtrees, although after a rotation it only corrects those of the two
\* elements that are turned and those above, and stops where one has not changed.
THEOREM DepthsCorrect == TreeSpec => []DepthsAreHeights
<1>1. TreeInv => DepthsAreHeights
  <2> SUFFICES ASSUME TreeInv, pc = "idle", NEW n \in DOMAIN node
               PROVE  /\ node[n].left_depth = Height[node[n].left]
                      /\ node[n].right_depth = Height[node[n].right]
    BY DEF DepthsAreHeights
  <2>1. /\ LeftDepths(node)[n] = DepthOf(LeftDepths(node), RightDepths(node), Lefts(node)[n])
        /\ RightDepths(node)[n] = DepthOf(LeftDepths(node), RightDepths(node), Rights(node)[n])
    BY DEF TreeInv, DepthsKnown, MadeLefts, MadeRights, Deep
  <2>2. /\ Lefts(node)[n] = node[n].left /\ Rights(node)[n] = node[n].right
        /\ LeftDepths(node)[n] = node[n].left_depth /\ RightDepths(node)[n] = node[n].right_depth
        /\ node[n].left \in {Null} \cup DOMAIN node /\ node[n].right \in {Null} \cup DOMAIN node
    BY NodeFacts
  <2> QED BY <2>1, <2>2, HeightIsDepth
<1> QED BY <1>1, TreeInvariant, PTL

(***************************************************************************)
(* A walk through the tree.                                                *)
(***************************************************************************)
\* The first of the elements E; and those that come after all of a subtree.
IsFirst(after, E, m) == m \in E /\ \A k \in E : k = m \/ k \in after[m]
Beyond(D, below, before, n) == {x \in D : below[n] \subseteq before[x]}

\* A subtree is an interval of the order.
LEMMA SubtreeIsInterval ==
    ASSUME NEW D, NEW L, NEW R, NEW U, NEW below, NEW before, NEW after,
           Links(D, L, R, U), Ordered(D, before, after), Sorted(D, L, R, U, below, before, after),
           \A n \in D : U[n] = Null => below[n] = D,
           NEW high \in [D -> Nat], \A n \in D : U[n] # Null => high[U[n]] < high[n]
    PROVE  \A n \in D : \A x \in D \ below[n] : below[n] \subseteq before[x] \/ below[n] \subseteq after[x]
<1> DEFINE Fits(n) == \A x \in D \ below[n] : below[n] \subseteq before[x] \/ below[n] \subseteq after[x]
           G == {n \in D : Fits(n)}
<1>1. ASSUME NEW n \in D, \A m \in D : high[m] < high[n] => m \in G
      PROVE  n \in G
  <2>1. CASE U[n] = Null
    BY <2>1
  <2>2. CASE U[n] # Null
    <3> DEFINE u == U[n]
    <3>1. u \in D /\ (L[u] = n \/ R[u] = n) /\ Fits(u) /\ n # Null /\ Null \notin D
      BY <1>1, <2>2 DEF Links
    <3> HIDE DEF u
    <3>2. /\ below[u] = {u} \cup Of(below, L[u]) \cup Of(below, R[u])
          /\ Of(below, L[u]) \subseteq before[u]
          /\ Of(below, R[u]) \subseteq after[u]
      BY <3>1 DEF Sorted
    <3>3. below[n] \subseteq below[u] /\ below[n] \subseteq D /\ below[u] \subseteq D
      BY <3>1, <3>2 DEF Of, Sorted
    <3>4. /\ \A m, k \in D : m \in before[k] <=> k \in after[m]
          /\ \A m, k, l \in D : m \in before[k] /\ k \in before[l] => m \in before[l]
      BY DEF Ordered
    <3>5. ASSUME NEW x \in D, x \notin below[n]
          PROVE  below[n] \subseteq before[x] \/ below[n] \subseteq after[x]
      <4>1. CASE x \notin below[u]
        BY <3>1, <3>3, <4>1
      <4>2. CASE x = u
        BY <3>1, <3>2, <4>2 DEF Of
      <4>3. CASE x \in Of(below, L[u])
        <5>1. R[u] = n /\ below[n] \subseteq after[u] /\ x \in before[u]
          BY <3>1, <3>2, <3>5, <4>3 DEF Of
        <5> QED BY <3>1, <3>3, <3>4, <5>1
      <4>4. CASE x \in Of(below, R[u])
        <5>1. L[u] = n /\ below[n] \subseteq before[u] /\ x \in after[u]
          BY <3>1, <3>2, <3>5, <4>4 DEF Of
        <5> QED BY <3>1, <3>3, <3>4, <5>1
      <4> QED BY <3>2, <4>1, <4>2, <4>3, <4>4
    <3> QED BY <3>5
  <2> QED BY <2>1, <2>2
<1>2. D \subseteq G
  <2> HIDE DEF G
  <2> QED BY <1>1, RankInduction
<1> QED BY <1>2

\* Down to the left one comes to the first element of the subtree.
LEMMA LeftmostIsFirst ==
    ASSUME NEW D, NEW L, NEW R, NEW U, NEW below, NEW before, NEW after,
           Links(D, L, R, U), Ordered(D, before, after), Sorted(D, L, R, U, below, before, after),
           NEW rank \in [D -> Nat], \A n \in D : L[n] # Null => rank[L[n]] < rank[n],
           NEW F, \A n \in D : F[n] = IF L[n] = Null THEN n ELSE F[L[n]]
    PROVE  \A n \in D : IsFirst(after, below[n], F[n])
<1> DEFINE G == {n \in D : IsFirst(after, below[n], F[n])}
<1>1. ASSUME NEW n \in D, \A m \in D : rank[m] < rank[n] => m \in G
      PROVE  n \in G
  <2>1. /\ below[n] = {n} \cup Of(below, L[n]) \cup Of(below, R[n])
        /\ Of(below, L[n]) \subseteq before[n]
        /\ Of(below, R[n]) \subseteq after[n]
        /\ below[n] \subseteq D
    BY DEF Sorted
  <2>2. CASE L[n] = Null
    <3>1. Of(below, L[n]) = {} /\ F[n] = n
      BY <2>2 DEF Of
    <3> QED BY <2>1, <3>1 DEF IsFirst
  <2>3. CASE L[n] # Null
    <3>1. L[n] \in D /\ rank[L[n]] < rank[n] /\ F[n] = F[L[n]] /\ Of(below, L[n]) = below[L[n]]
      BY <2>3 DEF Links, Of
    <3>2. IsFirst(after, below[L[n]], F[n])
      BY <1>1, <3>1
    <3>3. F[n] \in D /\ F[n] \in before[n] /\ F[n] \in below[n]
      BY <2>1, <3>1, <3>2 DEF IsFirst
    <3>4. ASSUME NEW k \in below[n], k # F[n] PROVE k \in after[F[n]]
      <4>1. k \in D
        BY <2>1
      <4>2. CASE k \in below[L[n]]
        BY <3>2, <3>4, <4>2 DEF IsFirst
      <4>3. CASE k = n
        BY <3>3, <4>3 DEF Ordered
      <4>4. CASE k \in after[n]
        BY <3>3, <4>1, <4>4 DEF Ordered
      <4> QED BY <2>1, <3>1, <4>2, <4>3, <4>4
    <3> QED BY <3>3, <3>4 DEF IsFirst
  <2> QED BY <2>2, <2>3
<1>2. D \subseteq G
  <2> HIDE DEF G
  <2> QED BY <1>1, RankInduction
<1> QED BY <1>2

\* Up as long as one comes from the right, one comes to the first element beyond the subtree.
LEMMA AboveIsFirst ==
    ASSUME NEW D, NEW L, NEW R, NEW U, NEW below, NEW before, NEW after,
           Links(D, L, R, U), Ordered(D, before, after), Sorted(D, L, R, U, below, before, after),
           \A n \in D : U[n] = Null => below[n] = D,
           NEW high \in [D -> Nat], \A n \in D : U[n] # Null => high[U[n]] < high[n],
           NEW F, \A n \in D : F[n] = IF U[n] # Null /\ R[U[n]] = n THEN F[U[n]] ELSE U[n]
    PROVE  \A n \in D : IF F[n] = Null THEN Beyond(D, below, before, n) = {}
                        ELSE IsFirst(after, Beyond(D, below, before, n), F[n])
<1> DEFINE Fits(n) == IF F[n] = Null THEN Beyond(D, below, before, n) = {}
                      ELSE IsFirst(after, Beyond(D, below, before, n), F[n])
           G == {n \in D : Fits(n)}
<1>1. \A n \in D : \A x \in D \ below[n] : below[n] \subseteq before[x] \/ below[n] \subseteq after[x]
  BY SubtreeIsInterval
<1>2. /\ \A n \in D : n \notin before[n] /\ n \notin after[n]
      /\ \A m, k \in D : m \in before[k] <=> k \in after[m]
      /\ \A m, k, l \in D : m \in before[k] /\ k \in before[l] => m \in before[l]
      /\ \A m, k \in D : m = k \/ m \in before[k] \/ m \in after[k]
  BY DEF Ordered
<1>3. ASSUME NEW n \in D, \A m \in D : high[m] < high[n] => m \in G
      PROVE  n \in G
  <2>1. CASE U[n] = Null
    <3>1. F[n] = Null /\ below[n] = D
      BY <2>1
    <3>2. Beyond(D, below, before, n) = {}
      BY <1>2, <3>1 DEF Beyond
    <3> QED BY <3>1, <3>2
  <2>2. CASE U[n] # Null
    <3> DEFINE u == U[n]
    <3>1. /\ u \in D /\ (L[u] = n \/ R[u] = n) /\ Fits(u) /\ n # Null /\ Null \notin D /\ u # Null
          /\ F[n] = IF R[u] = n THEN F[u] ELSE u
          /\ L[u] # R[u] \/ L[u] = Null
      BY <1>3, <2>2 DEF Links
    <3> HIDE DEF u
    <3>2. /\ below[u] = {u} \cup Of(below, L[u]) \cup Of(below, R[u])
          /\ Of(below, L[u]) \subseteq before[u]
          /\ Of(below, R[u]) \subseteq after[u]
          /\ n \in below[n]
      BY <3>1 DEF Sorted
    <3>3. below[n] \subseteq below[u] /\ below[n] \subseteq D /\ below[u] \subseteq D
      BY <3>1, <3>2 DEF Of, Sorted
    <3>4. ASSUME NEW x \in D, below[n] \subseteq before[x], x \notin below[u]
          PROVE  below[u] \subseteq before[x]
      <4>1. n \in before[x] /\ n \in below[u]
        BY <3>2, <3>3, <3>4
      <4>2. n \notin after[x]
        BY <1>2, <4>1
      <4> QED BY <1>1, <3>1, <3>4, <4>1, <4>2
    <3>5. CASE R[u] = n
      <4>1. ASSUME NEW x \in D, below[n] \subseteq before[x] PROVE x \notin below[u]
        <5>1. n \in after[u] /\ n \in before[x] /\ u \in before[n] /\ u \in before[x]
          BY <1>2, <3>1, <3>2, <3>5, <4>1 DEF Of
        <5>2. x # u /\ x \notin before[u] /\ x \notin below[n]
          BY <1>2, <3>1, <4>1, <5>1
        <5> QED BY <3>1, <3>2, <3>5, <5>2 DEF Of
      <4>2. Beyond(D, below, before, n) = Beyond(D, below, before, u)
        BY <3>3, <3>4, <4>1 DEF Beyond
      <4> QED BY <3>1, <3>5, <4>2
    <3>6. CASE R[u] # n
      <4>1. L[u] = n /\ F[n] = u /\ below[n] \subseteq before[u]
        BY <3>1, <3>2, <3>6 DEF Of
      <4>2. ASSUME NEW x \in D, below[n] \subseteq before[x], x # u PROVE x \in after[u]
        <5>1. CASE x \in below[u]
          <6>1. x \notin below[n]
            BY <1>2, <4>2
          <6> QED BY <3>1, <3>2, <4>1, <4>2, <5>1, <6>1 DEF Of
        <5>2. CASE x \notin below[u]
          <6>1. u \in before[x]
            BY <3>2, <3>4, <4>2, <5>2
          <6> QED BY <1>2, <3>1, <6>1
        <5> QED BY <5>1, <5>2
      <4>3. IsFirst(after, Beyond(D, below, before, n), u)
        BY <3>1, <4>1, <4>2 DEF IsFirst, Beyond
      <4> QED BY <3>1, <4>1, <4>3
    <3> QED BY <3>5, <3>6
  <2> QED BY <2>1, <2>2
<1>4. D \subseteq G
  <2> HIDE DEF G
  <2> QED BY <1>3, RankInduction
<1> QED BY <1>4

\* The two ways to the next element.
LEMMA NextElement ==
    ASSUME NEW D, NEW L, NEW R, NEW U, NEW below, NEW before, NEW after,
           Links(D, L, R, U), Ordered(D, before, after), Sorted(D, L, R, U, below, before, after),
           \A n \in D : \A x \in D \ below[n] : below[n] \subseteq before[x] \/ below[n] \subseteq after[x],
           NEW n \in D, NEW s,
           IF R[n] # Null THEN IsFirst(after, below[R[n]], s)
           ELSE IF s = Null THEN Beyond(D, below, before, n) = {}
           ELSE IsFirst(after, Beyond(D, below, before, n), s)
    PROVE  \/ s = Null /\ after[n] = {}
           \/ s \in D /\ before[s] = before[n] \cup {n}
<1>1. /\ \A k \in D : k \notin before[k] /\ k \notin after[k]
      /\ \A m, k \in D : m \in before[k] <=> k \in after[m]
      /\ \A m, k, l \in D : m \in before[k] /\ k \in before[l] => m \in before[l]
      /\ \A m, k \in D : m = k \/ m \in before[k] \/ m \in after[k]
      /\ before \in [D -> SUBSET D] /\ after \in [D -> SUBSET D]
  BY DEF Ordered
<1>2. /\ below[n] = {n} \cup Of(below, L[n]) \cup Of(below, R[n])
      /\ Of(below, L[n]) \subseteq before[n]
      /\ Of(below, R[n]) \subseteq after[n]
      /\ below[n] \subseteq D
  BY DEF Sorted
<1>3. ASSUME NEW x \in D, x \in after[n], x \notin below[n] PROVE below[n] \subseteq before[x]
  <2>1. n \in below[n] /\ n \in before[x] /\ n \notin after[x]
    BY <1>1, <1>2, <1>3
  <2> QED BY <1>3, <2>1
<1>4. ASSUME NEW e \in D, e \in after[n], \A x \in after[n] : x = e \/ x \in after[e]
      PROVE  before[e] = before[n] \cup {n}
  <2>1. n \in before[e] /\ before[n] \subseteq before[e]
    BY <1>1, <1>4
  <2>2. ASSUME NEW x \in before[e] PROVE x \in before[n] \cup {n}
    <3>1. x \in D /\ x # e /\ x \notin after[e]
      BY <1>1
    <3> QED BY <1>1, <1>4, <3>1
  <2> QED BY <2>1, <2>2
<1>5. CASE R[n] # Null
  <2>1. R[n] \in D /\ Of(below, R[n]) = below[R[n]]
    BY <1>5 DEF Links, Of
  <2>2. s \in below[R[n]] /\ s \in after[n] /\ s \in D /\ s \in below[n]
    BY <1>2, <1>5, <2>1 DEF IsFirst
  <2>3. ASSUME NEW x \in after[n], x # s PROVE x \in after[s]
    <3>1. x \in D /\ x # n /\ x \notin before[n]
      BY <1>1
    <3>2. CASE x \in below[n]
      <4>1. x \in below[R[n]]
        BY <1>2, <2>1, <3>1, <3>2
      <4> QED BY <1>5, <2>3, <4>1 DEF IsFirst
    <3>3. CASE x \notin below[n]
      <4>1. s \in before[x]
        BY <1>3, <2>2, <3>1, <3>3
      <4> QED BY <1>1, <2>2, <3>1, <4>1
    <3> QED BY <3>2, <3>3
  <2> QED BY <1>4, <2>2, <2>3
<1>6. CASE R[n] = Null
  <2>1. Beyond(D, below, before, n) = after[n]
    <3>1. ASSUME NEW x \in after[n] PROVE x \in Beyond(D, below, before, n)
      <4>1. x \in D /\ x \notin below[n]
        <5>1. x \in D /\ x # n /\ x \notin before[n]
          BY <1>1
        <5>2. Of(below, R[n]) = {}
          BY <1>6 DEF Of
        <5> QED BY <1>2, <5>1, <5>2
      <4> QED BY <1>3, <4>1 DEF Beyond
    <3>2. ASSUME NEW x \in Beyond(D, below, before, n) PROVE x \in after[n]
      BY <1>1, <1>2 DEF Beyond
    <3> QED BY <3>1, <3>2
  <2>2. CASE s = Null
    BY <1>6, <2>1, <2>2
  <2>3. CASE s # Null
    <3>1. IsFirst(after, after[n], s)
      BY <1>6, <2>1, <2>3
    <3>2. s \in after[n] /\ s \in D /\ \A x \in after[n] : x = s \/ x \in after[s]
      BY <1>1, <3>1 DEF IsFirst
    <3> QED BY <1>4, <3>2
  <2> QED BY <2>2, <2>3
<1> QED BY <1>5, <1>6

\* On the way that next shows through D the rank falls, from bound at most.
Falls(D, next, rank, bound) ==
    /\ rank \in [D -> Nat] /\ bound \in Nat
    /\ \A n \in D : rank[n] <= bound /\ (next[n] # Null => rank[next[n]] < rank[n])

\* On the way down the depth falls, and on the way up what the root is deeper by.
LEMMA WaysEnd ==
    ASSUME TreeInv, pc = "idle"
    PROVE  /\ \E rank, bound : Falls(DOMAIN node, Lefts(node), rank, bound)
           /\ \E rank, bound : Falls(DOMAIN node, Fathers(node), rank, bound)
<1> DEFINE D == DOMAIN node
           L == Lefts(node)
           R == Rights(node)
           U == Fathers(node)
           LD == LeftDepths(node)
           RD == RightDepths(node)
           rank == [n \in D |-> DepthOf(LD, RD, n)]
<1>1. Links(D, L, R, U) /\ Deep(D, L, R, LD, RD, Null) /\ Null \notin D
  BY NodeFacts DEF TreeInv, DepthsKnown, MadeLefts, MadeRights
<1>2. PICK below \in [D -> SUBSET D] :
          /\ Sorted(D, L, R, U, below, Befores(key, D), Afters(key, D))
          /\ \A n \in D : U[n] = Null => below[n] = D
  BY DEF TreeInv, InOrder
<1>3. D = {} \/ (top \in D /\ U[top] = Null)
  <2>1. IF Len(node) = 0 THEN top = Null ELSE top \in D /\ node[top].up = Null
    BY DEF TreeInv, TreeTyped
  <2>2. D = 1..Len(node) /\ Len(node) \in Nat /\ \A n \in D : U[n] = node[n].up
    BY NodeFacts
  <2> HIDE DEF D, U
  <2>3. CASE Len(node) = 0
    BY <2>2, <2>3
  <2> QED BY <2>1, <2>2, <2>3
<1>4. /\ \A n \in D \cup {Null} : DepthOf(LD, RD, n) \in Nat
      /\ \A n \in D : /\ DepthOf(LD, RD, L[n]) < DepthOf(LD, RD, n)
                      /\ DepthOf(LD, RD, R[n]) < DepthOf(LD, RD, n)
                      /\ U[n] # Null => DepthOf(LD, RD, n) < DepthOf(LD, RD, U[n])
  <2> HIDE DEF D, L, R, U, LD, RD
  <2> QED BY <1>1, DepthRises
<1> HIDE DEF D, L, R, U, LD, RD
<1>5. \A n \in D : /\ rank[n] \in Nat
                   /\ L[n] # Null => L[n] \in D /\ rank[L[n]] < rank[n]
                   /\ R[n] # Null => R[n] \in D /\ rank[R[n]] < rank[n]
                   /\ U[n] # Null => U[n] \in D /\ rank[n] < rank[U[n]]
  BY <1>1, <1>4 DEF Links
<1>6. rank \in [D -> Nat]
  BY <1>4
<1> HIDE DEF rank
<1> DEFINE G == {n \in D : \A m \in below[n] : rank[m] <= rank[n]}
<1>7. ASSUME NEW n \in D, \A m \in D : rank[m] < rank[n] => m \in G
      PROVE  n \in G
  <2>1. below[n] = {n} \cup Of(below, L[n]) \cup Of(below, R[n]) /\ below[n] \subseteq D
    BY <1>2 DEF Sorted
  <2>2. ASSUME NEW m \in Of(below, L[n]) PROVE rank[m] <= rank[n]
    <3>1. L[n] # Null /\ m \in below[L[n]]
      BY <2>2 DEF Of
    <3>2. L[n] \in G /\ rank[L[n]] < rank[n]
      BY <1>5, <1>7, <3>1
    <3>3. rank[m] <= rank[L[n]] /\ rank[m] \in Nat /\ rank[L[n]] \in Nat /\ rank[n] \in Nat
      BY <1>5, <2>1, <3>1, <3>2
    <3> QED BY <3>2, <3>3
  <2>3. ASSUME NEW m \in Of(below, R[n]) PROVE rank[m] <= rank[n]
    <3>1. R[n] # Null /\ m \in below[R[n]]
      BY <2>3 DEF Of
    <3>2. R[n] \in G /\ rank[R[n]] < rank[n]
      BY <1>5, <1>7, <3>1
    <3>3. rank[m] <= rank[R[n]] /\ rank[m] \in Nat /\ rank[R[n]] \in Nat /\ rank[n] \in Nat
      BY <1>5, <2>1, <3>1, <3>2
    <3> QED BY <3>2, <3>3
  <2>4. rank[n] <= rank[n]
    BY <1>5
  <2> QED BY <2>1, <2>2, <2>3, <2>4
<1>8. D \subseteq G
  <2> HIDE DEF G
  <2> QED BY <1>6, <1>7, RankInduction
<1>9. \E bound \in Nat : \A n \in D : rank[n] <= bound
  <2>1. CASE D = {}
    <3>1. 0 \in Nat
      OBVIOUS
    <3> QED BY <2>1, <3>1
  <2>2. CASE top \in D /\ U[top] = Null
    <3>1. below[top] = D /\ rank[top] \in Nat
      BY <1>2, <1>5, <2>2
    <3> QED BY <1>8, <2>2, <3>1
  <2> QED BY <1>3, <2>1, <2>2
<1>10. PICK bound \in Nat : \A n \in D : rank[n] <= bound
  BY <1>9
<1> DEFINE high == [n \in D |-> bound - rank[n]]
<1>11. high \in [D -> Nat]
  BY <1>5, <1>10
<1>12. \A n \in D : high[n] <= bound /\ (U[n] # Null => high[U[n]] < high[n])
  BY <1>5, <1>10
<1> HIDE DEF high
<1>13. Falls(D, L, rank, bound) /\ Falls(D, U, high, bound)
  BY <1>5, <1>6, <1>10, <1>11, <1>12 DEF Falls
<1> QED BY <1>13 DEF D, L, U

\* HTBTree_next goes down to the left ...
LEMMA LeftmostFound ==
    ASSUME TreeInv, pc = "idle"
    PROVE  \A n \in DOMAIN node : Leftmost[n] = IF Lefts(node)[n] = Null THEN n ELSE Leftmost[Lefts(node)[n]]
<1> DEFINE D == DOMAIN node
           next == [n \in D |-> node[n].left]
           stop == {n \in D : node[n].left = Null}
           self == [n \in D |-> n]
<1>1. \A n \in D : Lefts(node)[n] = node[n].left /\ node[n].left \in D \cup {Null}
  BY NodeFacts
<1> HIDE DEF D
<1>2. PICK rank, bound : Falls(D, Lefts(node), rank, bound)
  BY WaysEnd DEF D
<1>3. Ranked(D, rank, bound, stop, self, self, next, D)
  BY <1>2, <1>1 DEF Falls, Ranked
<1> HIDE DEF next, stop, self
<1>4. PICK f : Recursive(f, D, stop, self, self, next, D)
  BY <1>3, RankRecursion
<1>5. \A n \in D : f[n] = IF node[n].left = Null THEN n ELSE f[node[n].left]
  <2> TAKE n \in D
  <2>1. f[n] = IF n \in stop THEN self[n] ELSE self[f[next[n]]]
    BY <1>4 DEF Recursive
  <2>2. CASE node[n].left = Null
    BY <2>1, <2>2 DEF stop, self
  <2>3. CASE node[n].left # Null
    <3>1. n \notin stop /\ next[n] = node[n].left /\ next[n] \in D
      BY <1>1, <2>3 DEF stop, next
    <3>2. f[next[n]] \in D
      BY <1>4, <3>1 DEF Recursive
    <3> QED BY <2>1, <2>3, <3>1, <3>2 DEF self
  <2> QED BY <2>2, <2>3
<1>6. f = [n \in D |-> IF node[n].left = Null THEN n ELSE f[node[n].left]]
  <2>1. f = [n \in D |-> f[n]]
    BY <1>4 DEF Recursive
  <2> QED BY <1>5, <2>1
<1>7. Leftmost = [n \in D |-> IF node[n].left = Null THEN n ELSE Leftmost[node[n].left]]
  BY <1>6 DEF Leftmost, D
<1>8. \A n \in D : Leftmost[n] = IF node[n].left = Null THEN n ELSE Leftmost[node[n].left]
  BY <1>7
<1> QED BY <1>1, <1>8 DEF D

\* ... and up as long as it comes from the right.
LEMMA AboveFound ==
    ASSUME TreeInv, pc = "idle"
    PROVE  \A n \in DOMAIN node :
               Above[n] = IF Fathers(node)[n] # Null /\ Rights(node)[Fathers(node)[n]] = n
                          THEN Above[Fathers(node)[n]] ELSE Fathers(node)[n]
<1> DEFINE D == DOMAIN node
           V == D \cup {Null}
           Turns(n) == node[n].up # Null /\ node[node[n].up].right = n
           next == [n \in D |-> node[n].up]
           stop == {n \in D : ~Turns(n)}
           self == [v \in V |-> v]
<1>1. \A n \in D : /\ Fathers(node)[n] = node[n].up /\ node[n].up \in D \cup {Null}
                   /\ Rights(node)[n] = node[n].right
  BY NodeFacts
<1> HIDE DEF D
<1>2. PICK high, bound : Falls(D, Fathers(node), high, bound)
  BY WaysEnd DEF D
<1>3. Ranked(D, high, bound, stop, next, self, next, V)
  BY <1>2, <1>1 DEF Falls, Ranked
<1> HIDE DEF next, stop, self, V
<1>4. PICK f : Recursive(f, D, stop, next, self, next, V)
  BY <1>3, RankRecursion
<1>5. \A n \in D : f[n] = IF Turns(n) THEN f[node[n].up] ELSE node[n].up
  <2> TAKE n \in D
  <2>1. f[n] = IF n \in stop THEN next[n] ELSE self[f[next[n]]]
    BY <1>4 DEF Recursive
  <2>2. CASE ~Turns(n)
    BY <2>1, <2>2 DEF stop, next
  <2>3. CASE Turns(n)
    <3>1. n \notin stop /\ next[n] = node[n].up /\ next[n] \in D
      BY <1>1, <2>3 DEF stop, next
    <3>2. f[next[n]] \in V
      BY <1>4, <3>1 DEF Recursive
    <3> QED BY <2>1, <2>3, <3>1, <3>2 DEF self
  <2> QED BY <2>2, <2>3
<1>6. f = [n \in D |-> LET up == node[n].up
                      IN  IF up # Null /\ node[up].right = n THEN f[up] ELSE up]
  <2>1. f = [n \in D |-> f[n]]
    BY <1>4 DEF Recursive
  <2> QED BY <1>5, <2>1
<1>7. Above = [n \in D |-> LET up == node[n].up
                          IN  IF up # Null /\ node[up].right = n THEN Above[up] ELSE up]
  BY <1>6 DEF Above, D
<1>8. \A n \in D : Above[n] = IF node[n].up # Null /\ node[node[n].up].right = n
                             THEN Above[node[n].up] ELSE node[n].up
  BY <1>7
<1> QED BY <1>1, <1>8 DEF D

\* What has been met when a walk is at n; it starts at Null.
Passed(ky, D, n) == IF n = Null THEN {} ELSE Befores(ky, D)[n] \cup {n}

\* HTBTree_next comes to the first element that has not been met, or to Null when all have.
LEMMA SuccessorFound ==
    ASSUME TreeInv, pc = "idle"
    PROVE  \A n \in DOMAIN node \cup {Null} :
               \/ Successor(n) = Null /\ Passed(key, DOMAIN node, n) = DOMAIN node
               \/ Successor(n) \in DOMAIN node
                  /\ Befores(key, DOMAIN node)[Successor(n)] = Passed(key, DOMAIN node, n)
<1> DEFINE D == DOMAIN node
           L == Lefts(node)
           R == Rights(node)
           U == Fathers(node)
           before == Befores(key, D)
           after == Afters(key, D)
<1>1. /\ Links(D, L, R, U) /\ Ordered(D, before, after) /\ Null \notin D
      /\ \A n \in D : R[n] = node[n].right /\ R[n] \in D \cup {Null}
  BY NodeFacts DEF TreeInv
<1>2. PICK below \in [D -> SUBSET D] :
          /\ Sorted(D, L, R, U, below, before, after)
          /\ \A n \in D : U[n] = Null => below[n] = D
  BY DEF TreeInv, InOrder
<1>3. IF D = {} THEN top = Null ELSE top \in D /\ U[top] = Null
  <2>1. IF Len(node) = 0 THEN top = Null ELSE top \in D /\ node[top].up = Null
    BY DEF TreeInv, TreeTyped
  <2>2. D = 1..Len(node) /\ Len(node) \in Nat /\ \A n \in D : U[n] = node[n].up
    BY NodeFacts
  <2> HIDE DEF D, U
  <2>3. CASE Len(node) = 0
    BY <2>1, <2>2, <2>3
  <2>4. CASE Len(node) # 0
    <3>1. top \in D
      BY <2>1, <2>4
    <3> QED BY <2>1, <2>2, <2>4, <3>1
  <2> QED BY <2>3, <2>4
<1>4. PICK rank, bound : Falls(D, L, rank, bound)
  BY WaysEnd
<1>5. PICK high, above : Falls(D, U, high, above)
  BY WaysEnd
<1>6. \A n \in D : Leftmost[n] = IF L[n] = Null THEN n ELSE Leftmost[L[n]]
  BY LeftmostFound
<1>7. \A n \in D : Above[n] = IF U[n] # Null /\ R[U[n]] = n THEN Above[U[n]] ELSE U[n]
  BY AboveFound
<1> DEFINE lm == Leftmost
           ab == Above
<1> HIDE DEF D, L, R, U, before, after, lm, ab
<1>8. \A n \in D : IsFirst(after, below[n], lm[n])
  <2>1. \A n \in D : lm[n] = IF L[n] = Null THEN n ELSE lm[L[n]]
    BY <1>6 DEF lm
  <2>2. rank \in [D -> Nat] /\ \A n \in D : L[n] # Null => rank[L[n]] < rank[n]
    BY <1>4 DEF Falls
  <2> QED BY <1>1, <1>2, <2>1, <2>2, LeftmostIsFirst
<1>9. high \in [D -> Nat] /\ \A n \in D : U[n] # Null => high[U[n]] < high[n]
  BY <1>5 DEF Falls
<1>10. \A n \in D : IF ab[n] = Null THEN Beyond(D, below, before, n) = {}
                   ELSE IsFirst(after, Beyond(D, below, before, n), ab[n])
  <2>1. \A n \in D : ab[n] = IF U[n] # Null /\ R[U[n]] = n THEN ab[U[n]] ELSE U[n]
    BY <1>7 DEF ab
  <2> QED BY <1>1, <1>2, <1>9, <2>1, AboveIsFirst
<1>11. \A n \in D : \A x \in D \ below[n] : below[n] \subseteq before[x] \/ below[n] \subseteq after[x]
  BY <1>1, <1>2, <1>9, SubtreeIsInterval
<1>12. ASSUME NEW n \in D
       PROVE  \/ Successor(n) = Null /\ Passed(key, D, n) = D
              \/ Successor(n) \in D /\ before[Successor(n)] = Passed(key, D, n)
  <2> DEFINE s == Successor(n)
  <2>1. n # Null
    BY <1>1
  <2>2. IF R[n] # Null THEN IsFirst(after, below[R[n]], s)
        ELSE IF s = Null THEN Beyond(D, below, before, n) = {}
        ELSE IsFirst(after, Beyond(D, below, before, n), s)
    <3>1. CASE R[n] # Null
      <4>1. s = lm[R[n]] /\ R[n] \in D
        BY <1>1, <2>1, <3>1 DEF Successor, lm
      <4> QED BY <1>8, <3>1, <4>1
    <3>2. CASE R[n] = Null
      <4>1. s = ab[n]
        BY <1>1, <2>1, <3>2 DEF Successor, ab
      <4> QED BY <1>10, <3>2, <4>1
    <3> QED BY <3>1, <3>2
  <2> HIDE DEF s
  <2>3. \/ s = Null /\ after[n] = {}
        \/ s \in D /\ before[s] = before[n] \cup {n}
    BY <1>1, <1>2, <1>11, <2>2, NextElement
  <2>4. after[n] = {} => before[n] \cup {n} = D
    BY <1>1 DEF Ordered
  <2>5. Passed(key, D, n) = before[n] \cup {n}
    BY <2>1 DEF Passed, before
  <2> QED BY <2>3, <2>4, <2>5 DEF s
<1>13. \/ Successor(Null) = Null /\ Passed(key, D, Null) = D
       \/ Successor(Null) \in D /\ before[Successor(Null)] = Passed(key, D, Null)
  <2>1. Passed(key, D, Null) = {}
    BY DEF Passed
  <2>2. CASE D = {}
    <3>1. Successor(Null) = Null
      BY <1>3, <2>2 DEF Successor
    <3> QED BY <2>1, <2>2, <3>1
  <2>3. CASE D # {}
    <3>1. top \in D /\ top # Null /\ below[top] = D
      BY <1>1, <1>2, <1>3, <2>3
    <3>2. Successor(Null) = lm[top]
      BY <3>1 DEF Successor, lm
    <3>3. lm[top] \in D /\ \A k \in D : k = lm[top] \/ k \in after[lm[top]]
      BY <1>8, <3>1 DEF IsFirst
    <3>4. before[lm[top]] = {}
      BY <1>1, <3>3 DEF Ordered
    <3> QED BY <2>1, <3>2, <3>3, <3>4
  <2> QED BY <2>2, <2>3
<1> QED BY <1>12, <1>13 DEF D, before

\* The elements of a walk follow each other.
LEMMA WalkFound ==
    ASSUME TreeInv, pc = "idle"
    PROVE  \A i \in 1..Len(key) : Walk[i] = Successor(IF i = 1 THEN Null ELSE Walk[i - 1])
<1> DEFINE S == 1..Len(key)
           V == DOMAIN node \cup {Null}
           rank == [i \in S |-> i]
           start == [i \in S |-> Successor(Null)]
           step == [v \in V |-> Successor(v)]
           next == [i \in S |-> i - 1]
<1>1. Len(key) \in Nat
  BY LenProperties DEF TreeInv, TreeTyped
<1>2. \A v \in V : Successor(v) \in V
  BY SuccessorFound
<1>3. Null \in V
  OBVIOUS
<1> HIDE DEF V
<1>4. Ranked(S, rank, Len(key), {1}, start, step, next, V)
  <2>1. rank \in [S -> Nat] /\ \A i \in S : rank[i] <= Len(key)
    BY <1>1
  <2>2. ASSUME NEW i \in S PROVE IF i \in {1} THEN start[i] \in V ELSE next[i] \in S /\ rank[next[i]] < rank[i]
    <3>1. start[i] \in V
      BY <1>2, <1>3
    <3>2. CASE i # 1
      <4>1. next[i] = i - 1 /\ i - 1 \in S
        BY <1>1, <3>2
      <4>2. rank[next[i]] = i - 1 /\ rank[i] = i /\ i - 1 < i
        BY <1>1, <4>1
      <4> QED BY <3>2, <4>1, <4>2
    <3> QED BY <3>1, <3>2
  <2>3. \A v \in V : step[v] \in V
    BY <1>2
  <2> HIDE DEF S, rank, start, step, next
  <2> QED BY <1>1, <2>1, <2>2, <2>3 DEF Ranked
<1> HIDE DEF rank, start, step, next
<1>5. PICK f : Recursive(f, S, {1}, start, step, next, V)
  BY <1>4, RankRecursion
<1>6. ASSUME NEW i \in S PROVE f[i] = Successor(IF i = 1 THEN Null ELSE f[i - 1])
  <2>1. f[i] = IF i \in {1} THEN start[i] ELSE step[f[next[i]]]
    BY <1>5 DEF Recursive
  <2>2. CASE i = 1
    BY <2>1, <2>2 DEF start
  <2>3. CASE i # 1
    <3>1. i - 1 \in S /\ next[i] = i - 1
      BY <1>1, <2>3 DEF next
    <3>2. f[i - 1] \in V
      BY <1>5, <3>1 DEF Recursive
    <3> QED BY <2>1, <2>3, <3>1, <3>2 DEF step
  <2> QED BY <2>2, <2>3
<1> HIDE DEF S
<1>7. f = [i \in S |-> Successor(IF i = 1 THEN Null ELSE f[i - 1])]
  <2>1. f = [i \in S |-> f[i]]
    BY <1>5 DEF Recursive
  <2> QED BY <1>6, <2>1, Zenon
<1>8. Walk = [i \in S |-> Successor(IF i = 1 THEN Null ELSE Walk[i - 1])]
  BY <1>7, Zenon DEF Walk, S
<1> QED BY <1>8, Zenon DEF S

\* Every element of a walk comes after those that have been met, which are as many as the
\* steps that have been made.
LEMMA WalkMeets ==
    ASSUME TreeInv, pc = "idle"
    PROVE  /\ \A i \in 1..Len(key) : Walk[i] \in DOMAIN node
           /\ \A i, j \in 1..Len(key) : i < j => Walk[i] \in Befores(key, DOMAIN node)[Walk[j]]
           /\ Len(key) > 0 => Successor(Walk[Len(key)]) = Null
<1> DEFINE D == DOMAIN node
           N == Len(key)
           S == 1..N
           before == Befores(key, D)
           Met(i) == /\ Walk[i] \in D /\ Cardinality(before[Walk[i]]) = i - 1
                     /\ \A j \in 1..(i - 1) : Walk[j] \in before[Walk[i]]
           G == {i \in S : Met(i)}
           rank == [i \in S |-> i]
<1>1. D = S /\ N \in Nat /\ Null \notin D
  BY NodeFacts DEF TreeInv, TreeTyped
<1>2. IsFiniteSet(D) /\ Cardinality(D) = N
  <2>1. IsFiniteSet(1..N) /\ Cardinality(1..N) = IF 1 > N THEN 0 ELSE N - 1 + 1
    BY <1>1, FS_Interval
  <2> QED BY <1>1, <2>1
<1>3. before \in [D -> SUBSET D] /\ \A n \in D : n \notin before[n]
  BY NodeFacts DEF Ordered
<1>4. \A n \in D \cup {Null} :
          \/ Successor(n) = Null /\ Passed(key, D, n) = D
          \/ Successor(n) \in D /\ before[Successor(n)] = Passed(key, D, n)
  BY SuccessorFound
<1>5. \A i \in S : Walk[i] = Successor(IF i = 1 THEN Null ELSE Walk[i - 1])
  BY WalkFound
<1>6. Passed(key, D, Null) = {} /\ \A n \in D : Passed(key, D, n) = before[n] \cup {n}
  BY <1>1 DEF Passed
<1> HIDE DEF D, N, before
<1>7. \A n \in D : /\ IsFiniteSet(before[n] \cup {n})
                  /\ Cardinality(before[n] \cup {n}) = Cardinality(before[n]) + 1
  <2> TAKE n \in D
  <2>1. before[n] \in SUBSET D /\ n \notin before[n]
    BY <1>3
  <2>2. IsFiniteSet(before[n])
    BY <1>2, <2>1, FS_Subset
  <2> QED BY <2>1, <2>2, FS_AddElement
<1>8. ASSUME NEW i \in S, \A j \in S : rank[j] < rank[i] => j \in G
      PROVE  i \in G
  <2>1. CASE i = 1
    <3>1. Walk[i] = Successor(Null) /\ D # {}
      BY <1>1, <1>5, <2>1
    <3>2. Walk[i] \in D /\ before[Walk[i]] = {}
      BY <1>4, <1>6, <3>1
    <3>3. Cardinality(before[Walk[i]]) = i - 1
      BY <2>1, <3>2, FS_EmptySet
    <3>4. 1..(i - 1) = {}
      BY <2>1
    <3> QED BY <3>2, <3>3, <3>4
  <2>2. CASE i # 1
    <3> DEFINE w == Walk[i - 1]
    <3>1. /\ i \in Nat /\ i - 1 \in S /\ rank[i - 1] < rank[i] /\ Walk[i] = Successor(w) /\ i - 1 < N
          /\ i - 1 \in Nat /\ i - 1 = (i - 2) + 1
      BY <1>1, <1>5, <2>2
    <3>2. Met(i - 1)
      BY <1>8, <3>1
    <3> HIDE DEF rank
    <3>3. w \in D /\ Cardinality(before[w]) = i - 2 /\ \A j \in 1..(i - 2) : Walk[j] \in before[w]
      BY <3>1, <3>2
    <3>4. Cardinality(before[w] \cup {w}) = i - 1
      BY <1>7, <3>1, <3>3
    <3>5. before[w] \cup {w} # D
      <4>1. ASSUME before[w] \cup {w} = D PROVE i - 1 = N
        BY <1>2, <3>4, <4>1
      <4>2. i - 1 # N
        BY <1>1, <3>1
      <4> QED BY <4>1, <4>2
    <3>6. Walk[i] \in D /\ before[Walk[i]] = before[w] \cup {w}
      BY <1>4, <1>6, <3>1, <3>3, <3>5
    <3>7. ASSUME NEW j \in 1..(i - 1) PROVE Walk[j] \in before[Walk[i]]
      <4>1. j = i - 1 \/ j \in 1..(i - 2)
        BY <3>1
      <4> QED BY <3>3, <3>6, <4>1
    <3> QED BY <3>4, <3>6, <3>7
  <2> QED BY <2>1, <2>2
<1>9. S \subseteq G
  <2>1. rank \in [S -> Nat]
    BY <1>1
  <2> HIDE DEF S, G, rank
  <2> QED BY <1>8, <2>1, RankInduction
<1>10. \A i \in S : Met(i)
  BY <1>9
<1>11. \A i, j \in S : i < j => Walk[i] \in before[Walk[j]]
  <2> SUFFICES ASSUME NEW i \in S, NEW j \in S, i < j PROVE Walk[i] \in before[Walk[j]]
    OBVIOUS
  <2>1. i \in 1..(j - 1)
    BY <1>1
  <2> QED BY <1>10, <2>1
<1>12. N > 0 => Successor(Walk[N]) = Null
  <2> SUFFICES ASSUME N > 0 PROVE Successor(Walk[N]) = Null
    OBVIOUS
  <2> DEFINE w == Walk[N]
  <2>1. N \in S
    BY <1>1
  <2>2. w \in D /\ Cardinality(before[w]) = N - 1
    BY <1>10, <2>1
  <2>3. Cardinality(before[w] \cup {w}) = N
    <3>1. Cardinality(before[w] \cup {w}) = (N - 1) + 1
      BY <1>7, <2>2
    <3> QED BY <1>1, <3>1
  <2>4. before[w] \cup {w} \in SUBSET D
    BY <1>3, <2>2
  <2>5. before[w] \cup {w} = D
    BY <1>2, <2>3, <2>4, FS_Subset
  <2>6. ~(Successor(w) \in D /\ before[Successor(w)] = D)
    BY <1>3
  <2> QED BY <1>4, <1>6, <2>2, <2>5, <2>6
<1> QED BY <1>10, <1>11, <1>12 DEF D, N, before

\* A walk with HTBTree_next meets every element once, in the order of the objects, and equal
\* objects in the order in which they were added: whatever is added, and however the tree has
\* been turned by HTBTree_add to be balanced.
THEOREM WalksAreSorted == TreeSpec => []WalkIsSorted
<1>1. TreeInv => WalkIsSorted
  <2> SUFFICES ASSUME TreeInv, pc = "idle" PROVE WalkIsSorted
    BY DEF WalkIsSorted
  <2>1. \A i \in 1..Len(key) : Walk[i] # Null
    BY WalkMeets, NodeFacts
  <2>2. \A i, j \in 1..Len(key) : i < j => Less(key, Walk[i], Walk[j])
    BY WalkMeets DEF Befores
  <2>3. Len(key) > 0 => Successor(Walk[Len(key)]) = Null
    BY WalkMeets
  <2> QED BY <2>1, <2>2, <2>3 DEF WalkIsSorted, Less
<1> QED BY <1>1, TreeInvariant, PTL
===============================================================================
