-------------------------- MODULE HTRequestsProofs ---------------------------
(***************************************************************************)
(* Proofs about HTRequests for any requests, URLs, filters and answers:    *)
(* type correctness, that refused requests are reported from the event     *)
(* loop, that credentials stay in their realm, that a request is forgotten *)
(* when it is deleted, that the filters are in order, and that the         *)
(* application is told at most once of each load (LoadService).            *)
(*                                                                         *)
(* All of them rest on the shape of the call stack.  Of a request there is *)
(* one live call at most: the filters or the protocol that will decide     *)
(* what becomes of it.  What else the stack holds are lists of AFTER       *)
(* filters that are through, because the last filter called started the    *)
(* request again or because it was reported.  What is about deletion rests *)
(* on the order of the filters, too: the one that deletes a request is the *)
(* last of every list, so that no other is called after it.                *)
(***************************************************************************)
EXTENDS HTRequests, ListLemmas

(***************************************************************************)
(* The lists of filters: HTList_insertionSort sorts them and loses none,   *)
(* and HTNet_addAfter keeps a list sorted with every function in it once.  *)
(*                                                                         *)
(* Any two positions of a list are ordered one way, so that the number of  *)
(* positions that go in front of one is different for each: it is where    *)
(* the element goes.                                                       *)
(***************************************************************************)
Ahead(list, i) == {j \in DOMAIN list : GoesInFront(list, j, i)}
Rank(list, i)  == 1 + Cardinality(Ahead(list, i))

\* Which element of the list gets to position k.
Origin(list, k) == CHOOSE i \in DOMAIN list : Rank(list, i) = k

ByOrder(list) == \A i, j \in DOMAIN list : i < j => list[i].order <= list[j].order

EachOnce(list) == \A i, j \in DOMAIN list : list[i].fn = list[j].fn => i = j

LEMMA FilterFields ==
    ASSUME NEW list \in Seq(Filters)
    PROVE  /\ Len(list) \in Nat /\ DOMAIN list = 1..Len(list)
           /\ \A i \in 1..Len(list) : list[i] \in Filters /\ list[i].order \in Nat
<1>1. Len(list) \in Nat /\ DOMAIN list = 1..Len(list)
  BY LenProperties
<1>2. \A i \in 1..Len(list) : list[i] \in Filters
  BY ElementOfSeq
<1>3. \A f \in Filters : f.order \in Nat
  BY DEF Filters, Orders
<1> QED BY <1>1, <1>2, <1>3

LEMMA RankGrows ==
    ASSUME NEW list \in Seq(Filters), NEW i \in 1..Len(list), NEW j \in 1..Len(list)
    PROVE  /\ Rank(list, i) \in 1..Len(list)
           /\ GoesInFront(list, i, j) => Rank(list, i) < Rank(list, j)
           /\ i # j => GoesInFront(list, i, j) \/ GoesInFront(list, j, i)
<1> DEFINE n == Len(list)
<1>1. n \in Nat /\ DOMAIN list = 1..n /\ \A k \in 1..n : list[k].order \in Nat
  BY FilterFields
<1> HIDE DEF n
<1>2. IsFiniteSet(1..n) /\ Cardinality(1..n) = n
  <2>1. /\ IsFiniteSet(1..n) /\ Cardinality(1..n) = IF 1 > n THEN 0 ELSE n - 1 + 1
    BY <1>1, FS_Interval
  <2> QED BY <1>1, <2>1
<1>3. ASSUME NEW k \in 1..n
      PROVE  /\ IsFiniteSet(Ahead(list, k)) /\ Cardinality(Ahead(list, k)) \in Nat
             /\ Cardinality(Ahead(list, k)) < n /\ k \notin Ahead(list, k)
             /\ Ahead(list, k) \subseteq 1..n
  <2>1. Ahead(list, k) \subseteq 1..n /\ k \notin Ahead(list, k)
    BY <1>1 DEF Ahead, GoesInFront
  <2>2. IsFiniteSet((1..n) \ {k}) /\ Cardinality((1..n) \ {k}) = n - 1
    BY <1>2, FS_RemoveElement
  <2>3. Ahead(list, k) \in SUBSET ((1..n) \ {k})
    BY <2>1
  <2>4. IsFiniteSet(Ahead(list, k)) /\ Cardinality(Ahead(list, k)) <= n - 1
    BY <2>2, <2>3, FS_Subset
  <2>5. Cardinality(Ahead(list, k)) \in Nat
    BY <2>4, FS_CardinalityType
  <2> QED BY <1>1, <2>1, <2>4, <2>5
<1>4. i \in 1..n /\ j \in 1..n
  BY DEF n
<1>5. Rank(list, i) \in 1..n
  BY <1>1, <1>3, <1>4 DEF Rank
<1>6. ASSUME GoesInFront(list, i, j) PROVE Rank(list, i) < Rank(list, j)
  <2>1. Ahead(list, i) \cup {i} \subseteq Ahead(list, j)
    <3>1. i \in Ahead(list, j)
      BY <1>1, <1>4, <1>6 DEF Ahead
    <3>2. ASSUME NEW k \in 1..n, GoesInFront(list, k, i) PROVE GoesInFront(list, k, j)
      BY <1>1, <1>4, <1>6, <3>2 DEF GoesInFront
    <3> QED BY <1>1, <3>1, <3>2 DEF Ahead
  <2>2. Cardinality(Ahead(list, i) \cup {i}) = Cardinality(Ahead(list, i)) + 1
    BY <1>3, <1>4, FS_AddElement
  <2>3. Cardinality(Ahead(list, i) \cup {i}) <= Cardinality(Ahead(list, j))
    BY <1>3, <1>4, <2>1, FS_Subset
  <2> QED BY <1>3, <1>4, <2>2, <2>3 DEF Rank
<1>7. i # j => GoesInFront(list, i, j) \/ GoesInFront(list, j, i)
  BY <1>1, <1>4 DEF GoesInFront
<1> QED BY <1>5, <1>6, <1>7 DEF n

\* Every position is the rank of one element.
LEMMA OriginFacts ==
    ASSUME NEW list \in Seq(Filters)
    PROVE  /\ \A k \in 1..Len(list) :
                 Origin(list, k) \in 1..Len(list) /\ Rank(list, Origin(list, k)) = k
           /\ \A i \in 1..Len(list) :
                 Rank(list, i) \in 1..Len(list) /\ Origin(list, Rank(list, i)) = i
<1> DEFINE n == Len(list)
           f == [i \in 1..n |-> Rank(list, i)]
<1>1. n \in Nat /\ DOMAIN list = 1..n
  BY FilterFields
<1>2. \A i \in 1..n : Rank(list, i) \in 1..n
  BY RankGrows
<1>3. \A i, j \in 1..n : Rank(list, i) = Rank(list, j) => i = j
  <2> SUFFICES ASSUME NEW i \in 1..n, NEW j \in 1..n, Rank(list, i) = Rank(list, j), i # j
               PROVE  FALSE
    OBVIOUS
  <2>1. GoesInFront(list, i, j) \/ GoesInFront(list, j, i)
    BY RankGrows
  <2>2. Rank(list, i) < Rank(list, j) \/ Rank(list, j) < Rank(list, i)
    BY <2>1, RankGrows
  <2>3. Rank(list, i) \in Int /\ Rank(list, j) \in Int
    BY <1>2
  <2> QED BY <2>2, <2>3
<1>4. f \in Injection(1..n, 1..n)
  BY <1>2, <1>3, Zenon DEF Injection, IsInjective
<1>5. f \in Surjection(1..n, 1..n)
  <2>1. IsFiniteSet(1..n)
    BY <1>1, FS_Interval
  <2> HIDE DEF f
  <2> QED BY <1>4, <2>1, FS_Injection
<1>6. \A k \in 1..n : \E i \in 1..n : Rank(list, i) = k
  BY <1>5, Zenon DEF Surjection
<1>7. \A k \in 1..n : Origin(list, k) \in 1..n /\ Rank(list, Origin(list, k)) = k
  <2> TAKE k \in 1..n
  <2>1. \E i \in DOMAIN list : Rank(list, i) = k
    BY <1>1, <1>6
  <2>2. Origin(list, k) \in DOMAIN list /\ Rank(list, Origin(list, k)) = k
    BY <2>1, Zenon DEF Origin
  <2> QED BY <1>1, <2>2
<1>8. \A i \in 1..n : Origin(list, Rank(list, i)) = i
  BY <1>2, <1>3, <1>7
<1> QED BY <1>2, <1>7, <1>8

\* HTList_insertionSort sorts, and each element stays in the list.
LEMMA SortFacts ==
    ASSUME NEW list \in Seq(Filters)
    PROVE  LET p == InsertionSort(list)
           IN  /\ p \in Seq(Filters) /\ ByOrder(p)
               /\ Range(p) = Range(list)
               /\ EachOnce(list) => EachOnce(p)
<1> DEFINE n == Len(list)
           p == InsertionSort(list)
<1>1. n \in Nat /\ DOMAIN list = 1..n /\ \A i \in 1..n : list[i] \in Filters /\ list[i].order \in Nat
  BY FilterFields
<1>2. p = [k \in 1..n |-> list[Origin(list, k)]]
  BY <1>1 DEF InsertionSort, Origin, Rank, Ahead
<1>3. /\ \A k \in 1..n : Origin(list, k) \in 1..n /\ Rank(list, Origin(list, k)) = k
      /\ \A i \in 1..n : Rank(list, i) \in 1..n /\ Origin(list, Rank(list, i)) = i
  BY OriginFacts
<1> HIDE DEF p
<1>4. DOMAIN p = 1..n /\ \A k \in 1..n : p[k] = list[Origin(list, k)]
  BY <1>2
<1>5. p \in Seq(Filters)
  BY <1>1, <1>2, <1>3, SeqDef
<1>6. ByOrder(p)
  <2> SUFFICES ASSUME NEW k \in 1..n, NEW l \in 1..n, k < l
               PROVE  p[k].order <= p[l].order
    BY <1>4 DEF ByOrder
  <2> DEFINE i == Origin(list, k)
             j == Origin(list, l)
  <2>1. i \in 1..n /\ j \in 1..n /\ Rank(list, i) = k /\ Rank(list, j) = l
    BY <1>3
  <2> HIDE DEF i, j
  <2>2. GoesInFront(list, i, j)
    <3> SUFFICES ASSUME ~GoesInFront(list, i, j) PROVE FALSE
      OBVIOUS
    <3>1. i # j
      BY <2>1
    <3>2. GoesInFront(list, j, i)
      BY <2>1, <3>1, RankGrows
    <3>3. Rank(list, j) < Rank(list, i)
      BY <2>1, <3>2, RankGrows
    <3> QED BY <1>1, <2>1, <3>3
  <2>3. list[i].order <= list[j].order
    BY <1>1, <2>1, <2>2 DEF GoesInFront
  <2> QED BY <1>4, <2>3 DEF i, j
<1>7. Range(p) = Range(list)
  <2>1. \A k \in 1..n : p[k] \in Range(list)
    BY <1>1, <1>3, <1>4 DEF Range
  <2>2. \A i \in 1..n : list[i] \in Range(p)
    <3> TAKE i \in 1..n
    <3>1. p[Rank(list, i)] = list[i]
      BY <1>3, <1>4
    <3> QED BY <1>3, <1>4, <3>1 DEF Range
  <2> QED BY <1>1, <1>4, <2>1, <2>2 DEF Range
<1>8. ASSUME EachOnce(list) PROVE EachOnce(p)
  <2> SUFFICES ASSUME NEW k \in 1..n, NEW l \in 1..n, p[k].fn = p[l].fn
               PROVE  k = l
    BY <1>4 DEF EachOnce
  <2>1. Origin(list, k) = Origin(list, l)
    BY <1>1, <1>3, <1>4, <1>8 DEF EachOnce
  <2> QED BY <1>3, <2>1
<1> QED BY <1>5, <1>6, <1>7, <1>8 DEF p

LEMMA DeleteFilterFacts ==
    ASSUME NEW list \in Seq(Filters), NEW fn
    PROVE  LET p == DeleteFilter(list, fn)
           IN  /\ p \in Seq(Filters)
               /\ Range(p) = {x \in Range(list) : x.fn # fn}
               /\ EachOnce(list) => EachOnce(p)
<1> DEFINE K == {i \in DOMAIN list : list[i].fn # fn}
           n == Cardinality(K)
           p == Sublist(list, K)
<1>1. K \in SUBSET (DOMAIN list) /\ \A i \in DOMAIN list : i \in K <=> list[i].fn # fn
  OBVIOUS
<1>2. DOMAIN list = 1..Len(list)
  BY FilterFields
<1> HIDE DEF K
<1>3. /\ Sublist(list, K) \in Seq(Filters) /\ Cardinality(K) \in Nat
      /\ DOMAIN Sublist(list, K) = 1..Cardinality(K)
      /\ \A k \in 1..Cardinality(K) : Sublist(list, K)[k] = list[Nth(K, k)] /\ Nth(K, k) \in K
      /\ \A k, l \in 1..Cardinality(K) : k < l => Nth(K, k) < Nth(K, l)
      /\ \A i \in K : Place(K, i) \in 1..Cardinality(K) /\ Nth(K, Place(K, i)) = i
  BY <1>1, SublistFacts
<1>4. /\ p \in Seq(Filters) /\ n \in Nat /\ DOMAIN p = 1..n
      /\ \A k \in 1..n : p[k] = list[Nth(K, k)] /\ Nth(K, k) \in K
      /\ \A k, l \in 1..n : k < l => Nth(K, k) < Nth(K, l)
      /\ \A i \in K : Place(K, i) \in 1..n /\ Nth(K, Place(K, i)) = i
  BY <1>3
<1> HIDE DEF p, n
<1>5. Range(p) = {x \in Range(list) : x.fn # fn}
  <2>1. \A k \in 1..n : p[k] \in Range(list) /\ p[k].fn # fn
    BY <1>1, <1>4 DEF Range
  <2>2. \A i \in K : list[i] \in Range(p)
    <3> TAKE i \in K
    <3>1. p[Place(K, i)] = list[i]
      BY <1>4
    <3> QED BY <1>4, <3>1 DEF Range
  <2>3. \A x \in Range(list) : x.fn # fn => x \in Range(p)
    BY <1>1, <2>2 DEF Range
  <2>4. \A x \in Range(p) : x \in Range(list) /\ x.fn # fn
    BY <1>4, <2>1 DEF Range
  <2> QED BY <2>3, <2>4
<1>6. ASSUME EachOnce(list) PROVE EachOnce(p)
  <2> SUFFICES ASSUME NEW k \in 1..n, NEW l \in 1..n, p[k].fn = p[l].fn PROVE k = l
    BY <1>4 DEF EachOnce
  <2>1. Nth(K, k) = Nth(K, l) /\ Nth(K, k) \in Int
    <3>1. Nth(K, k) \in 1..Len(list) /\ Nth(K, l) \in 1..Len(list)
      BY <1>1, <1>2, <1>4
    <3> QED BY <1>2, <1>4, <1>6, <3>1 DEF EachOnce
  <2>2. ~(k < l) /\ ~(l < k)
    BY <1>4, <2>1
  <2> QED BY <2>2
<1> QED BY <1>4, <1>5, <1>6 DEF DeleteFilter, p, K

\* HTNet_addBefore and HTNet_addAfter: whatever the list was sorted like, it is
\* sorted now, the new filter is in it and nothing else of its function.
LEMMA AddGlobalFacts ==
    ASSUME NEW list \in Seq(Filters), NEW f \in Filters, EachOnce(list)
    PROVE  LET p == AddGlobal(list, f)
           IN  /\ p \in Seq(Filters) /\ ByOrder(p) /\ EachOnce(p)
               /\ Range(p) = {x \in Range(list) : x.fn # f.fn} \cup {f}
<1> DEFINE d == DeleteFilter(list, f.fn)
           q == <<f>> \o d
<1>1. /\ d \in Seq(Filters) /\ EachOnce(d)
      /\ Range(d) = {x \in Range(list) : x.fn # f.fn}
  BY DeleteFilterFacts
<1> HIDE DEF d
<1>2. Len(d) \in Nat /\ DOMAIN d = 1..Len(d)
  BY <1>1, FilterFields
<1>3. /\ q \in Seq(Filters) /\ DOMAIN q = 1..Len(d) + 1
      /\ q[1] = f /\ \A i \in 2..Len(d) + 1 : q[i] = d[i - 1]
  <2>1. <<f>> \in Seq(Filters) /\ Len(<<f>>) = 1 /\ <<f>>[1] = f
    OBVIOUS
  <2>2. /\ q \in Seq(Filters) /\ Len(q) = Len(<<f>>) + Len(d)
        /\ \A i \in 1..Len(<<f>>) + Len(d) :
              q[i] = IF i <= Len(<<f>>) THEN <<f>>[i] ELSE d[i - Len(<<f>>)]
    BY <1>1, <2>1, ConcatProperties
  <2> HIDE DEF q
  <2>3. Len(q) = Len(d) + 1 /\ DOMAIN q = 1..Len(q)
    BY <1>2, <2>1, <2>2, LenProperties
  <2>4. \A i \in 1..Len(d) + 1 : q[i] = IF i <= 1 THEN <<f>>[i] ELSE d[i - 1]
    BY <1>2, <2>1, <2>2
  <2> QED BY <1>2, <2>1, <2>2, <2>3, <2>4
<1> HIDE DEF q
<1>4. \A i \in DOMAIN q : \/ i = 1 /\ q[i] = f
                          \/ i \in Nat /\ i - 1 \in DOMAIN d /\ q[i] = d[i - 1]
  BY <1>2, <1>3
<1>5. \A i \in DOMAIN d : i + 1 \in DOMAIN q /\ q[i + 1] = d[i]
  BY <1>2, <1>3
<1>6. Range(q) = Range(d) \cup {f}
  <2>1. Range(q) \subseteq Range(d) \cup {f}
    BY <1>4 DEF Range
  <2>2. Range(d) \subseteq Range(q)
    BY <1>5 DEF Range
  <2>3. f \in Range(q)
    BY <1>2, <1>3 DEF Range
  <2> QED BY <2>1, <2>2, <2>3
<1>7. EachOnce(q)
  <2> SUFFICES ASSUME NEW i \in DOMAIN q, NEW j \in DOMAIN q, q[i].fn = q[j].fn PROVE i = j
    BY DEF EachOnce
  <2>1. \A k \in DOMAIN d : d[k].fn # f.fn
    BY <1>1 DEF Range
  <2>2. CASE i = 1 \/ j = 1
    BY <1>3, <1>4, <2>1, <2>2
  <2>3. CASE i # 1 /\ j # 1
    <3>1. /\ i - 1 \in DOMAIN d /\ j - 1 \in DOMAIN d /\ i \in Nat /\ j \in Nat
          /\ d[i - 1].fn = d[j - 1].fn
      BY <1>4, <2>3
    <3>2. i - 1 = j - 1
      BY <1>1, <3>1 DEF EachOnce
    <3> QED BY <3>1, <3>2
  <2> QED BY <2>2, <2>3
<1>8. AddGlobal(list, f) = InsertionSort(q)
  BY DEF AddGlobal, AddFilter, q, d
<1> QED BY <1>1, <1>3, <1>6, <1>7, <1>8, SortFacts

(***************************************************************************)
(* The invariant.                                                          *)
(***************************************************************************)
IsSeq(s) == s \in Seq(Range(s))

\* A call has the parts of its kind.
CallOK(c) ==
    \/ /\ c = [fn |-> c.fn, req |-> c.req, left |-> c.left]
       /\ c.fn \in {"before", "protocol"} /\ c.req \in Requests
    \/ /\ c = [fn |-> "after", req |-> c.req, left |-> c.left,
               status |-> c.status, to |-> c.to, refused |-> c.refused]
       /\ c.req \in Requests
       /\ c.status \in Statuses /\ c.to \in Urls \cup {NoUrl} /\ c.refused \in BOOLEAN

Live(c) == c.fn # "after" \/ c.left # <<>>

\* The part of a call that a Net object contradicts.
Pending(c) == Live(c) /\ c.fn # "protocol"

\* A list of AFTER filters that was called for a refused request.
Refused(c) == c.fn = "after" /\ c.refused /\ c.req \notin Preemptive

StackInv(s, rq, tm) ==
    /\ IsSeq(s)
    /\ \A i \in DOMAIN s : CallOK(s[i])
    /\ \A i \in DOMAIN s : i > 1 => s[i].fn = "after"
    /\ \A i, j \in DOMAIN s : Live(s[i]) /\ Live(s[j]) /\ s[i].req = s[j].req => i = j
    /\ \A i \in DOMAIN s : Pending(s[i]) => ~rq[s[i].req].net
    /\ \A t \in tm : /\ ~rq[t.req].net
                     /\ \A i \in DOMAIN s : Live(s[i]) => s[i].req # t.req
    /\ \A i \in DOMAIN s : Refused(s[i]) => i = Len(s)

DataInv ==
    /\ req \in [Requests -> Request]
    /\ known \in [Realms -> {"none", "empty", "ask", "known"}]
    /\ timers \subseteq [req : Requests, status : {"ERROR"}]
    /\ owed \in [Requests -> Int]

CredsInv == \A r \in Requests : req[r].creds \in {NoRealm, RealmOf[req[r].url]}

IInv == DataInv /\ CredsInv /\ StackInv(stack, req, timers)

(***************************************************************************)
(* Sequences whose elements have no set of their own.                      *)
(***************************************************************************)
\* A call on top of a stack.
LEMMA PushSeq ==
    ASSUME NEW s, IsSeq(s), NEW c
    PROVE  LET p == <<c>> \o s
           IN  /\ IsSeq(p) /\ Len(p) = Len(s) + 1 /\ Len(s) \in Nat
               /\ DOMAIN p = 1..Len(s) + 1 /\ DOMAIN s = 1..Len(s)
               /\ p[1] = c
               /\ \A i \in 1..Len(s) : p[i + 1] = s[i]
               /\ \A i \in 2..Len(s) + 1 : p[i] = s[i - 1]
               /\ Head(p) = c /\ Tail(p) = s /\ p # <<>>
<1> DEFINE S == Range(s) \cup {c}
           p == <<c>> \o s
<1>1. s \in Seq(S)
  <2>1. Range(s) \subseteq S
    OBVIOUS
  <2> QED BY <2>1, SeqMonotonic DEF IsSeq
<1>2. <<c>> \in Seq(S) /\ Len(<<c>>) = 1 /\ <<c>>[1] = c
  OBVIOUS
<1> HIDE DEF S
<1>3. /\ p \in Seq(S) /\ Len(p) = Len(s) + 1 /\ Len(s) \in Nat
      /\ DOMAIN p = 1..Len(p) /\ DOMAIN s = 1..Len(s)
      /\ p[1] = c
      /\ \A i \in 1..Len(s) : p[i + 1] = s[i]
      /\ \A i \in 2..Len(s) + 1 : p[i] = s[i - 1]
  BY <1>1, <1>2, ConcatProperties, LenProperties
<1>4. IsSeq(p)
  BY <1>3, SeqOfRange DEF IsSeq
<1>5. p # <<>> /\ Head(p) = c
  BY <1>3
<1>6. Tail(p) = s
  <2>1. Tail(p) \in Seq(S) /\ Len(Tail(p)) = Len(s) /\ \A i \in 1..Len(s) : Tail(p)[i] = s[i]
    BY <1>3, <1>5, HeadTailProperties
  <2> QED BY <2>1, <1>1, SeqEqual
<1> QED BY <1>3, <1>4, <1>5, <1>6

\* The stack without its top.
LEMMA TailSeq ==
    ASSUME NEW s, IsSeq(s), s # <<>>
    PROVE  LET p == Tail(s)
           IN  /\ IsSeq(p) /\ Len(p) = Len(s) - 1 /\ Len(s) \in Nat \ {0}
               /\ DOMAIN p = 1..Len(s) - 1 /\ DOMAIN s = 1..Len(s)
               /\ Head(s) = s[1]
               /\ \A i \in 1..Len(s) - 1 : p[i] = s[i + 1]
<1> DEFINE p == Tail(s)
<1>1. /\ p \in Seq(Range(s)) /\ Len(p) = Len(s) - 1 /\ Len(s) \in Nat \ {0}
      /\ DOMAIN p = 1..Len(s) - 1 /\ DOMAIN s = 1..Len(s)
      /\ Head(s) = s[1]
      /\ \A i \in 1..Len(s) - 1 : p[i] = s[i + 1]
  BY HeadTailProperties, LenProperties, EmptySeq DEF IsSeq
<1>2. IsSeq(p)
  BY <1>1, SeqOfRange DEF IsSeq
<1> QED BY <1>1, <1>2

\* Another call in the place of the top one.
LEMMA ReplaceSeq ==
    ASSUME NEW s, IsSeq(s), s # <<>>, NEW c
    PROVE  LET p == <<c>> \o Tail(s)
           IN  /\ IsSeq(p) /\ Len(p) = Len(s) /\ DOMAIN p = DOMAIN s
               /\ p[1] = c /\ p # <<>>
               /\ \A i \in DOMAIN s : i > 1 => p[i] = s[i]
               /\ 1 \in DOMAIN s /\ \A i \in DOMAIN s : i \in Nat /\ (i = 1 \/ i > 1)
<1> DEFINE p == <<c>> \o Tail(s)
<1>1. /\ IsSeq(Tail(s)) /\ Len(Tail(s)) = Len(s) - 1 /\ Len(s) \in Nat \ {0}
      /\ DOMAIN s = 1..Len(s)
      /\ \A i \in 1..Len(s) - 1 : Tail(s)[i] = s[i + 1]
  BY TailSeq
<1>2. /\ IsSeq(p) /\ Len(p) = Len(s) - 1 + 1 /\ DOMAIN p = 1..Len(s) - 1 + 1 /\ p[1] = c /\ p # <<>>
      /\ \A i \in 2..Len(s) - 1 + 1 : p[i] = Tail(s)[i - 1]
  BY <1>1, PushSeq
<1>3. 1 \in DOMAIN s /\ \A i \in DOMAIN s : i \in Nat /\ (i = 1 \/ i > 1)
  BY <1>1
<1> QED BY <1>1, <1>2, <1>3

(***************************************************************************)
(* What the steps do with the stack.                                       *)
(***************************************************************************)
\* The top of the stack returns.
LEMMA PopInv ==
    ASSUME NEW s, NEW rq, NEW tm, StackInv(s, rq, tm), s # <<>>
    PROVE  StackInv(Tail(s), rq, tm)
<1> DEFINE p == Tail(s)
<1>1. /\ IsSeq(p) /\ Len(p) = Len(s) - 1 /\ Len(s) \in Nat \ {0}
      /\ DOMAIN p = 1..Len(s) - 1 /\ DOMAIN s = 1..Len(s)
      /\ \A i \in 1..Len(s) - 1 : p[i] = s[i + 1]
  BY TailSeq DEF StackInv
<1>2. \A i \in DOMAIN p : i \in Nat /\ i + 1 \in DOMAIN s /\ p[i] = s[i + 1] /\ i + 1 > 1
  BY <1>1
<1> HIDE DEF p
<1>3. \A i, j \in DOMAIN p : Live(p[i]) /\ Live(p[j]) /\ p[i].req = p[j].req => i = j
  BY <1>2 DEF StackInv
<1>4. \A i \in DOMAIN p : CallOK(p[i]) /\ p[i].fn = "after" /\ (Pending(p[i]) => ~rq[p[i].req].net)
  BY <1>2 DEF StackInv
<1>5. \A t \in tm : /\ ~rq[t.req].net
                    /\ \A i \in DOMAIN p : Live(p[i]) => p[i].req # t.req
  BY <1>2 DEF StackInv
<1>6. \A i \in DOMAIN p : Refused(p[i]) => i = Len(p)
  BY <1>1, <1>2 DEF StackInv
<1> QED BY <1>1, <1>3, <1>4, <1>5, <1>6 DEF StackInv, p

\* A call on top of a stack of lists that are through with its request.
LEMMA PushInv ==
    ASSUME NEW s, NEW rq, NEW tm, StackInv(s, rq, tm), NEW c, CallOK(c),
           \A i \in DOMAIN s : s[i].fn = "after" /\ (Live(s[i]) => s[i].req # c.req),
           Pending(c) => ~rq[c.req].net,
           \A t \in tm : t.req # c.req,
           Refused(c) => s = <<>>
    PROVE  StackInv(<<c>> \o s, rq, tm)
<1> DEFINE p == <<c>> \o s
<1>1. /\ IsSeq(p) /\ Len(p) = Len(s) + 1 /\ Len(s) \in Nat
      /\ DOMAIN p = 1..Len(s) + 1 /\ DOMAIN s = 1..Len(s) /\ p[1] = c
      /\ \A i \in 2..Len(s) + 1 : p[i] = s[i - 1]
  BY PushSeq DEF StackInv
<1>2. \A i \in DOMAIN p : \/ i = 1 /\ p[i] = c
                          \/ i > 1 /\ i - 1 \in DOMAIN s /\ p[i] = s[i - 1] /\ i \in Nat
  BY <1>1
<1> HIDE DEF p
<1>3. \A i, j \in DOMAIN p : Live(p[i]) /\ Live(p[j]) /\ p[i].req = p[j].req => i = j
  BY <1>2 DEF StackInv
<1>4. \A i \in DOMAIN p : /\ CallOK(p[i]) /\ (i > 1 => p[i].fn = "after")
                          /\ (Pending(p[i]) => ~rq[p[i].req].net)
  BY <1>2 DEF StackInv
<1>5. \A t \in tm : /\ ~rq[t.req].net
                    /\ \A i \in DOMAIN p : Live(p[i]) => p[i].req # t.req
  BY <1>2 DEF StackInv
<1>6. \A i \in DOMAIN p : Refused(p[i]) => i = Len(p)
  <2> SUFFICES ASSUME NEW i \in DOMAIN p, Refused(p[i]) PROVE i = Len(p)
    OBVIOUS
  <2>1. CASE i = 1
    <3>1. s = <<>>
      BY <2>1, <1>2
    <3> QED BY <3>1, <2>1, <1>1
  <2>2. CASE i > 1
    BY <2>2, <1>2, <1>1 DEF StackInv
  <2> QED BY <2>1, <2>2, <1>2
<1> QED BY <1>1, <1>3, <1>4, <1>5, <1>6 DEF StackInv, p

\* The live call on top becomes another one of its request.
LEMMA ReplaceInv ==
    ASSUME NEW s, NEW rq, NEW tm, StackInv(s, rq, tm), s # <<>>, Live(s[1]),
           NEW c, CallOK(c), c.req = s[1].req,
           NEW rq2, \A r \in Requests : r # c.req => rq2[r].net = rq[r].net,
           Pending(c) => ~rq2[c.req].net,
           \A t \in tm : t.req \in Requests,
           Refused(c) => Refused(s[1])
    PROVE  StackInv(<<c>> \o Tail(s), rq2, tm)
<1> DEFINE p == <<c>> \o Tail(s)
<1>2. /\ IsSeq(p) /\ Len(p) = Len(s) /\ DOMAIN p = DOMAIN s /\ p[1] = c
      /\ \A i \in DOMAIN s : i > 1 => p[i] = s[i]
  BY ReplaceSeq DEF StackInv
<1>3. 1 \in DOMAIN s /\ \A i \in DOMAIN s : i \in Nat /\ (i = 1 \/ i > 1)
  BY ReplaceSeq DEF StackInv
<1> HIDE DEF p
<1>4. \A i \in DOMAIN p : i > 1 => p[i].req # c.req \/ ~Live(p[i])
  <2> SUFFICES ASSUME NEW i \in DOMAIN p, i > 1, Live(p[i]) PROVE p[i].req # c.req
    OBVIOUS
  <2>1. i \in DOMAIN s /\ p[i] = s[i] /\ i # 1
    BY <1>2, <1>3
  <2> QED BY <2>1, <1>3 DEF StackInv
<1>5. \A i, j \in DOMAIN p : Live(p[i]) /\ Live(p[j]) /\ p[i].req = p[j].req => i = j
  BY <1>2, <1>3, <1>4 DEF StackInv
<1>6. \A i \in DOMAIN p : CallOK(p[i]) /\ (i > 1 => p[i].fn = "after")
  BY <1>2, <1>3 DEF StackInv
<1>7. \A i \in DOMAIN p : Pending(p[i]) => ~rq2[p[i].req].net
  <2> SUFFICES ASSUME NEW i \in DOMAIN p, Pending(p[i]), i > 1 PROVE ~rq2[p[i].req].net
    BY <1>2, <1>3
  <2>1. p[i].req \in Requests /\ p[i].req # c.req /\ p[i] = s[i] /\ i \in DOMAIN s
    BY <1>2, <1>4, <1>6 DEF CallOK, Pending
  <2> QED BY <2>1 DEF StackInv
<1>8. \A t \in tm : t.req # c.req /\ ~rq2[t.req].net
  BY <1>3 DEF StackInv
<1>9. \A t \in tm, i \in DOMAIN p : Live(p[i]) => p[i].req # t.req
  BY <1>2, <1>3, <1>8 DEF StackInv
<1>10. \A i \in DOMAIN p : Refused(p[i]) => i = Len(p)
  BY <1>2, <1>3 DEF StackInv
<1> QED BY <1>2, <1>4, <1>5, <1>6, <1>7, <1>8, <1>9, <1>10 DEF StackInv, p

\* Fewer Net objects contradict nothing.
LEMMA NetInv ==
    ASSUME NEW s, NEW rq, NEW tm, StackInv(s, rq, tm), \A t \in tm : t.req \in Requests,
           NEW rq2, \A r \in Requests : rq2[r].net => rq[r].net
    PROVE  StackInv(s, rq2, tm)
<1>1. \A i \in DOMAIN s : s[i].req \in Requests
  BY DEF StackInv, CallOK
<1> QED BY <1>1 DEF StackInv

\* A list of filters, shortened.
LEMMA LeftInv ==
    ASSUME NEW c, CallOK(c), NEW x
    PROVE  LET d == [c EXCEPT !.left = x]
           IN  /\ CallOK(d) /\ d.req = c.req /\ d.fn = c.fn /\ d.left = x
               /\ Refused(d) <=> Refused(c)
<1>1. CASE c = [fn |-> c.fn, req |-> c.req, left |-> c.left]
           /\ c.fn \in {"before", "protocol"} /\ c.req \in Requests
  <2>1. [c EXCEPT !.left = x] = [fn |-> c.fn, req |-> c.req, left |-> x]
    BY <1>1
  <2> QED BY <2>1, <1>1 DEF CallOK, Refused
<1>2. CASE /\ c = [fn |-> "after", req |-> c.req, left |-> c.left,
                   status |-> c.status, to |-> c.to, refused |-> c.refused]
           /\ c.req \in Requests
           /\ c.status \in Statuses /\ c.to \in Urls \cup {NoUrl} /\ c.refused \in BOOLEAN
  <2>1. [c EXCEPT !.left = x] =
           [fn |-> "after", req |-> c.req, left |-> x,
            status |-> c.status, to |-> c.to, refused |-> c.refused]
    BY <1>2
  <2>2. c.fn = "after"
    BY <1>2
  <2> QED BY <2>1, <2>2, <1>2 DEF CallOK, Refused
<1> QED BY <1>1, <1>2 DEF CallOK

\* The calls the library makes.
LEMMA NewCalls ==
    ASSUME NEW r \in Requests, NEW u
    PROVE  /\ CallOK(BeforeCall(r, u)) /\ BeforeCall(r, u).req = r
           /\ BeforeCall(r, u).fn = "before" /\ ~Refused(BeforeCall(r, u))
           /\ CallOK(ProtocolCall(r)) /\ ProtocolCall(r).req = r
           /\ ProtocolCall(r).fn = "protocol" /\ ~Refused(ProtocolCall(r))
<1>1. CallOK(BeforeCall(r, u)) /\ BeforeCall(r, u).req = r
      /\ BeforeCall(r, u).fn = "before" /\ ~Refused(BeforeCall(r, u))
  BY DEF BeforeCall, CallOK, Refused
<1>2. CallOK(ProtocolCall(r)) /\ ProtocolCall(r).req = r
      /\ ProtocolCall(r).fn = "protocol" /\ ~Refused(ProtocolCall(r))
  BY DEF ProtocolCall, CallOK, Refused
<1> QED BY <1>1, <1>2

LEMMA NewAfterCall ==
    ASSUME NEW r \in Requests, NEW status \in Statuses, NEW to \in Urls \cup {NoUrl},
           NEW b \in BOOLEAN
    PROVE  LET c == AfterCall(r, status, to, b)
           IN  /\ CallOK(c) /\ c.req = r /\ c.fn = "after"
               /\ Refused(c) <=> b /\ r \notin Preemptive
  BY DEF AfterCall, CallOK, Refused

\* What is known of the call on top.
LEMMA TopFacts ==
    ASSUME IInv, stack # <<>>
    PROVE  /\ Top = stack[1] /\ 1 \in DOMAIN stack /\ CallOK(Top)
           /\ Top.req \in Requests
           /\ Top.fn = "after" =>
                 Top.status \in Statuses /\ Top.to \in Urls \cup {NoUrl} /\ Top.refused \in BOOLEAN
           /\ Pending(Top) => ~req[Top.req].net
           /\ \A t \in timers : t.req \in Requests
<1>1. Top = stack[1] /\ 1 \in DOMAIN stack
  BY TailSeq DEF Top, IInv, StackInv
<1>2. CallOK(Top) /\ (Pending(Top) => ~req[Top.req].net)
  BY <1>1 DEF IInv, StackInv
<1>3. \A t \in timers : t.req \in Requests
  BY DEF IInv, DataInv
<1> QED BY <1>1, <1>2, <1>3 DEF CallOK

\* The filter called says that the next one may be called.
LEMMA FilterOkInv ==
    ASSUME IInv, stack # <<>>, Top.left # <<>>, Top.fn # "protocol",
           FilterOk, UNCHANGED timers,
           \A r \in Requests : r # Top.req => req'[r].net = req[r].net,
           req'[Top.req].net => req[Top.req].net
    PROVE  StackInv(stack', req', timers')
<1>1. /\ Top = stack[1] /\ CallOK(Top) /\ (Pending(Top) => ~req[Top.req].net)
      /\ \A t \in timers : t.req \in Requests
  BY TopFacts
<1>2. /\ CallOK(NextFilter) /\ NextFilter.req = Top.req /\ NextFilter.fn = Top.fn
      /\ Refused(NextFilter) <=> Refused(Top)
  BY <1>1, LeftInv DEF NextFilter
<1>3. Live(Top) /\ Pending(Top)
  BY DEF Live, Pending
<1>4. StackInv(stack, req, timers)
  BY DEF IInv
<1>5. StackInv(<<NextFilter>> \o Tail(stack), req', timers)
  BY <1>1, <1>2, <1>3, <1>4, ReplaceInv
<1> QED BY <1>5 DEF FilterOk

\* A filter starts a request: its call comes on top of the list it is in.
LEMMA TwoOnTop ==
    ASSUME NEW s, IsSeq(s), NEW b, NEW c
    PROVE  <<b>> \o <<c>> \o s = <<b>> \o (<<c>> \o s)
<1> DEFINE S == Range(s) \cup {b, c}
<1>1. s \in Seq(S)
  <2>1. Range(s) \subseteq S
    OBVIOUS
  <2> QED BY <2>1, SeqMonotonic DEF IsSeq
<1>2. b \in S /\ c \in S
  BY Zenon
<1> HIDE DEF S
<1>5. <<b>> \in Seq(S) /\ <<c>> \in Seq(S)
  BY <1>2
<1>3. (<<b>> \o <<c>>) \o s = <<b>> \o (<<c>> \o s)
  BY <1>1, <1>5, ConcatAssociative
<1> QED BY <1>3

\* A BEFORE filter refuses a request.
LEMMA RefuseInv ==
    ASSUME IInv, stack # <<>>, Top.fn = "before", Refuse, UNCHANGED req
    PROVE  StackInv(stack', req', timers') /\ timers' \subseteq [req : Requests, status : {"ERROR"}]
<1> DEFINE c == AfterCall(Top.req, "ERROR", NoUrl, TRUE)
<1>1. /\ Top = stack[1] /\ Top.req \in Requests /\ ~req[Top.req].net /\ 1 \in DOMAIN stack
      /\ \A t \in timers : t.req \in Requests
      /\ Live(Top)
  BY TopFacts DEF Pending, Live
<1>2. StackInv(stack, req, timers) /\ timers \subseteq [req : Requests, status : {"ERROR"}]
  BY DEF IInv, DataInv
<1>3. CASE Top.req \in Preemptive
  <2>1. CallOK(c) /\ c.req = Top.req /\ ~Refused(c)
    <3>1. "ERROR" \in Statuses /\ NoUrl \in Urls \cup {NoUrl} /\ TRUE \in BOOLEAN
      BY DEF Statuses
    <3>2. Top.req \in Requests
      BY <1>1
    <3>3. CallOK(c) /\ c.req = Top.req
      BY <3>1, <3>2 DEF AfterCall, CallOK
    <3>4. c.req \in Preemptive
      BY <3>3, <1>3
    <3> QED BY <3>3, <3>4 DEF Refused
  <2> HIDE DEF c
  <2>2. StackInv(<<c>> \o Tail(stack), req, timers)
    BY <1>1, <1>2, <2>1, ReplaceInv
  <2>3. stack' = <<c>> \o Tail(stack) /\ timers' = timers
    BY <1>3 DEF Refuse, c
  <2> QED BY <2>2, <2>3, <1>2
<1>4. CASE Top.req \notin Preemptive
  <2> DEFINE t == [req |-> Top.req, status |-> "ERROR"]
  <2>1. stack' = Tail(stack) /\ timers' = timers \cup {t}
    BY <1>4 DEF Refuse, Return
  <2>2. StackInv(Tail(stack), req, timers)
    BY <1>2, PopInv
  <2>3. \A i \in DOMAIN Tail(stack) : Live(Tail(stack)[i]) => Tail(stack)[i].req # t.req
    <3>1. /\ DOMAIN Tail(stack) = 1..Len(stack) - 1 /\ DOMAIN stack = 1..Len(stack)
          /\ Len(stack) \in Nat
          /\ \A i \in 1..Len(stack) - 1 : Tail(stack)[i] = stack[i + 1]
      BY <1>2, TailSeq DEF StackInv
    <3>2. \A i \in DOMAIN Tail(stack) :
             i + 1 \in DOMAIN stack /\ i + 1 # 1 /\ Tail(stack)[i] = stack[i + 1]
      BY <3>1
    <3> QED BY <3>2, <1>1, <1>2 DEF StackInv
  <2>4. t.req = Top.req /\ t \in [req : Requests, status : {"ERROR"}]
    BY <1>1
  <2> HIDE DEF t
  <2>5. StackInv(Tail(stack), req, timers \cup {t})
    BY <2>2, <2>3, <2>4, <1>1 DEF StackInv
  <2> QED BY <2>1, <2>4, <2>5, <1>2
<1> QED BY <1>3, <1>4

\* A request is started from the list of filters that is on top, which goes on or
\* does not.
LEMMA StartInv ==
    ASSUME IInv, stack # <<>>, Top.fn = "after", Top.left # <<>>, UNCHANGED timers,
           NEW x, NEW q \in Requests, NEW u,
           stack' = <<BeforeCall(q, u)>> \o <<[Top EXCEPT !.left = x]>> \o Tail(stack),
           q = Top.req => x = <<>>,
           q # Top.req => /\ \A i \in DOMAIN stack : stack[i].req # q
                          /\ \A t \in timers : t.req # q,
           \A r \in Requests : req'[r].net => req[r].net /\ r # q,
           \A r \in Requests : r # Top.req => (req'[r].net => req[r].net)
    PROVE  StackInv(stack', req', timers')
<1> DEFINE d == [Top EXCEPT !.left = x]
           p == <<d>> \o Tail(stack)
           b == BeforeCall(q, u)
<1>1. /\ Top = stack[1] /\ CallOK(Top) /\ Top.req \in Requests /\ ~req[Top.req].net
      /\ \A t \in timers : t.req \in Requests
      /\ Live(Top) /\ 1 \in DOMAIN stack
  BY TopFacts DEF Pending, Live
<1>2. StackInv(stack, req, timers)
  BY DEF IInv
<1>3. /\ CallOK(d) /\ d.req = Top.req /\ d.fn = Top.fn /\ d.left = x
      /\ Refused(d) <=> Refused(Top)
  <2>1. CallOK(Top)
    BY <1>1
  <2> QED BY <2>1, LeftInv
<1>4. CallOK(b) /\ b.req = q /\ b.fn = "before" /\ ~Refused(b)
  BY NewCalls
<1>5. stack' = <<b>> \o p
  <2>1. IsSeq(Tail(stack))
    BY <1>2, TailSeq DEF StackInv
  <2> QED BY <2>1, TwoOnTop
<1> HIDE DEF d, b
<1>7. /\ StackInv(p, req, timers)
      /\ \A t \in timers : t.req # d.req
      /\ p[1] = d /\ p # <<>> /\ DOMAIN p = DOMAIN stack
      /\ \A i \in DOMAIN stack : i > 1 => p[i] = stack[i]
  <2>1. /\ Live(stack[1]) /\ CallOK(d) /\ d.req = stack[1].req
        /\ Pending(d) => ~req[d.req].net
        /\ Refused(d) => Refused(stack[1])
    BY <1>1, <1>3
  <2>2. \A r \in Requests : r # d.req => req[r].net = req[r].net
    OBVIOUS
  <2>3. StackInv(p, req, timers)
    BY <1>1, <1>2, <2>1, <2>2, ReplaceInv
  <2>4. \A t \in timers : t.req # d.req
    BY <1>1, <1>2, <2>1 DEF StackInv
  <2>5. /\ p[1] = d /\ p # <<>> /\ DOMAIN p = DOMAIN stack
        /\ \A i \in DOMAIN stack : i > 1 => p[i] = stack[i]
    BY <1>2, ReplaceSeq DEF StackInv
  <2> QED BY <2>3, <2>4, <2>5
<1>6. \A i \in DOMAIN stack : i = 1 \/ i > 1
  BY <1>2, TailSeq DEF StackInv
<1> HIDE DEF p
<1>9. \A i \in DOMAIN p : p[i].fn = "after"
  BY <1>3, <1>6, <1>7 DEF StackInv
<1>10. \A i \in DOMAIN p : Live(p[i]) => p[i].req # q
  <2> SUFFICES ASSUME NEW i \in DOMAIN p, Live(p[i]) PROVE p[i].req # q
    OBVIOUS
  <2>1. CASE i = 1
    BY <2>1, <1>3, <1>7 DEF Live
  <2>2. CASE i > 1
    <3>1. p[i] = stack[i] /\ i \in DOMAIN stack /\ i # 1
      BY <2>2, <1>7
    <3>2. p[i].req # Top.req
      BY <3>1, <1>1, <1>2 DEF StackInv
    <3> QED BY <3>1, <3>2
  <2> QED BY <2>1, <2>2, <1>6, <1>7
<1>11. \A t \in timers : t.req # q
  BY <1>3, <1>7
<1>12. StackInv(p, req', timers)
  BY <1>1, <1>7, NetInv
<1>13. StackInv(<<b>> \o p, req', timers)
  <2>1. Pending(b) => ~req'[b.req].net
    BY <1>4
  <2> QED BY <1>4, <1>9, <1>10, <1>11, <1>12, <2>1, PushInv
<1> QED BY <1>5, <1>13

(***************************************************************************)
(* The steps.                                                              *)
(***************************************************************************)
\* The requests, the realms, the timers and the counts stay as they are.
LEMMA KeepData ==
    ASSUME IInv, UNCHANGED <<req, known, timers, owed>>, StackInv(stack', req', timers')
    PROVE  IInv'
  BY DEF IInv, DataInv, CredsInv

LEMMA NewRequest ==
    /\ NoRequest \in Request
    /\ \A u \in Urls, m \in Methods :
          LET q == [NoRequest EXCEPT !.alive = TRUE, !.url = u, !.method = m]
          IN  q \in Request /\ q.url = u /\ q.net = FALSE /\ q.creds = NoRealm
    /\ NoRequest.net = FALSE /\ NoRequest.creds = NoRealm
<1> DEFINE w == CHOOSE u \in Urls : TRUE
<1>1. w \in Urls
  BY RequestAssumption
<1>2. NoRequest = [alive |-> FALSE, url |-> w, method |-> "GET", net |-> FALSE,
                   retrys |-> 0, AAretrys |-> 0, creds |-> NoRealm, asked |-> 0]
  BY DEF NoRequest
<1> HIDE DEF w
<1>3. NoRequest \in Request
  BY <1>1, <1>2 DEF Request, Methods
<1>4. NoRequest.net = FALSE /\ NoRequest.creds = NoRealm
  BY <1>2
<1>5. ASSUME NEW u \in Urls, NEW m \in Methods
      PROVE  LET q == [NoRequest EXCEPT !.alive = TRUE, !.url = u, !.method = m]
             IN  q \in Request /\ q.url = u /\ q.net = FALSE /\ q.creds = NoRealm
  <2> DEFINE q == [NoRequest EXCEPT !.alive = TRUE, !.url = u, !.method = m]
  <2>1. q \in Request
    BY <1>3 DEF Request
  <2>2. q.url = u /\ q.net = NoRequest.net /\ q.creds = NoRequest.creds
    BY <1>3 DEF Request
  <2> QED BY <1>4, <2>1, <2>2
<1> QED BY <1>3, <1>4, <1>5

\* One request object is changed.
LEMMA RequestStep ==
    ASSUME DataInv, CredsInv, NEW r \in Requests, NEW q \in Request,
           q.creds \in {NoRealm, RealmOf[q.url]}, req' = [req EXCEPT ![r] = q]
    PROVE  /\ req' \in [Requests -> Request] /\ CredsInv'
           /\ req'[r] = q /\ \A s \in Requests : s # r => req'[s] = req[s]
<1>1. req \in [Requests -> Request]
  BY DEF DataInv
<1>2. req' \in [Requests -> Request] /\ req'[r] = q /\ \A s \in Requests : s # r => req'[s] = req[s]
  BY <1>1
<1>3. CredsInv'
  <2> SUFFICES ASSUME NEW s \in Requests
               PROVE  req'[s].creds \in {NoRealm, RealmOf[req'[s].url]}
    BY DEF CredsInv
  <2> QED BY <1>2 DEF CredsInv
<1> QED BY <1>2, <1>3

LEMMA InitInv ==
    ASSUME Init
    PROVE  IInv
<1>1. DataInv /\ CredsInv
  <2>1. /\ req = [r \in Requests |-> NoRequest] /\ timers = {}
        /\ known = [a \in Realms |-> "none"] /\ owed = [r \in Requests |-> 0]
    BY DEF Init
  <2>2. NoRequest \in Request /\ NoRequest.creds = NoRealm
    BY NewRequest
  <2>3. DataInv
    BY <2>1, <2>2 DEF DataInv
  <2>4. CredsInv
    BY <2>1, <2>2 DEF CredsInv
  <2> QED BY <2>3, <2>4
<1>2. StackInv(stack, req, timers)
  <2>1. stack = <<>> /\ timers = {}
    BY DEF Init
  <2>2. DOMAIN stack = {} /\ IsSeq(stack)
    BY <2>1 DEF IsSeq
  <2> QED BY <2>1, <2>2 DEF StackInv
<1> QED BY <1>1, <1>2 DEF IInv

LEMMA RegisterInv ==
    ASSUME IInv, Register
    PROVE  IInv'
<1>1. StackInv(stack', req', timers')
  BY DEF Register, IInv
<1> QED BY <1>1, KeepData DEF Register

LEMMA AppLoadInv ==
    ASSUME IInv, NEW r \in Requests, NEW u \in Urls, NEW m \in Methods, AppLoad(r, u, m)
    PROVE  IInv'
<1> DEFINE c == BeforeCall(r, u)
<1>1. /\ stack = <<>> /\ DOMAIN stack = {} /\ Unused(r)
      /\ req' = [req EXCEPT ![r] = [NoRequest EXCEPT !.alive = TRUE, !.url = u, !.method = m]]
      /\ owed' = [owed EXCEPT ![r] = @ + 1]
      /\ UNCHANGED <<known, timers>> /\ stack' = <<c>> \o stack
  BY DEF AppLoad, NewLoad, Push
<1>2. CallOK(c) /\ c.req = r /\ c.fn = "before" /\ ~Refused(c)
  BY NewCalls
<1>3. DataInv /\ CredsInv /\ StackInv(stack, req, timers)
  BY DEF IInv
<1>4. /\ \A q \in Requests : req'[q].net => req[q].net
      /\ ~req'[r].net /\ DataInv' /\ CredsInv'
  <2> DEFINE q == [NoRequest EXCEPT !.alive = TRUE, !.url = u, !.method = m]
  <2>1. q \in Request /\ q.net = FALSE /\ q.creds = NoRealm /\ req' = [req EXCEPT ![r] = q]
    BY <1>1, NewRequest
  <2> HIDE DEF q
  <2>2. /\ req' \in [Requests -> Request] /\ CredsInv'
        /\ req'[r] = q /\ \A s \in Requests : s # r => req'[s] = req[s]
    BY <1>3, <2>1, RequestStep
  <2>3. owed' \in [Requests -> Int]
    BY <1>1, <1>3 DEF DataInv
  <2> QED BY <1>1, <1>3, <2>1, <2>2, <2>3 DEF DataInv
<1> HIDE DEF c
<1>5. StackInv(stack, req', timers)
  BY <1>3, <1>4, NetInv DEF DataInv
<1>6. StackInv(<<c>> \o stack, req', timers)
  <2>1. \A t \in timers : t.req # c.req
    BY <1>1, <1>2 DEF Unused
  <2>2. \A i \in DOMAIN stack : stack[i].fn = "after" /\ (Live(stack[i]) => stack[i].req # c.req)
    BY <1>1
  <2>3. Pending(c) => ~req'[c.req].net
    BY <1>2, <1>4
  <2> QED BY <1>2, <1>5, <2>1, <2>2, <2>3, PushInv
<1> QED BY <1>1, <1>4, <1>6 DEF IInv

LEMMA NoProtocolInv ==
    ASSUME IInv, NoProtocol
    PROVE  IInv'
<1>1. /\ stack # <<>> /\ stack' = Tail(stack) /\ UNCHANGED <<known, timers>>
      /\ \/ /\ req' = [req EXCEPT ![Top.req] = NoRequest]
            /\ owed' = [owed EXCEPT ![Top.req] = @ - 1]
         \/ UNCHANGED <<req, owed>>
  BY DEF NoProtocol, Running, Return
<1>2. Top.req \in Requests
  BY <1>1, TopFacts
<1>3. DataInv /\ CredsInv /\ StackInv(stack, req, timers)
  BY DEF IInv
<1>4. /\ \A q \in Requests : req'[q].net => req[q].net
      /\ DataInv' /\ CredsInv'
  <2>1. CASE UNCHANGED <<req, owed>>
    BY <1>1, <1>3, <2>1 DEF DataInv, CredsInv
  <2>2. CASE /\ req' = [req EXCEPT ![Top.req] = NoRequest]
             /\ owed' = [owed EXCEPT ![Top.req] = @ - 1]
    <3>1. NoRequest \in Request /\ NoRequest.net = FALSE /\ NoRequest.creds = NoRealm
      BY NewRequest
    <3>2. /\ req' \in [Requests -> Request] /\ CredsInv'
          /\ req'[Top.req] = NoRequest
          /\ \A s \in Requests : s # Top.req => req'[s] = req[s]
      BY <1>2, <1>3, <2>2, <3>1, RequestStep
    <3>3. owed' \in [Requests -> Int]
      BY <1>2, <1>3, <2>2 DEF DataInv
    <3> QED BY <1>1, <1>3, <3>1, <3>2, <3>3 DEF DataInv
  <2> QED BY <1>1, <2>1, <2>2
<1>5. StackInv(Tail(stack), req, timers)
  BY <1>1, <1>3, PopInv
<1>6. StackInv(Tail(stack), req', timers)
  BY <1>3, <1>4, <1>5, NetInv DEF DataInv
<1> QED BY <1>1, <1>4, <1>6 DEF IInv

LEMMA StartProtocolInv ==
    ASSUME IInv, StartProtocol
    PROVE  IInv'
<1> DEFINE r == Top.req
           c == ProtocolCall(r)
<1>1. /\ stack # <<>> /\ Top.fn = "before"
      /\ req' = [req EXCEPT ![r].net = TRUE, ![r].retrys = @ + 1]
      /\ stack' = <<c>> \o Tail(stack) /\ UNCHANGED <<known, timers, owed>>
  BY DEF StartProtocol, Running
<1>2. /\ r \in Requests /\ Top = stack[1] /\ Live(stack[1])
      /\ \A t \in timers : t.req \in Requests
  BY <1>1, TopFacts DEF Live
<1>3. DataInv /\ CredsInv /\ StackInv(stack, req, timers)
  BY DEF IInv
<1>4. CallOK(c) /\ c.req = r /\ ~Refused(c) /\ ~Pending(c)
  BY <1>2, NewCalls DEF Pending
<1>5. /\ \A q \in Requests : q # r => req'[q].net = req[q].net
      /\ DataInv' /\ CredsInv'
  <2> DEFINE n == req[r].retrys + 1
             q == [req[r] EXCEPT !.net = TRUE, !.retrys = n]
  <2>1. /\ req[r] \in Request /\ req[r].creds \in {NoRealm, RealmOf[req[r].url]}
        /\ n \in Nat
    BY <1>2, <1>3 DEF DataInv, CredsInv, Request
  <2>2. q \in Request /\ q.creds = req[r].creds /\ q.url = req[r].url
    <3> HIDE DEF n
    <3>1. q \in Request
      BY <2>1 DEF Request
    <3>2. q.creds = req[r].creds /\ q.url = req[r].url
      BY <2>1 DEF Request
    <3> QED BY <3>1, <3>2
  <2>3. req' = [req EXCEPT ![r] = q]
    BY <1>1, <1>2, <1>3 DEF DataInv
  <2> HIDE DEF q
  <2>4. /\ req' \in [Requests -> Request] /\ CredsInv'
        /\ \A s \in Requests : s # r => req'[s] = req[s]
    BY <1>2, <1>3, <2>1, <2>2, <2>3, RequestStep
  <2> QED BY <1>1, <1>3, <2>4 DEF DataInv
<1> HIDE DEF c, r
<1>6. c.req = stack[1].req /\ \A q \in Requests : q # c.req => req'[q].net = req[q].net
  BY <1>2, <1>4, <1>5 DEF r
<1>7. StackInv(<<c>> \o Tail(stack), req', timers)
  <2>1. (Pending(c) => ~req'[c.req].net) /\ (Refused(c) => Refused(stack[1]))
    BY <1>4
  <2> QED BY <1>1, <1>2, <1>3, <1>4, <1>6, <2>1, ReplaceInv
<1> QED BY <1>1, <1>5, <1>7 DEF IInv

\* The call on top returns and nothing else changes.
LEMMA ReturnInv ==
    ASSUME IInv, ProtocolWaits \/ AfterReturns
    PROVE  IInv'
<1>1. stack # <<>> /\ stack' = Tail(stack) /\ UNCHANGED <<req, known, timers, owed>>
  BY DEF ProtocolWaits, AfterReturns, Running, Return
<1>2. StackInv(Tail(stack), req, timers)
  BY <1>1, PopInv DEF IInv
<1> QED BY <1>1, <1>2, KeepData

LEMMA LocationType ==
    ASSUME NEW u \in Urls, NEW status, NEW to \in Location(u, status)
    PROVE  to \in Urls \cup {NoUrl}
<1>1. Targets[u] \subseteq Urls
  BY RequestAssumption
<1> QED BY <1>1 DEF Location

\* What NetDelete does with the data.
LEMMA NetDeleteData ==
    ASSUME IInv, NEW r \in Requests, NEW status, NEW to, NEW rest, NetDelete(r, status, to, rest)
    PROVE  /\ DataInv' /\ CredsInv' /\ UNCHANGED timers
           /\ ~req'[r].net
           /\ \A q \in Requests : q # r => req'[q].net = req[q].net
<1> DEFINE q == [req[r] EXCEPT !.net = FALSE]
<1>1. DataInv /\ CredsInv
  BY DEF IInv
<1>2. req[r] \in Request /\ req[r].creds \in {NoRealm, RealmOf[req[r].url]}
  BY <1>1 DEF DataInv, CredsInv
<1>3. q \in Request
  BY <1>2 DEF Request
<1>4. q.creds = req[r].creds /\ q.url = req[r].url /\ ~q.net
  BY <1>2 DEF Request
<1>5. req' = [req EXCEPT ![r] = q] /\ UNCHANGED <<known, timers, owed>>
  BY <1>1 DEF NetDelete, DataInv
<1> HIDE DEF q
<1>6. /\ req' \in [Requests -> Request] /\ CredsInv' /\ req'[r] = q
      /\ \A s \in Requests : s # r => req'[s] = req[s]
  BY <1>1, <1>2, <1>3, <1>4, <1>5, RequestStep
<1> QED BY <1>1, <1>4, <1>5, <1>6 DEF DataInv

LEMMA ProtocolEndsInv ==
    ASSUME IInv, ProtocolEnds
    PROVE  IInv'
<1> DEFINE r == Top.req
<1>1. stack # <<>> /\ Top.fn = "protocol"
  BY DEF ProtocolEnds, Running
<1>2. /\ r \in Requests /\ Top = stack[1] /\ Live(stack[1])
      /\ \A t \in timers : t.req \in Requests
  BY <1>1, TopFacts DEF Live
<1>3. DataInv /\ CredsInv /\ StackInv(stack, req, timers)
  BY DEF IInv
<1>4. req[r].url \in Urls
  BY <1>2, <1>3 DEF DataInv, Request
<1>5. PICK status \in Statuses, to \in Urls \cup {NoUrl} : NetDelete(r, status, to, Tail(stack))
  <2>1. Answers[req[r].url] \subseteq Statuses /\ "ERROR" \in Statuses
    BY <1>4, RequestAssumption DEF Statuses
  <2> HIDE DEF r
  <2>2. \E status \in Statuses : \E to \in Location(req[r].url, status) :
            NetDelete(r, status, to, Tail(stack))
    BY <2>1 DEF ProtocolEnds, r
  <2> QED BY <1>4, <2>2, LocationType
<1> DEFINE c == AfterCall(r, status, to, FALSE)
<1>6. stack' = <<c>> \o Tail(stack)
  BY <1>5 DEF NetDelete
<1>7. CallOK(c) /\ c.req = r /\ ~Refused(c)
  BY <1>2, NewAfterCall
<1> HIDE DEF c
<1>8. /\ DataInv' /\ CredsInv' /\ UNCHANGED timers
      /\ ~req'[r].net
      /\ \A q \in Requests : q # r => req'[q].net = req[q].net
  BY <1>2, <1>5, NetDeleteData
<1>9. StackInv(<<c>> \o Tail(stack), req', timers)
  <2>1. /\ Pending(c) => ~req'[c.req].net
        /\ Refused(c) => Refused(stack[1])
        /\ c.req = stack[1].req
        /\ \A q \in Requests : q # c.req => req'[q].net = req[q].net
    BY <1>2, <1>7, <1>8
  <2> QED BY <1>1, <1>2, <1>3, <1>7, <2>1, ReplaceInv
<1> QED BY <1>6, <1>8, <1>9 DEF IInv

\* An AFTER list is called from the event loop.
LEMMA FromLoop ==
    ASSUME NEW rq, NEW tm, StackInv(stack, rq, tm), stack = <<>>,
           NEW c, CallOK(c), ~rq[c.req].net, \A t \in tm : t.req # c.req
    PROVE  StackInv(<<c>> \o <<>>, rq, tm)
<1>1. DOMAIN stack = {}
  OBVIOUS
<1>2. StackInv(<<c>> \o stack, rq, tm)
  BY <1>1, PushInv
<1> QED BY <1>2

LEMMA AnswerInv ==
    ASSUME IInv, NEW r \in Requests, Answer(r) \/ Kill(r)
    PROVE  IInv'
<1>1. stack = <<>> /\ req[r].net
  BY DEF Answer, Kill
<1>2. DataInv /\ CredsInv /\ StackInv(stack, req, timers)
  BY DEF IInv
<1>3. req[r].url \in Urls
  BY <1>2 DEF DataInv, Request
<1>4. PICK status \in Statuses, to \in Urls \cup {NoUrl} : NetDelete(r, status, to, <<>>)
  <2>1. CASE Kill(r)
    <3>1. "INTERRUPTED" \in Statuses /\ NoUrl \in Urls \cup {NoUrl}
      BY DEF Statuses
    <3>2. NetDelete(r, "INTERRUPTED", NoUrl, <<>>)
      BY <2>1 DEF Kill
    <3> QED BY <3>1, <3>2
  <2>2. CASE Answer(r)
    <3>1. Answers[req[r].url] \subseteq Statuses
      BY <1>3, RequestAssumption
    <3>2. \E status \in Statuses : \E to \in Location(req[r].url, status) :
              NetDelete(r, status, to, <<>>)
      BY <2>2, <3>1 DEF Answer
    <3> QED BY <1>3, <3>2, LocationType
  <2> QED BY <2>1, <2>2
<1> DEFINE c == AfterCall(r, status, to, FALSE)
<1>5. stack' = <<c>> \o <<>>
  BY <1>4 DEF NetDelete
<1>6. CallOK(c) /\ c.req = r
  BY NewAfterCall
<1> HIDE DEF c
<1>7. /\ DataInv' /\ CredsInv' /\ UNCHANGED timers
      /\ ~req'[r].net
      /\ \A q \in Requests : q # r => req'[q].net = req[q].net
  BY <1>4, NetDeleteData
<1>8. StackInv(stack, req', timers)
  <2>1. /\ \A q \in Requests : req'[q].net => req[q].net
        /\ \A t \in timers : t.req \in Requests
    BY <1>2, <1>7 DEF DataInv
  <2> QED BY <1>2, <2>1, NetInv
<1>9. StackInv(<<c>> \o <<>>, req', timers)
  <2>1. \A t \in timers : t.req # c.req
    BY <1>1, <1>2, <1>6 DEF StackInv
  <2> QED BY <1>1, <1>6, <1>7, <1>8, <2>1, FromLoop
<1> QED BY <1>5, <1>7, <1>9 DEF IInv

LEMMA FilterEventInv ==
    ASSUME IInv, NEW r \in Requests, FilterEvent(r)
    PROVE  IInv'
<1>1. PICK t \in timers : /\ stack = <<>> /\ t.req = r /\ timers' = timers \ {t}
                          /\ stack' = <<AfterCall(r, t.status, NoUrl, TRUE)>> \o stack
  BY DEF FilterEvent, Push
<1>2. UNCHANGED <<req, known, owed>>
  BY DEF FilterEvent
<1>3. DataInv /\ CredsInv /\ StackInv(stack, req, timers)
  BY DEF IInv
<1>4. t.status = "ERROR" /\ \A t2 \in timers : t2.req = r => t2 = t
  BY <1>1, <1>3 DEF DataInv
<1> DEFINE c == AfterCall(r, t.status, NoUrl, TRUE)
<1>5. CallOK(c) /\ c.req = r
  <2>1. t.status \in Statuses /\ NoUrl \in Urls \cup {NoUrl} /\ TRUE \in BOOLEAN
    BY <1>4 DEF Statuses
  <2> QED BY <2>1, NewAfterCall
<1>6. stack' = <<c>> \o <<>>
  BY <1>1
<1> HIDE DEF c
<1>7. StackInv(stack, req, timers')
  BY <1>1, <1>3 DEF StackInv
<1>8. StackInv(<<c>> \o <<>>, req, timers')
  <2>1. ~req[c.req].net /\ \A t2 \in timers' : t2.req # c.req
    BY <1>1, <1>3, <1>4, <1>5 DEF StackInv
  <2> QED BY <1>1, <1>5, <1>7, <2>1, FromLoop
<1>9. DataInv' /\ CredsInv'
  BY <1>1, <1>2, <1>3 DEF DataInv, CredsInv
<1> QED BY <1>2, <1>6, <1>8, <1>9 DEF IInv

\* What holds where a filter is called.
LEMMA FilterFacts ==
    ASSUME IInv, NEW fn \in {"before", "after"}, NEW filters, Calling(fn, filters)
    PROVE  /\ stack # <<>> /\ Top.fn = fn /\ Top.fn # "protocol" /\ Top.left # <<>>
           /\ Top.req \in Requests /\ ~req[Top.req].net
           /\ req[Top.req] \in Request
           /\ req[Top.req].creds \in {NoRealm, RealmOf[req[Top.req].url]}
           /\ DataInv /\ CredsInv
<1>1. stack # <<>> /\ Top.fn = fn /\ Top.left # <<>>
  BY DEF Calling, Running
<1>2. Top.req \in Requests /\ ~req[Top.req].net
  BY <1>1, TopFacts DEF Pending, Live
<1> QED BY <1>1, <1>2 DEF IInv, DataInv, CredsInv

\* A filter changes its request and says that the next one may be called.
LEMMA FilterGoesOn ==
    ASSUME IInv, stack # <<>>, Top.left # <<>>, Top.fn # "protocol", FilterOk,
           NEW q \in Request, q.creds \in {NoRealm, RealmOf[q.url]}, ~q.net,
           req' = [req EXCEPT ![Top.req] = q],
           known' \in [Realms -> {"none", "empty", "ask", "known"}],
           owed' \in [Requests -> Int], UNCHANGED timers
    PROVE  IInv'
<1>1. DataInv /\ CredsInv /\ Top.req \in Requests
  BY TopFacts DEF IInv
<1>2. /\ req' \in [Requests -> Request] /\ CredsInv' /\ req'[Top.req] = q
      /\ \A s \in Requests : s # Top.req => req'[s] = req[s]
  BY <1>1, RequestStep
<1>3. /\ \A s \in Requests : s # Top.req => req'[s].net = req[s].net
      /\ req'[Top.req].net => req[Top.req].net
  BY <1>2
<1>4. StackInv(stack', req', timers')
  BY <1>3, FilterOkInv
<1> QED BY <1>1, <1>2, <1>4 DEF IInv, DataInv

\* A filter changes its request and starts it again.
LEMMA FilterReloads ==
    ASSUME IInv, NEW filters, Calling("after", filters), NEW u, Reload(Top.req, u),
           NEW q \in Request, q.creds \in {NoRealm, RealmOf[q.url]}, ~q.net,
           req' = [req EXCEPT ![Top.req] = q],
           known' \in [Realms -> {"none", "empty", "ask", "known"}],
           UNCHANGED <<timers, owed>>
    PROVE  IInv'
<1>1. /\ stack # <<>> /\ Top.fn = "after" /\ Top.left # <<>> /\ Top.req \in Requests
      /\ DataInv /\ CredsInv
  BY FilterFacts
<1>2. /\ req' \in [Requests -> Request] /\ CredsInv' /\ req'[Top.req] = q
      /\ \A s \in Requests : s # Top.req => req'[s] = req[s]
  BY <1>1, RequestStep
<1>3. /\ \A s \in Requests : req'[s].net => req[s].net /\ s # Top.req
      /\ \A s \in Requests : s # Top.req => (req'[s].net => req[s].net)
  BY <1>2
<1>4. stack' = <<BeforeCall(Top.req, u)>> \o <<[Top EXCEPT !.left = <<>>]>> \o Tail(stack)
  BY DEF Reload, LastFilter
<1>5. StackInv(stack', req', timers')
  BY <1>1, <1>3, <1>4, StartInv
<1> QED BY <1>1, <1>2, <1>5 DEF IInv, DataInv

LEMMA PassFilterInv ==
    ASSUME IInv, PassFilter \/ RedirectNot
    PROVE  IInv'
<1>1. /\ FilterOk /\ UNCHANGED <<req, known, timers, owed>>
      /\ \E fn \in {"before", "after"}, filters \in {{"Proxy", "PEP"}, {"Rule"}, {"Info", "AuthInfo", "PEP"}, {"Redirect"}} :
            Calling(fn, filters)
  BY DEF PassFilter, RedirectNot
<1>2. stack # <<>> /\ Top.fn # "protocol" /\ Top.left # <<>>
  BY <1>1, FilterFacts
<1>3. StackInv(stack', req', timers')
  BY <1>1, <1>2, FilterOkInv
<1> QED BY <1>1, <1>3, KeepData

\* A BEFORE filter refuses.
LEMMA FilterRefuses ==
    ASSUME IInv, NEW filters, Calling("before", filters), Refuse,
           known' \in [Realms -> {"none", "empty", "ask", "known"}],
           UNCHANGED <<req, owed>>
    PROVE  IInv'
<1>1. stack # <<>> /\ Top.fn = "before" /\ DataInv /\ CredsInv
  BY FilterFacts
<1>2. StackInv(stack', req', timers') /\ timers' \subseteq [req : Requests, status : {"ERROR"}]
  BY <1>1, RefuseInv
<1> QED BY <1>1, <1>2 DEF IInv, DataInv, CredsInv

LEMMA RuleForbidsInv ==
    ASSUME IInv, RuleForbids
    PROVE  IInv'
<1>1. Calling("before", {"Rule"}) /\ Refuse /\ UNCHANGED <<req, known, owed>>
  BY DEF RuleForbids
<1> QED BY <1>1, FilterRefuses DEF IInv, DataInv

\* The user was asked once more.
LEMMA AskedOnce ==
    ASSUME NEW f \in [Requests -> Request], NEW r \in Requests, NEW a
    PROVE  [f EXCEPT ![r].creds = a, ![r].asked = @ + 1] =
           [f EXCEPT ![r] = [f[r] EXCEPT !.creds = a, !.asked = f[r].asked + 1]]
  OBVIOUS

LEMMA Tried ==
    ASSUME NEW f \in [Requests -> Request], NEW r \in Requests, NEW a, NEW b
    PROVE  [f EXCEPT ![r].creds = a, ![r].AAretrys = b] =
           [f EXCEPT ![r] = [f[r] EXCEPT !.creds = a, !.AAretrys = b]]
  OBVIOUS

LEMMA CredentialsInv ==
    ASSUME IInv, Credentials
    PROVE  IInv'
<1> DEFINE r == Top.req
           a == RealmOf[req[r].url]
<1>1. Calling("before", {"Credentials"}) /\ UNCHANGED owed
  BY DEF Credentials
<1>2. /\ stack # <<>> /\ Top.fn # "protocol" /\ Top.left # <<>>
      /\ r \in Requests /\ ~req[r].net /\ req[r] \in Request
      /\ req[r].creds \in {NoRealm, a}
      /\ DataInv /\ CredsInv
  BY <1>1, FilterFacts
<1>3. /\ a \in Realms \cup {NoRealm} /\ req[r].asked \in Nat
      /\ known \in [Realms -> {"none", "empty", "ask", "known"}]
      /\ owed \in [Requests -> Int] /\ req \in [Requests -> Request]
  BY <1>2, RequestAssumption DEF DataInv, Request
<1>4. CASE FilterOk /\ UNCHANGED <<req, known, timers>>
  <2>1. StackInv(stack', req', timers')
    BY <1>2, <1>4, FilterOkInv
  <2> QED BY <1>1, <1>4, <2>1, KeepData
<1>5. CASE /\ req' = [req EXCEPT ![r].creds = a] /\ FilterOk
           /\ UNCHANGED <<known, timers>>
  <2> DEFINE q == [req[r] EXCEPT !.creds = a]
  <2>1. q \in Request /\ q.creds = a /\ q.url = req[r].url /\ ~q.net
    BY <1>2, <1>3 DEF Request
  <2>2. req' = [req EXCEPT ![r] = q]
    BY <1>2, <1>3, <1>5
  <2> HIDE DEF q
  <2> QED BY <1>1, <1>2, <1>3, <1>5, <2>1, <2>2, FilterGoesOn
<1>6. CASE /\ a # NoRealm /\ known' = [known EXCEPT ![a] = "known"]
           /\ req' = [req EXCEPT ![r].creds = a, ![r].asked = @ + 1]
           /\ FilterOk /\ UNCHANGED timers
  <2> DEFINE n == req[r].asked + 1
             q == [req[r] EXCEPT !.creds = a, !.asked = n]
  <2>1. req' = [req EXCEPT ![r] = q] /\ n \in Nat
    <3>1. req' = [req EXCEPT ![r] = q]
      BY <1>2, <1>3, <1>6, AskedOnce
    <3>2. n \in Nat
      BY <1>3
    <3> QED BY <3>1, <3>2
  <2> HIDE DEF n
  <2>2. q \in Request /\ q.creds = a /\ q.url = req[r].url /\ ~q.net
    BY <1>2, <1>3, <2>1 DEF Request
  <2>3. known' \in [Realms -> {"none", "empty", "ask", "known"}]
    BY <1>3, <1>6
  <2> HIDE DEF q
  <2> QED BY <1>1, <1>2, <1>3, <1>6, <2>1, <2>2, <2>3, FilterGoesOn
<1>7. CASE /\ known' = [known EXCEPT ![a] = "none"] /\ Refuse /\ UNCHANGED req
  <2>1. known' \in [Realms -> {"none", "empty", "ask", "known"}]
    BY <1>3, <1>7
  <2> QED BY <1>1, <1>7, <2>1, FilterRefuses
<1> QED BY <1>4, <1>5, <1>6, <1>7 DEF Credentials

LEMMA AuthenticateInv ==
    ASSUME IInv, Authenticate
    PROVE  IInv'
<1> DEFINE r     == Top.req
           a     == RealmOf[req[r].url]
           tries == IF req[r].AAretrys = 2 THEN 2 ELSE req[r].AAretrys + 1
           tried == [req EXCEPT ![r].creds = NoRealm, ![r].AAretrys = tries]
<1>1. Calling("after", {"Auth"}) /\ UNCHANGED <<timers, owed>>
  BY DEF Authenticate
<1>2. /\ stack # <<>> /\ Top.fn # "protocol" /\ Top.left # <<>>
      /\ r \in Requests /\ ~req[r].net /\ req[r] \in Request
      /\ DataInv /\ CredsInv
  BY <1>1, FilterFacts
<1>3. /\ known \in [Realms -> {"none", "empty", "ask", "known"}]
      /\ owed \in [Requests -> Int] /\ req \in [Requests -> Request]
      /\ tries \in 0..2 /\ req[r].asked \in Nat
  BY <1>2 DEF DataInv, Request
<1> DEFINE q1 == [req[r] EXCEPT !.creds = NoRealm, !.AAretrys = tries]
           n  == req[r].asked + 1
           q2 == [req[r] EXCEPT !.creds = NoRealm, !.AAretrys = tries, !.asked = n]
<1>4. /\ tried = [req EXCEPT ![r] = q1]
      /\ [tried EXCEPT ![r].asked = @ + 1] = [req EXCEPT ![r] = q2]
      /\ n \in Nat
  <2> HIDE DEF tries
  <2>1. n \in Nat
    BY <1>3
  <2>2. r \in Requests /\ req \in [Requests -> Request]
    BY <1>2, <1>3
  <2> HIDE DEF r
  <2>3. tried = [req EXCEPT ![r] = q1]
    BY <2>2, Tried
  <2>4. [tried EXCEPT ![r].asked = @ + 1] = [req EXCEPT ![r] = q2]
    BY <2>2
  <2> QED BY <2>1, <2>3, <2>4
<1>5. /\ \/ known' = [known EXCEPT ![a] = "empty"]
         \/ known' = [known EXCEPT ![a] = "ask"]
         \/ known' = known
      /\ \/ req' = tried
         \/ req' = [tried EXCEPT ![r].asked = @ + 1]
      /\ FilterOk \/ Reload(r, req[r].url)
  BY DEF Authenticate
<1> HIDE DEF tries, n
<1>6. /\ q1 \in Request /\ q1.creds = NoRealm /\ ~q1.net
      /\ q2 \in Request /\ q2.creds = NoRealm /\ ~q2.net
  <2>1. q1 \in Request /\ q1.creds = NoRealm /\ ~q1.net
    BY <1>2, <1>3 DEF Request
  <2>2. q2 \in Request /\ q2.creds = NoRealm /\ ~q2.net
    BY <1>2, <1>3, <1>4 DEF Request
  <2> QED BY <2>1, <2>2
<1>7. known' \in [Realms -> {"none", "empty", "ask", "known"}]
  <2> HIDE DEF a
  <2> QED BY <1>3, <1>5
<1> HIDE DEF q1, q2
<1>8. PICK q \in {q1, q2} : req' = [req EXCEPT ![r] = q]
  BY <1>4, <1>5
<1>9. q \in Request /\ q.creds \in {NoRealm, RealmOf[q.url]} /\ ~q.net
  BY <1>6, <1>8
<1> HIDE DEF tried
<1>10. CASE FilterOk
  BY <1>1, <1>2, <1>3, <1>7, <1>8, <1>9, <1>10, FilterGoesOn
<1>11. CASE Reload(r, req[r].url)
  BY <1>1, <1>7, <1>8, <1>9, <1>11, FilterReloads
<1> QED BY <1>5, <1>10, <1>11

LEMMA RedirectedFacts ==
    ASSUME NEW r \in Requests, req \in [Requests -> Request]
    PROVE  /\ Redirected(r) = [req EXCEPT ![r] = Redirected(r)[r]]
           /\ Redirected(r)[r] \in Request
           /\ Redirected(r)[r].creds = NoRealm
           /\ Redirected(r)[r].net = req[r].net
<1> DEFINE m == IF Top.status = "SEE_OTHER" THEN "GET" ELSE req[r].method
           q == [req[r] EXCEPT !.method = m, !.creds = NoRealm]
<1>1. m \in Methods
  BY DEF Request, Methods
<1>2. Redirected(r) = [req EXCEPT ![r].method = m, ![r].creds = NoRealm]
  BY DEF Redirected
<1> HIDE DEF m
<1>3. [req EXCEPT ![r].method = m, ![r].creds = NoRealm] = [req EXCEPT ![r] = q]
  OBVIOUS
<1>4. q \in Request /\ q.creds = NoRealm /\ q.net = req[r].net
  BY <1>1 DEF Request
<1> HIDE DEF q
<1> QED BY <1>2, <1>3, <1>4

LEMMA RedirectTooOftenInv ==
    ASSUME IInv, RedirectTooOften
    PROVE  IInv'
<1> DEFINE r == Top.req
           q == Redirected(r)[r]
<1>1. /\ Calling("after", {"Redirect"}) /\ FilterOk
      /\ req' = Redirected(r) /\ UNCHANGED <<known, timers, owed>>
  BY DEF RedirectTooOften, FallThrough
<1>2. /\ stack # <<>> /\ Top.fn # "protocol" /\ Top.left # <<>>
      /\ r \in Requests /\ ~req[r].net /\ DataInv
  BY <1>1, FilterFacts
<1>3. /\ req' = [req EXCEPT ![r] = q] /\ q \in Request /\ q.creds = NoRealm /\ ~q.net
  BY <1>1, <1>2, RedirectedFacts DEF DataInv
<1> HIDE DEF q
<1> QED BY <1>1, <1>2, <1>3, FilterGoesOn DEF DataInv

LEMMA RedirectFollowInv ==
    ASSUME IInv, RedirectFollow
    PROVE  IInv'
<1> DEFINE r == Top.req
           q == Redirected(r)[r]
           n == IF MustConfirm(r) THEN q.asked + 1 ELSE q.asked
           p == [q EXCEPT !.url = Top.to, !.asked = n]
<1>1. /\ Calling("after", {"Redirect"}) /\ Reload(r, Top.to) /\ Top.to # NoUrl
      /\ req' = [Redirected(r) EXCEPT ![r].url = Top.to,
                     ![r].asked = IF MustConfirm(r) THEN @ + 1 ELSE @]
      /\ UNCHANGED <<known, timers, owed>>
  BY DEF RedirectFollow, RedirectWanted
<1>2. /\ stack # <<>> /\ Top.fn = "after" /\ Top.left # <<>>
      /\ r \in Requests /\ ~req[r].net /\ DataInv
  BY <1>1, FilterFacts
<1>3. Top.to \in Urls
  BY <1>1, <1>2, TopFacts
<1>4. /\ Redirected(r) = [req EXCEPT ![r] = q] /\ q \in Request /\ q.creds = NoRealm /\ ~q.net
  BY <1>2, RedirectedFacts DEF DataInv
<1>5. n \in Nat
  BY <1>4 DEF Request
<1>6. req' = [req EXCEPT ![r] = p]
  <2>1. req \in [Requests -> Request]
    BY <1>2 DEF DataInv
  <2>2. req' = [Redirected(r) EXCEPT ![r].url = Top.to, ![r].asked = n]
    BY <1>1, <1>2, <1>4, <2>1
  <2> HIDE DEF n, q
  <2> QED BY <1>2, <1>4, <2>1, <2>2
<1> HIDE DEF n, q
<1>7. p \in Request /\ p.creds = NoRealm /\ ~p.net
  BY <1>3, <1>4, <1>5 DEF Request
<1> HIDE DEF p
<1> QED BY <1>1, <1>2, <1>6, <1>7, FilterReloads DEF DataInv

LEMMA ReportInv ==
    ASSUME IInv, NEW r \in Requests, Report(r)
    PROVE  IInv'
<1>1. /\ Calling("after", {"Terminate"}) /\ Top.req = r /\ FilterOk
      /\ req' = [req EXCEPT ![r] = NoRequest] /\ owed' = [owed EXCEPT ![r] = @ - 1]
      /\ UNCHANGED <<known, timers>>
  BY DEF Report
<1>2. stack # <<>> /\ Top.fn # "protocol" /\ Top.left # <<>> /\ DataInv
  BY <1>1, FilterFacts
<1>3. NoRequest \in Request /\ NoRequest.creds = NoRealm /\ ~NoRequest.net
  BY NewRequest
<1>4. /\ owed' \in [Requests -> Int]
      /\ known' \in [Realms -> {"none", "empty", "ask", "known"}]
  BY <1>1, <1>2 DEF DataInv
<1> QED BY <1>1, <1>2, <1>3, <1>4, FilterGoesOn

LEMMA ReportAndLoadInv ==
    ASSUME IInv, NEW r \in Requests, NEW next \in Requests,
           NEW u \in Urls, NEW m \in Methods, ReportAndLoad(r, next, u, m)
    PROVE  IInv'
<1> DEFINE q == [NoRequest EXCEPT !.alive = TRUE, !.url = u, !.method = m]
<1>1. /\ Calling("after", {"Terminate"}) /\ Top.req = r /\ next # r /\ Unused(next)
      /\ owed' = [owed EXCEPT ![r] = @ - 1, ![next] = @ + 1]
      /\ req' = [req EXCEPT ![r] = NoRequest, ![next] = q]
      /\ stack' = <<BeforeCall(next, u)>> \o <<[Top EXCEPT !.left = Tail(@)]>> \o Tail(stack)
      /\ UNCHANGED <<known, timers>>
  BY DEF ReportAndLoad, NextFilter
<1>2. /\ stack # <<>> /\ Top.fn = "after" /\ Top.left # <<>>
      /\ DataInv /\ CredsInv
  BY <1>1, FilterFacts
<1>3. /\ NoRequest \in Request /\ NoRequest.creds = NoRealm /\ NoRequest.net = FALSE
      /\ q \in Request /\ q.creds = NoRealm /\ q.net = FALSE
  BY NewRequest
<1> HIDE DEF q
<1>4. /\ req' \in [Requests -> Request]
      /\ \A s \in Requests : req'[s] = IF s = next THEN q ELSE IF s = r THEN NoRequest ELSE req[s]
  BY <1>1, <1>2, <1>3 DEF DataInv
<1>5. CredsInv'
  <2> SUFFICES ASSUME NEW s \in Requests
               PROVE  req'[s].creds \in {NoRealm, RealmOf[req'[s].url]}
    BY DEF CredsInv
  <2> QED BY <1>2, <1>3, <1>4 DEF CredsInv
<1>6. DataInv'
  <2>1. owed' \in [Requests -> Int]
    BY <1>1, <1>2 DEF DataInv
  <2> QED BY <1>1, <1>2, <1>4, <2>1 DEF DataInv
<1>7. StackInv(stack', req', timers')
  <2>1. /\ \A s \in Requests : req'[s].net => req[s].net /\ s # next
        /\ \A s \in Requests : s # Top.req => (req'[s].net => req[s].net)
    BY <1>3, <1>4
  <2>2. /\ \A i \in DOMAIN stack : stack[i].req # next
        /\ \A t \in timers : t.req # next
    BY <1>1 DEF Unused
  <2> DEFINE x == Tail(Top.left)
  <2>3. stack' = <<BeforeCall(next, u)>> \o <<[Top EXCEPT !.left = x]>> \o Tail(stack)
    BY <1>1
  <2> HIDE DEF x
  <2> QED BY <1>1, <1>2, <2>1, <2>2, <2>3, StartInv
<1> QED BY <1>5, <1>6, <1>7 DEF IInv

LEMMA NextInv ==
    ASSUME IInv, [Next]_vars
    PROVE  IInv'
<1> USE RequestAssumption
<1>0. \A l \in Loads : l[1] \in Urls /\ l[2] \in Methods
  BY DEF Methods
<1>1. CASE Register
  BY <1>1, RegisterInv
<1>2. CASE NoProtocol
  BY <1>2, NoProtocolInv
<1>3. CASE StartProtocol
  BY <1>3, StartProtocolInv
<1>4. CASE ProtocolWaits \/ AfterReturns
  BY <1>4, ReturnInv
<1>5. CASE ProtocolEnds
  BY <1>5, ProtocolEndsInv
<1>6. CASE PassFilter \/ RedirectNot
  BY <1>6, PassFilterInv
<1>7. CASE RuleForbids
  BY <1>7, RuleForbidsInv
<1>8. CASE Credentials
  BY <1>8, CredentialsInv
<1>9. CASE Authenticate
  BY <1>9, AuthenticateInv
<1>10. CASE RedirectTooOften
  BY <1>10, RedirectTooOftenInv
<1>11. CASE RedirectFollow
  BY <1>11, RedirectFollowInv
<1>12. CASE \E r \in Requests : Report(r)
  BY <1>12, ReportInv
<1>13. CASE \E r, next \in Requests, l \in Loads : ReportAndLoad(r, next, l[1], l[2])
  BY <1>0, <1>13, ReportAndLoadInv
<1>14. CASE \E r \in Requests, l \in Loads : AppLoad(r, l[1], l[2])
  BY <1>0, <1>14, AppLoadInv
<1>15. CASE \E r \in Requests : Answer(r) \/ Kill(r)
  BY <1>15, AnswerInv
<1>16. CASE \E r \in Requests : FilterEvent(r)
  BY <1>16, FilterEventInv
<1>17. CASE UNCHANGED vars
  <2>1. StackInv(stack', req', timers')
    BY <1>17 DEF vars, IInv
  <2> QED BY <1>17, <2>1, KeepData DEF vars
<1> QED BY <1>1, <1>2, <1>3, <1>4, <1>5, <1>6, <1>7, <1>8, <1>9, <1>10, <1>11, <1>12,
           <1>13, <1>14, <1>15, <1>16, <1>17 DEF Next, LibraryStep

LEMMA Invariance == Spec => []IInv
<1>1. Init => IInv
  BY InitInv
<1>2. IInv /\ [Next]_vars => IInv'
  BY NextInv
<1> QED BY <1>1, <1>2, PTL DEF Spec

(***************************************************************************)
(* Requests that exist, and reports that are owed.                         *)
(***************************************************************************)
\* The filter that reports a request is the last one of a list.
LastOK(left) ==
    /\ left \in Seq(Filters)
    /\ \A i \in DOMAIN left : left[i].fn = "Terminate" => i = Len(left)

Reporting(list) == \A i \in DOMAIN list : list[i].fn = "Terminate" <=> list[i].order = AtLast

\* HTAfter and what is still to be registered.
FilterInv ==
    /\ setup \in Seq(Filters) /\ Reporting(setup)
    /\ after \in Seq(Filters) /\ Reporting(after)
    /\ ByOrder(after) /\ EachOnce(after)

\* A call that goes on is about a request that exists.
CallFine(c, rq) ==
    /\ Live(c) => rq[c.req].alive
    /\ c.fn = "after" => LastOK(c.left)

AliveInv ==
    /\ \A c \in Range(stack) : CallFine(c, req)
    /\ \A t \in timers : req[t.req].alive
    /\ \A r \in Requests : req[r].net => req[r].alive

\* A request exists as long as its report is owed.
OwedInv == \A r \in Requests : owed[r] = IF req[r].alive THEN 1 ELSE 0

DeleteInv == FilterInv /\ AliveInv /\ OwedInv

\* Calls on a stack, as a set.
LEMMA PushCalls ==
    ASSUME NEW s, IsSeq(s), NEW c
    PROVE  Range(<<c>> \o s) = {c} \cup Range(s)
<1> DEFINE p == <<c>> \o s
<1>1. /\ Len(s) \in Nat /\ DOMAIN p = 1..Len(s) + 1 /\ DOMAIN s = 1..Len(s) /\ p[1] = c
      /\ \A i \in 2..Len(s) + 1 : p[i] = s[i - 1]
  BY PushSeq
<1> HIDE DEF p
<1>2. \A i \in DOMAIN p : p[i] = c \/ (i - 1 \in DOMAIN s /\ p[i] = s[i - 1])
  BY <1>1
<1>3. 1 \in DOMAIN p /\ \A i \in DOMAIN s : i + 1 \in DOMAIN p /\ p[i + 1] = s[i]
  BY <1>1
<1>4. Range(p) \subseteq {c} \cup Range(s)
  BY <1>2 DEF Range
<1>5. {c} \subseteq Range(p) /\ Range(s) \subseteq Range(p)
  BY <1>1, <1>3 DEF Range
<1> QED BY <1>4, <1>5 DEF p

LEMMA CallsOf ==
    ASSUME NEW s, IsSeq(s), NEW c
    PROVE  /\ Range(<<c>> \o s) = {c} \cup Range(s)
           /\ s # <<>> => /\ Range(Tail(s)) \subseteq Range(s)
                          /\ Range(<<c>> \o Tail(s)) = {c} \cup Range(Tail(s))
<1>1. Range(<<c>> \o s) = {c} \cup Range(s)
  BY PushCalls
<1>2. ASSUME s # <<>>
      PROVE  /\ Range(Tail(s)) \subseteq Range(s)
             /\ Range(<<c>> \o Tail(s)) = {c} \cup Range(Tail(s))
  <2>1. /\ IsSeq(Tail(s)) /\ Len(s) \in Nat \ {0}
        /\ DOMAIN Tail(s) = 1..Len(s) - 1 /\ DOMAIN s = 1..Len(s)
        /\ \A i \in 1..Len(s) - 1 : Tail(s)[i] = s[i + 1]
    BY <1>2, TailSeq
  <2>2. \A i \in DOMAIN Tail(s) : i + 1 \in DOMAIN s /\ Tail(s)[i] = s[i + 1]
    BY <2>1
  <2>3. Range(Tail(s)) \subseteq Range(s)
    BY <2>2 DEF Range
  <2> QED BY <2>1, <2>3, PushCalls
<1> QED BY <1>1, <1>2

\* The calls below the one on top are of other requests, or through.
LEMMA BelowTop ==
    ASSUME IInv, stack # <<>>, NEW d \in Range(Tail(stack))
    PROVE  d \in Range(stack) /\ (Live(Top) /\ Live(d) => d.req # Top.req)
<1>1. /\ Len(stack) \in Nat \ {0} /\ DOMAIN Tail(stack) = 1..Len(stack) - 1
      /\ DOMAIN stack = 1..Len(stack)
      /\ \A i \in 1..Len(stack) - 1 : Tail(stack)[i] = stack[i + 1]
  BY TailSeq DEF IInv, StackInv
<1>2. PICK i \in DOMAIN Tail(stack) : d = Tail(stack)[i]
  BY DEF Range
<1>3. i + 1 \in DOMAIN stack /\ d = stack[i + 1] /\ i + 1 # 1
  BY <1>1, <1>2
<1>4. Top = stack[1] /\ 1 \in DOMAIN stack
  BY TopFacts
<1>5. Live(Top) /\ Live(d) => d.req # Top.req
  BY <1>3, <1>4 DEF IInv, StackInv
<1> QED BY <1>3, <1>5 DEF Range

LEMMA CallsTyped ==
    ASSUME IInv, NEW c \in Range(stack)
    PROVE  c.req \in Requests /\ CallOK(c)
<1>1. CallOK(c)
  BY DEF IInv, StackInv, Range
<1> QED BY <1>1 DEF CallOK

\* A list of AFTER filters as it is called: the reporting filter comes last, as
\* it is the only one of the last order.
LEMMA AfterForLast ==
    ASSUME FilterInv, NEW r, NEW status, NEW to, NEW b
    PROVE  LastOK(AfterCall(r, status, to, b).left)
<1> DEFINE scheme == Scheme[req[r].url]
           K == {i \in DOMAIN after : /\ after[i].template \in {"any", scheme}
                                      /\ after[i].status \in {"ALL", status}}
           n == Cardinality(K)
           p == Sublist(after, K)
<1>1. AfterCall(r, status, to, b).left = p
  BY DEF AfterCall, AfterFor
<1>2. K \in SUBSET (DOMAIN after)
  OBVIOUS
<1>3. after \in Seq(Filters) /\ Reporting(after) /\ ByOrder(after) /\ EachOnce(after)
  BY DEF FilterInv
<1>4. DOMAIN after = 1..Len(after) /\ \A i \in 1..Len(after) : after[i] \in Filters
  BY <1>3, FilterFields
<1> HIDE DEF K
<1>5. /\ Sublist(after, K) \in Seq(Filters) /\ Len(Sublist(after, K)) = Cardinality(K)
      /\ Cardinality(K) \in Nat
      /\ DOMAIN Sublist(after, K) = 1..Cardinality(K)
      /\ \A k \in 1..Cardinality(K) : Sublist(after, K)[k] = after[Nth(K, k)] /\ Nth(K, k) \in K
      /\ \A k, l \in 1..Cardinality(K) : k < l => Nth(K, k) < Nth(K, l)
  BY <1>2, <1>3, SublistFacts
<1>6. /\ p \in Seq(Filters) /\ Len(p) = n /\ n \in Nat /\ DOMAIN p = 1..n
      /\ \A k \in 1..n : p[k] = after[Nth(K, k)] /\ Nth(K, k) \in K
      /\ \A k, l \in 1..n : k < l => Nth(K, k) < Nth(K, l)
  BY <1>5
<1> HIDE DEF p, n
<1>7. \A k \in 1..n : p[k].fn = "Terminate" => k = n
  <2> SUFFICES ASSUME NEW k \in 1..n, p[k].fn = "Terminate", k # n PROVE FALSE
    OBVIOUS
  <2> DEFINE i == Nth(K, k)
             j == Nth(K, n)
  <2>1. n \in 1..n /\ k < n
    BY <1>6
  <2>2. i \in DOMAIN after /\ j \in DOMAIN after /\ i < j /\ after[i].fn = "Terminate"
    BY <1>2, <1>6, <2>1
  <2>3. i \in Int /\ i # j /\ after[i].order <= after[j].order /\ after[i].order = AtLast
    BY <1>3, <1>4, <2>2 DEF ByOrder, Reporting
  <2>4. after[j].order \in Orders
    BY <1>4, <2>2 DEF Filters
  <2>5. after[j].order = AtLast
    <3>1. 4 <= after[j].order /\ after[j].order \in 0..4
      BY <2>3, <2>4 DEF AtLast, Orders
    <3> QED BY <3>1 DEF AtLast
  <2>6. after[j].fn = "Terminate"
    BY <1>3, <2>2, <2>5 DEF Reporting
  <2> QED BY <1>3, <2>2, <2>3, <2>6 DEF EachOnce
<1> QED BY <1>1, <1>6, <1>7 DEF LastOK

\* Without its first filter a list still ends with the reporting one, which is
\* called when it is the only one left.
LEMMA TailLast ==
    ASSUME NEW left, LastOK(left), left # <<>>
    PROVE  LastOK(Tail(left)) /\ (Head(left).fn = "Terminate" => Tail(left) = <<>>)
<1>1. /\ left \in Seq(Filters) /\ Len(left) \in Nat /\ Len(left) # 0 /\ DOMAIN left = 1..Len(left)
      /\ \A i \in DOMAIN left : left[i].fn = "Terminate" => i = Len(left)
  BY LenProperties, EmptySeq DEF LastOK
<1>2. /\ Tail(left) \in Seq(Filters) /\ Len(Tail(left)) = Len(left) - 1
      /\ \A i \in 1..Len(left) - 1 : Tail(left)[i] = left[i + 1]
      /\ Head(left) = left[1]
  BY <1>1, HeadTailProperties
<1>3. DOMAIN Tail(left) = 1..Len(left) - 1
  BY <1>2, LenProperties
<1>4. \A i \in DOMAIN Tail(left) : /\ i \in Nat /\ i + 1 \in DOMAIN left
                                   /\ Tail(left)[i] = left[i + 1]
  BY <1>1, <1>2, <1>3
<1>5. \A i \in DOMAIN Tail(left) : Tail(left)[i].fn = "Terminate" => i = Len(left) - 1
  BY <1>1, <1>4
<1>6. ASSUME Head(left).fn = "Terminate" PROVE Tail(left) = <<>>
  <2>1. Len(left) = 1
    BY <1>1, <1>2, <1>6
  <2>2. Len(Tail(left)) = 0
    BY <1>2, <2>1
  <2> QED BY <1>2, <2>2, EmptySeq
<1> QED BY <1>2, <1>5, <1>6 DEF LastOK

\* The calls that go on top, or take the place of the call there.
LEMMA NewCallsFine ==
    ASSUME IInv, DeleteInv, NEW rq, NEW r \in Requests, rq[r].alive
    PROVE  /\ \A u : CallFine(BeforeCall(r, u), rq)
           /\ CallFine(ProtocolCall(r), rq)
           /\ \A status, to, b : CallFine(AfterCall(r, status, to, b), rq)
<1>1. \A u : BeforeCall(r, u).req = r /\ BeforeCall(r, u).fn = "before"
  BY DEF BeforeCall
<1>2. ProtocolCall(r).req = r /\ ProtocolCall(r).fn = "protocol"
  BY DEF ProtocolCall
<1>3. \A status, to, b : /\ AfterCall(r, status, to, b).req = r
                         /\ LastOK(AfterCall(r, status, to, b).left)
  <2>1. \A status, to, b : AfterCall(r, status, to, b).req = r
    BY DEF AfterCall
  <2> QED BY <2>1, AfterForLast DEF DeleteInv
<1> QED BY <1>1, <1>2, <1>3 DEF CallFine

LEMMA TopFine ==
    ASSUME IInv, DeleteInv, stack # <<>>
    PROVE  /\ Top \in Range(stack) /\ CallFine(Top, req) /\ CallOK(Top) /\ Top.req \in Requests
           /\ Live(Top) => req[Top.req].alive
<1>1. Top = stack[1] /\ 1 \in DOMAIN stack /\ CallOK(Top) /\ Top.req \in Requests
  BY TopFacts
<1>2. Top \in Range(stack)
  BY <1>1 DEF Range
<1>3. CallFine(Top, req)
  BY <1>2 DEF DeleteInv, AliveInv
<1> QED BY <1>1, <1>2, <1>3 DEF CallFine

\* The call on top goes on with a shorter list.
LEMMA ShorterFine ==
    ASSUME IInv, DeleteInv, stack # <<>>, Top.left # <<>>, Top.fn # "protocol",
           NEW rq, rq[Top.req].alive
    PROVE  CallFine(NextFilter, rq) /\ CallFine(LastFilter, rq)
<1>1. CallOK(Top) /\ CallFine(Top, req)
  BY TopFine
<1>2. /\ NextFilter.req = Top.req /\ NextFilter.fn = Top.fn /\ NextFilter.left = Tail(Top.left)
      /\ LastFilter.req = Top.req /\ LastFilter.fn = Top.fn /\ LastFilter.left = <<>>
  BY <1>1, LeftInv DEF NextFilter, LastFilter
<1>3. Top.fn = "after" => LastOK(Tail(Top.left))
  BY <1>1, TailLast DEF CallFine
<1>4. LastOK(<<>>)
  BY DEF LastOK
<1> QED BY <1>2, <1>3, <1>4 DEF CallFine

\* Requests neither come nor go.
LEMMA SameRequests ==
    ASSUME IInv, DeleteInv, UNCHANGED <<setup, after, owed>>,
           \A r \in Requests : req'[r].alive = req[r].alive,
           \A r \in Requests : req'[r].net => req[r].net \/ req[r].alive,
           \A c \in Range(stack') : c \in Range(stack) \/ CallFine(c, req'),
           \A t \in timers' : t \in timers \/ (t.req \in Requests /\ req[t.req].alive)
    PROVE  DeleteInv'
<1>1. FilterInv'
  BY DEF DeleteInv, FilterInv
<1>2. OwedInv'
  BY DEF DeleteInv, OwedInv
<1>3. \A c \in Range(stack') : CallFine(c, req')
  <2> SUFFICES ASSUME NEW c \in Range(stack) PROVE CallFine(c, req')
    OBVIOUS
  <2>1. c.req \in Requests
    BY CallsTyped
  <2>2. CallFine(c, req)
    BY DEF DeleteInv, AliveInv
  <2> QED BY <2>1, <2>2 DEF CallFine
<1>4. \A t \in timers' : req'[t.req].alive
  <2> SUFFICES ASSUME NEW t \in timers' PROVE req'[t.req].alive
    OBVIOUS
  <2>1. t \in timers => t.req \in Requests /\ req[t.req].alive
    BY DEF IInv, DataInv, DeleteInv, AliveInv
  <2> QED BY <2>1
<1>5. \A r \in Requests : req'[r].net => req'[r].alive
  BY DEF DeleteInv, AliveInv
<1> QED BY <1>1, <1>2, <1>3, <1>4, <1>5 DEF DeleteInv, AliveInv

LEMMA InitDelete ==
    ASSUME Init
    PROVE  DeleteInv
<1>1. /\ setup = HTAfterInit \o AppSetup /\ after = <<>> /\ stack = <<>> /\ timers = {}
      /\ req = [r \in Requests |-> NoRequest] /\ owed = [r \in Requests |-> 0]
  BY DEF Init
<1>2. setup \in Seq(Filters) /\ Reporting(setup)
  <2> DEFINE n == Len(HTAfterInit)
             m == Len(AppSetup)
  <2>1. HTAfterInit \in Seq(Filters) /\ n = 10 /\ \A i \in 1..10 :
            HTAfterInit[i].fn # "Terminate" /\ HTAfterInit[i].order # AtLast
    <3> USE DEF Filter, Middle, Late
    <3>1. \A i \in 1..10 : HTAfterInit[i] \in Filters
      BY DEF HTAfterInit, Filters, Orders, FilterFns, FilterStatuses
    <3>2. HTAfterInit \in Seq(Filters) /\ Len(HTAfterInit) = 10
      <4>1. HTAfterInit = [i \in 1..10 |-> HTAfterInit[i]]
        BY DEF HTAfterInit
      <4>2. HTAfterInit \in Seq(Filters)
        BY <3>1, <4>1, SeqDef
      <4> QED BY <4>2 DEF HTAfterInit
    <3>3. \A i \in 1..10 : HTAfterInit[i].order \in {2, 3}
      BY DEF HTAfterInit
    <3>4. \A i \in 1..10 : HTAfterInit[i].fn \in {"Auth", "PEP", "Redirect", "AuthInfo", "UseProxy", "Info"}
      BY DEF HTAfterInit
    <3>5. \A i \in 1..10 : HTAfterInit[i].fn # "Terminate" /\ HTAfterInit[i].order # AtLast
      BY <3>3, <3>4 DEF AtLast
    <3> QED BY <3>2, <3>5
  <2>2. /\ AppSetup \in Seq(Filters) /\ m \in Nat /\ DOMAIN AppSetup = 1..m
        /\ \A i \in 1..m : AppSetup[i].fn = "Terminate" <=> AppSetup[i].order = AtLast
    BY SetupAssumption, LenProperties
  <2>3. /\ setup \in Seq(Filters) /\ Len(setup) = n + m
        /\ \A i \in 1..n + m : setup[i] = IF i <= n THEN HTAfterInit[i] ELSE AppSetup[i - n]
    BY <1>1, <2>1, <2>2, ConcatProperties
  <2>4. DOMAIN setup = 1..n + m
    BY <2>3, LenProperties
  <2> HIDE DEF n, m
  <2>5. \A i \in 1..n + m : setup[i].fn = "Terminate" <=> setup[i].order = AtLast
    <3> TAKE i \in 1..n + m
    <3>1. CASE i <= n
      <4>1. i \in 1..10 /\ setup[i] = HTAfterInit[i]
        BY <2>1, <2>2, <2>3, <3>1
      <4> QED BY <2>1, <4>1
    <3>2. CASE ~(i <= n)
      <4>1. i - n \in 1..m
        BY <2>1, <2>2, <3>2
      <4> QED BY <2>2, <2>3, <3>2, <4>1
    <3> QED BY <3>1, <3>2
  <2> QED BY <2>3, <2>4, <2>5 DEF Reporting
<1>3. FilterInv
  <2>1. DOMAIN after = {} /\ after \in Seq(Filters)
    BY <1>1
  <2> QED BY <1>2, <2>1 DEF FilterInv, Reporting, ByOrder, EachOnce
<1>4. NoRequest.alive = FALSE /\ NoRequest.net = FALSE
  BY DEF NoRequest
<1>5. Range(stack) = {}
  BY <1>1 DEF Range
<1> QED BY <1>1, <1>3, <1>4, <1>5 DEF DeleteInv, AliveInv, OwedInv

\* HTNet_addAfter puts a filter in its place and the reporting one stays last.
LEMMA RegisterDelete ==
    ASSUME IInv, DeleteInv, Register
    PROVE  DeleteInv'
<1> DEFINE f == Head(setup)
<1>1. /\ setup # <<>> /\ after' = AddGlobal(after, f) /\ setup' = Tail(setup)
      /\ UNCHANGED <<req, stack, timers, owed>>
  BY DEF Register
<1>2. FilterInv
  BY DEF DeleteInv
<1>3. /\ Len(setup) \in Nat /\ Len(setup) # 0 /\ DOMAIN setup = 1..Len(setup)
      /\ f = setup[1] /\ f \in Filters
      /\ Tail(setup) \in Seq(Filters) /\ Len(Tail(setup)) = Len(setup) - 1
      /\ \A i \in 1..Len(setup) - 1 : Tail(setup)[i] = setup[i + 1]
  BY <1>1, <1>2, HeadTailProperties, LenProperties, EmptySeq DEF FilterInv
<1> HIDE DEF f
<1>4. DOMAIN Tail(setup) = 1..Len(setup) - 1
  BY <1>3, LenProperties
<1>5. Reporting(setup')
  <2>1. \A i \in DOMAIN Tail(setup) : i + 1 \in DOMAIN setup /\ Tail(setup)[i] = setup[i + 1]
    BY <1>3, <1>4
  <2> QED BY <1>1, <1>2, <2>1 DEF FilterInv, Reporting
<1>6. f.fn = "Terminate" <=> f.order = AtLast
  <2>1. 1 \in DOMAIN setup
    BY <1>3
  <2> QED BY <1>2, <1>3, <2>1 DEF FilterInv, Reporting
<1>7. /\ after' \in Seq(Filters) /\ ByOrder(after') /\ EachOnce(after')
      /\ Range(after') = {x \in Range(after) : x.fn # f.fn} \cup {f}
  BY <1>1, <1>2, <1>3, AddGlobalFacts DEF FilterInv
<1>8. Reporting(after')
  <2>1. \A x \in Range(after') : x.fn = "Terminate" <=> x.order = AtLast
    BY <1>2, <1>6, <1>7 DEF FilterInv, Reporting, Range
  <2> QED BY <2>1 DEF Reporting, Range
<1>9. FilterInv'
  BY <1>1, <1>3, <1>5, <1>7, <1>8 DEF FilterInv
<1> QED BY <1>1, <1>9 DEF DeleteInv, AliveInv, OwedInv

\* A call goes on top of the stack, takes the place of the call there, or the
\* call there returns.
LEMMA StackFine ==
    ASSUME IInv, NEW c, CallFine(c, req'),
           \/ stack' = <<c>> \o stack
           \/ stack # <<>> /\ stack' = <<c>> \o Tail(stack)
           \/ stack' = <<c>> \o <<>>
    PROVE  \A d \in Range(stack') : d \in Range(stack) \/ CallFine(d, req')
<1>1. IsSeq(stack)
  BY DEF IInv, StackInv
<1>2. CASE stack' = <<c>> \o stack
  BY <1>1, <1>2, CallsOf
<1>3. CASE stack # <<>> /\ stack' = <<c>> \o Tail(stack)
  BY <1>1, <1>3, CallsOf
<1>4. CASE stack' = <<c>> \o <<>>
  <2>1. IsSeq(<<>>) /\ Range(<<>>) = {}
    BY DEF IsSeq, Range
  <2>2. Range(<<c>> \o <<>>) = {c} \cup Range(<<>>)
    BY <2>1, PushCalls
  <2>3. Range(stack') = {c}
    BY <1>4, <2>1, <2>2
  <2> QED BY <2>3
<1> QED BY <1>2, <1>3, <1>4

LEMMA ReturnFine ==
    ASSUME IInv, stack # <<>>, stack' = Tail(stack)
    PROVE  \A d \in Range(stack') : d \in Range(stack)
<1>1. IsSeq(stack)
  BY DEF IInv, StackInv
<1> QED BY <1>1, CallsOf

\* Two calls on top: a request that is started in a list of filters.
LEMMA TwoFine ==
    ASSUME IInv, stack # <<>>, NEW b, NEW c, stack' = <<b>> \o <<c>> \o Tail(stack)
    PROVE  Range(stack') = {b, c} \cup Range(Tail(stack))
<1>1. IsSeq(stack)
  BY DEF IInv, StackInv
<1>2. IsSeq(Tail(stack))
  BY <1>1, TailSeq
<1>3. IsSeq(<<c>> \o Tail(stack)) /\ Range(<<c>> \o Tail(stack)) = {c} \cup Range(Tail(stack))
  BY <1>2, PushSeq, PushCalls
<1>4. stack' = <<b>> \o (<<c>> \o Tail(stack))
  BY <1>2, TwoOnTop
<1> DEFINE p == <<c>> \o Tail(stack)
<1>5. IsSeq(p) /\ Range(p) = {c} \cup Range(Tail(stack)) /\ stack' = <<b>> \o p
  BY <1>3, <1>4
<1> HIDE DEF p
<1>6. Range(<<b>> \o p) = {b} \cup Range(p)
  BY <1>5, PushCalls
<1>7. Range(stack') = {b} \cup Range(p)
  BY <1>5, <1>6
<1> QED BY <1>5, <1>7

LEMMA ReturnDelete ==
    ASSUME IInv, DeleteInv, ProtocolWaits \/ AfterReturns
    PROVE  DeleteInv'
<1>1. stack # <<>> /\ stack' = Tail(stack) /\ UNCHANGED <<setup, after, req, timers, owed>>
  BY DEF ProtocolWaits, AfterReturns, Running, Return
<1>2. \A c \in Range(stack') : c \in Range(stack)
  BY <1>1, ReturnFine
<1> QED BY <1>1, <1>2, SameRequests

LEMMA StartProtocolDelete ==
    ASSUME IInv, DeleteInv, StartProtocol
    PROVE  DeleteInv'
<1> DEFINE r == Top.req
<1>1. /\ stack # <<>> /\ Top.fn = "before"
      /\ req' = [req EXCEPT ![r].net = TRUE, ![r].retrys = @ + 1]
      /\ stack' = <<ProtocolCall(r)>> \o Tail(stack) /\ UNCHANGED <<setup, after, timers, owed>>
  BY DEF StartProtocol, Running
<1>2. r \in Requests /\ req[r].alive
  BY <1>1, TopFine DEF Live
<1>3. req \in [Requests -> Request]
  BY DEF IInv, DataInv
<1> HIDE DEF r
<1>4. \A q \in Requests : /\ req'[q].alive = req[q].alive
                          /\ req'[q].net => req[q].net \/ req[q].alive
  BY <1>1, <1>2, <1>3 DEF Request
<1>5. CallFine(ProtocolCall(r), req')
  BY <1>2, <1>4, NewCallsFine
<1>6. \A d \in Range(stack') : d \in Range(stack) \/ CallFine(d, req')
  BY <1>1, <1>5, StackFine
<1> QED BY <1>1, <1>4, <1>6, SameRequests

\* The AFTER filters of a request are called.
LEMMA NetDeleteDelete ==
    ASSUME IInv, DeleteInv, NEW r \in Requests, req[r].alive, NEW status, NEW to, NEW rest,
           NetDelete(r, status, to, rest), rest = <<>> \/ (stack # <<>> /\ rest = Tail(stack))
    PROVE  DeleteInv'
<1> DEFINE c == AfterCall(r, status, to, FALSE)
<1>1. /\ req' = [req EXCEPT ![r].net = FALSE] /\ stack' = <<c>> \o rest
      /\ UNCHANGED <<setup, after, timers, owed>>
  BY DEF NetDelete
<1>2. req \in [Requests -> Request]
  BY DEF IInv, DataInv
<1>3. \A q \in Requests : /\ req'[q].alive = req[q].alive
                          /\ req'[q].net => req[q].net
  BY <1>1, <1>2 DEF Request
<1>4. CallFine(c, req')
  BY <1>3, NewCallsFine
<1> HIDE DEF c
<1>5. \A d \in Range(stack') : d \in Range(stack) \/ CallFine(d, req')
  BY <1>1, <1>4, StackFine
<1> QED BY <1>1, <1>3, <1>5, SameRequests

LEMMA ProtocolEndsDelete ==
    ASSUME IInv, DeleteInv, ProtocolEnds
    PROVE  DeleteInv'
<1>1. stack # <<>> /\ Top.fn = "protocol"
  BY DEF ProtocolEnds, Running
<1>2. Top.req \in Requests /\ req[Top.req].alive
  BY <1>1, TopFine DEF Live
<1>3. \E status, to : NetDelete(Top.req, status, to, Tail(stack))
  BY DEF ProtocolEnds
<1> QED BY <1>1, <1>2, <1>3, NetDeleteDelete

LEMMA AnswerDelete ==
    ASSUME IInv, DeleteInv, NEW r \in Requests, Answer(r) \/ Kill(r)
    PROVE  DeleteInv'
<1>1. req[r].net
  BY DEF Answer, Kill
<1>2. req[r].alive
  BY <1>1 DEF DeleteInv, AliveInv
<1>3. \E status, to : NetDelete(r, status, to, <<>>)
  BY DEF Answer, Kill
<1> QED BY <1>2, <1>3, NetDeleteDelete

LEMMA FilterEventDelete ==
    ASSUME IInv, DeleteInv, NEW r \in Requests, FilterEvent(r)
    PROVE  DeleteInv'
<1>1. PICK t \in timers : /\ t.req = r /\ timers' = timers \ {t}
                          /\ stack' = <<AfterCall(r, t.status, NoUrl, TRUE)>> \o stack
  BY DEF FilterEvent, Push
<1>2. UNCHANGED <<setup, after, req, owed>>
  BY DEF FilterEvent
<1>3. req[r].alive
  BY <1>1 DEF DeleteInv, AliveInv
<1> DEFINE c == AfterCall(r, t.status, NoUrl, TRUE)
<1>4. CallFine(c, req')
  BY <1>2, <1>3, NewCallsFine
<1>5. stack' = <<c>> \o stack
  BY <1>1
<1> HIDE DEF c
<1>6. \A d \in Range(stack') : d \in Range(stack) \/ CallFine(d, req')
  BY <1>4, <1>5, StackFine
<1> QED BY <1>1, <1>2, <1>6, SameRequests

\* A BEFORE filter refuses a request that exists.
LEMMA RefuseDelete ==
    ASSUME IInv, DeleteInv, stack # <<>>, Top.fn = "before", Refuse,
           UNCHANGED <<setup, after, req, owed>>
    PROVE  DeleteInv'
<1>1. Top.req \in Requests /\ req[Top.req].alive
  BY TopFine DEF Live
<1>2. CASE Top.req \in Preemptive
  <2> DEFINE c == AfterCall(Top.req, "ERROR", NoUrl, TRUE)
  <2>1. CallFine(c, req')
    BY <1>1, NewCallsFine
  <2>2. stack' = <<c>> \o Tail(stack) /\ UNCHANGED timers
    BY <1>2 DEF Refuse
  <2> HIDE DEF c
  <2>3. \A d \in Range(stack') : d \in Range(stack) \/ CallFine(d, req')
    BY <2>1, <2>2, StackFine
  <2> QED BY <2>2, <2>3, SameRequests
<1>3. CASE Top.req \notin Preemptive
  <2> DEFINE t == [req |-> Top.req, status |-> "ERROR"]
  <2>1. stack' = Tail(stack) /\ timers' = timers \cup {t} /\ t.req = Top.req
    BY <1>3 DEF Refuse, Return
  <2> HIDE DEF t
  <2>2. \A d \in Range(stack') : d \in Range(stack)
    BY <2>1, ReturnFine
  <2>3. \A x \in timers' : x \in timers \/ (x.req \in Requests /\ req[x.req].alive)
    BY <1>1, <2>1
  <2> QED BY <2>2, <2>3, SameRequests
<1> QED BY <1>2, <1>3

\* A filter says that the next one may be called, or starts its request again.
LEMMA FilterDelete ==
    ASSUME IInv, DeleteInv, NEW fn \in {"before", "after"}, NEW filters, Calling(fn, filters),
           FilterOk \/ \E u : Reload(Top.req, u),
           UNCHANGED <<setup, after, timers, owed>>,
           \A r \in Requests : req'[r].alive = req[r].alive,
           \A r \in Requests : req'[r].net => req[r].net
    PROVE  DeleteInv'
<1>1. stack # <<>> /\ Top.fn # "protocol" /\ Top.left # <<>> /\ Top.req \in Requests
  BY FilterFacts
<1>2. req'[Top.req].alive
  BY <1>1, TopFine DEF Live
<1>3. CallFine(NextFilter, req') /\ CallFine(LastFilter, req')
  BY <1>1, <1>2, ShorterFine
<1>4. CASE FilterOk
  <2>1. stack' = <<NextFilter>> \o Tail(stack)
    BY <1>4 DEF FilterOk
  <2>2. \A d \in Range(stack') : d \in Range(stack) \/ CallFine(d, req')
    BY <1>1, <1>3, <2>1, StackFine
  <2> QED BY <2>2, SameRequests
<1>5. CASE \E u : Reload(Top.req, u)
  <2>1. PICK u : stack' = <<BeforeCall(Top.req, u)>> \o <<LastFilter>> \o Tail(stack)
    BY <1>5 DEF Reload
  <2>2. CallFine(BeforeCall(Top.req, u), req')
    BY <1>1, <1>2, NewCallsFine
  <2>3. Range(stack') = {BeforeCall(Top.req, u), LastFilter} \cup Range(Tail(stack))
    BY <1>1, <2>1, TwoFine
  <2>4. \A d \in Range(stack') : d \in Range(stack) \/ CallFine(d, req')
    BY <1>1, <1>3, <2>2, <2>3, BelowTop
  <2> QED BY <2>4, SameRequests
<1> QED BY <1>4, <1>5

LEMMA PassFilterDelete ==
    ASSUME IInv, DeleteInv, PassFilter \/ RedirectNot
    PROVE  DeleteInv'
<1>1. /\ FilterOk /\ UNCHANGED <<setup, after, req, timers, owed>>
      /\ \E fn \in {"before", "after"} : \E filters : Calling(fn, filters)
  BY DEF PassFilter, RedirectNot
<1> QED BY <1>1, FilterDelete

LEMMA RuleForbidsDelete ==
    ASSUME IInv, DeleteInv, RuleForbids
    PROVE  DeleteInv'
<1>1. Calling("before", {"Rule"}) /\ Refuse /\ UNCHANGED <<setup, after, req, owed>>
  BY DEF RuleForbids
<1> QED BY <1>1, FilterFacts, RefuseDelete

\* Two parts of a request are changed, which leaves the others.
LEMMA CredsAskedKept ==
    ASSUME NEW f \in [Requests -> Request], NEW r \in Requests, NEW a,
           NEW g, g = [f EXCEPT ![r].creds = a, ![r].asked = @ + 1]
    PROVE  \A q \in Requests : g[q].alive = f[q].alive /\ g[q].net = f[q].net
<1>1. g[r] = [f[r] EXCEPT !.creds = a, !.asked = @ + 1]
  OBVIOUS
<1>2. \A q \in Requests : q # r => g[q] = f[q]
  OBVIOUS
<1>3. g[r].alive = f[r].alive /\ g[r].net = f[r].net
  BY <1>1 DEF Request
<1> QED BY <1>2, <1>3

LEMMA UrlAskedKept ==
    ASSUME NEW f \in [Requests -> Request], NEW r \in Requests, NEW u, NEW n,
           NEW g, g = [f EXCEPT ![r].url = u, ![r].asked = n]
    PROVE  \A q \in Requests : g[q].alive = f[q].alive /\ g[q].net = f[q].net
<1>1. g[r] = [f[r] EXCEPT !.url = u, !.asked = n]
  OBVIOUS
<1>2. \A q \in Requests : q # r => g[q] = f[q]
  OBVIOUS
<1>3. g[r].alive = f[r].alive /\ g[r].net = f[r].net
  BY <1>1 DEF Request
<1> QED BY <1>2, <1>3

LEMMA CredentialsDelete ==
    ASSUME IInv, DeleteInv, Credentials
    PROVE  DeleteInv'
<1> DEFINE r == Top.req
           a == RealmOf[req[r].url]
<1>1. Calling("before", {"Credentials"}) /\ UNCHANGED <<setup, after, owed>>
  BY DEF Credentials
<1>2. stack # <<>> /\ Top.fn = "before" /\ r \in Requests /\ req \in [Requests -> Request]
  BY <1>1, FilterFacts DEF DataInv
<1>3. \/ /\ FilterOk /\ UNCHANGED timers
         /\ \/ UNCHANGED req
            \/ req' = [req EXCEPT ![r].creds = a]
            \/ req' = [req EXCEPT ![r].creds = a, ![r].asked = @ + 1]
      \/ Refuse /\ UNCHANGED req
  BY DEF Credentials
<1> HIDE DEF a, r
<1>4. CASE Refuse /\ UNCHANGED req
  BY <1>1, <1>2, <1>4, RefuseDelete
<1>5. CASE /\ FilterOk /\ UNCHANGED timers
           /\ \/ UNCHANGED req
              \/ req' = [req EXCEPT ![r].creds = a]
              \/ req' = [req EXCEPT ![r].creds = a, ![r].asked = @ + 1]
  <2>1. \A q \in Requests : req'[q].alive = req[q].alive /\ (req'[q].net => req[q].net)
    <3>1. CASE UNCHANGED req
      BY <3>1
    <3>2. CASE req' = [req EXCEPT ![r].creds = a]
      BY <1>2, <3>2 DEF Request
    <3>3. CASE req' = [req EXCEPT ![r].creds = a, ![r].asked = @ + 1]
      BY <1>2, <3>3, CredsAskedKept
    <3> QED BY <1>5, <3>1, <3>2, <3>3
  <2> QED BY <1>1, <1>5, <2>1, FilterDelete
<1> QED BY <1>3, <1>4, <1>5

LEMMA AuthenticateDelete ==
    ASSUME IInv, DeleteInv, Authenticate
    PROVE  DeleteInv'
<1> DEFINE r     == Top.req
           tries == IF req[r].AAretrys = 2 THEN 2 ELSE req[r].AAretrys + 1
           tried == [req EXCEPT ![r].creds = NoRealm, ![r].AAretrys = tries]
<1>1. Calling("after", {"Auth"}) /\ UNCHANGED <<setup, after, timers, owed>>
  BY DEF Authenticate
<1>2. r \in Requests /\ req \in [Requests -> Request]
  BY <1>1, FilterFacts DEF DataInv
<1>3. /\ req' = tried \/ req' = [tried EXCEPT ![r].asked = @ + 1]
      /\ FilterOk \/ \E u : Reload(r, u)
  BY DEF Authenticate
<1> HIDE DEF tries
<1>4. \A q \in Requests : req'[q].alive = req[q].alive /\ (req'[q].net => req[q].net)
  <2> HIDE DEF r
  <2> QED BY <1>2, <1>3 DEF Request
<1> QED BY <1>1, <1>3, <1>4, FilterDelete

LEMMA RedirectDelete ==
    ASSUME IInv, DeleteInv, RedirectTooOften \/ RedirectFollow
    PROVE  DeleteInv'
<1> DEFINE r == Top.req
           q == Redirected(r)[r]
<1>1. Calling("after", {"Redirect"}) /\ UNCHANGED <<setup, after, timers, owed>>
  BY DEF RedirectTooOften, RedirectFollow
<1>2. r \in Requests /\ req \in [Requests -> Request]
  BY <1>1, FilterFacts DEF DataInv
<1>3. \A p \in Requests : /\ Redirected(r)[p].alive = req[p].alive
                          /\ Redirected(r)[p].net = req[p].net
  <2> DEFINE m == IF Top.status = "SEE_OTHER" THEN "GET" ELSE req[r].method
  <2>1. Redirected(r) = [req EXCEPT ![r].method = m, ![r].creds = NoRealm]
    BY <1>2 DEF Redirected
  <2> HIDE DEF m, r
  <2> QED BY <1>2, <2>1 DEF Request
<1>4. Redirected(r) \in [Requests -> Request]
  BY <1>2, RedirectedFacts
<1>5. /\ \/ req' = Redirected(r)
         \/ \E n, u : req' = [Redirected(r) EXCEPT ![r].url = u, ![r].asked = n]
      /\ FilterOk \/ \E u : Reload(r, u)
  BY <1>4 DEF RedirectTooOften, RedirectFollow, FallThrough
<1>6. \A p \in Requests : /\ req'[p].alive = Redirected(r)[p].alive
                          /\ req'[p].net = Redirected(r)[p].net
  <2>1. CASE req' = Redirected(r)
    BY <2>1
  <2>2. CASE \E n, u : req' = [Redirected(r) EXCEPT ![r].url = u, ![r].asked = n]
    <3>1. PICK n, u : req' = [Redirected(r) EXCEPT ![r].url = u, ![r].asked = n]
      BY <2>2
    <3> DEFINE f == Redirected(r)
    <3>2. f \in [Requests -> Request] /\ req' = [f EXCEPT ![r].url = u, ![r].asked = n]
      BY <1>4, <3>1
    <3> HIDE DEF f, r
    <3>3. \A p \in Requests : req'[p].alive = f[p].alive /\ req'[p].net = f[p].net
      BY <1>2, <3>2, UrlAskedKept
    <3> QED BY <3>3 DEF f
  <2> QED BY <1>5, <2>1, <2>2
<1> QED BY <1>1, <1>3, <1>5, <1>6, FilterDelete

(***************************************************************************)
(* Requests come and go.                                                   *)
(***************************************************************************)
\* A request object that did not exist is made.
LEMMA MadeRequest ==
    ASSUME NEW u, NEW m
    PROVE  LET q == [NoRequest EXCEPT !.alive = TRUE, !.url = u, !.method = m]
           IN  q.alive = TRUE /\ q.net = FALSE /\ NoRequest.alive = FALSE /\ NoRequest.net = FALSE
  BY DEF NoRequest

LEMMA AppLoadDelete ==
    ASSUME IInv, DeleteInv, NEW r \in Requests, NEW u, NEW m, AppLoad(r, u, m)
    PROVE  DeleteInv'
<1> DEFINE q == [NoRequest EXCEPT !.alive = TRUE, !.url = u, !.method = m]
           c == BeforeCall(r, u)
<1>1. /\ stack = <<>> /\ ~req[r].alive /\ req' = [req EXCEPT ![r] = q]
      /\ owed' = [owed EXCEPT ![r] = @ + 1]
      /\ UNCHANGED <<setup, after, timers>> /\ stack' = <<c>> \o <<>>
  BY DEF AppLoad, NewLoad, Push, Unused
<1>2. q.alive = TRUE /\ q.net = FALSE
  BY MadeRequest
<1>3. req \in [Requests -> Request] /\ owed \in [Requests -> Int]
  BY DEF IInv, DataInv
<1> HIDE DEF q
<1>4. \A p \in Requests : req'[p] = IF p = r THEN q ELSE req[p]
  BY <1>1, <1>3
<1>5. OwedInv'
  <2>1. \A p \in Requests : owed'[p] = IF p = r THEN owed[r] + 1 ELSE owed[p]
    BY <1>1, <1>3
  <2>2. owed[r] = 0
    BY <1>1 DEF DeleteInv, OwedInv
  <2> QED BY <1>2, <1>4, <2>1, <2>2 DEF DeleteInv, OwedInv
<1>6. CallFine(c, req')
  <2>1. req'[r].alive
    BY <1>2, <1>4
  <2> QED BY <2>1, NewCallsFine
<1> HIDE DEF c
<1>7. \A d \in Range(stack') : CallFine(d, req')
  <2>1. IsSeq(<<>>) /\ Range(<<>>) = {}
    BY DEF IsSeq, Range
  <2>2. Range(stack') = {c} \cup {}
    BY <1>1, <2>1, PushCalls
  <2> QED BY <1>6, <2>2
<1>8. \A t \in timers' : req'[t.req].alive
  <2>1. \A t \in timers : t.req \in Requests /\ req[t.req].alive
    BY DEF IInv, DataInv, DeleteInv, AliveInv
  <2> QED BY <1>1, <1>2, <1>4, <2>1
<1>9. \A p \in Requests : req'[p].net => req'[p].alive
  BY <1>2, <1>4 DEF DeleteInv, AliveInv
<1>10. FilterInv'
  BY <1>1 DEF DeleteInv, FilterInv
<1> QED BY <1>5, <1>7, <1>8, <1>9, <1>10 DEF DeleteInv, AliveInv

\* The request of the call on top is deleted: nothing else knows of it.
LEMMA DeletedRequest ==
    ASSUME IInv, DeleteInv, stack # <<>>, Live(Top), UNCHANGED <<setup, after, timers>>,
           NEW r \in Requests, r = Top.req, owed' = [owed EXCEPT ![r] = @ - 1],
           req' = [req EXCEPT ![r] = NoRequest]
    PROVE  /\ FilterInv' /\ OwedInv'
           /\ \A d \in Range(Tail(stack)) : CallFine(d, req')
           /\ \A t \in timers' : req'[t.req].alive
           /\ \A p \in Requests : req'[p].net => req'[p].alive
<1>1. NoRequest.alive = FALSE /\ NoRequest.net = FALSE
  BY DEF NoRequest
<1>2. req \in [Requests -> Request] /\ owed \in [Requests -> Int]
  BY DEF IInv, DataInv
<1>3. \A p \in Requests : req'[p] = IF p = r THEN NoRequest ELSE req[p]
  BY <1>2
<1>4. req[r].alive
  BY TopFine
<1>5. OwedInv'
  <2>1. \A p \in Requests : owed'[p] = IF p = r THEN owed[r] - 1 ELSE owed[p]
    BY <1>2
  <2>2. owed[r] = 1
    BY <1>4 DEF DeleteInv, OwedInv
  <2> QED BY <1>1, <1>3, <2>1, <2>2 DEF DeleteInv, OwedInv
<1>6. FilterInv'
  BY DEF DeleteInv, FilterInv
<1>7. \A d \in Range(Tail(stack)) : CallFine(d, req')
  <2> SUFFICES ASSUME NEW d \in Range(Tail(stack)) PROVE CallFine(d, req')
    OBVIOUS
  <2>1. d \in Range(stack) /\ (Live(d) => d.req # r)
    BY BelowTop
  <2>2. d.req \in Requests /\ CallFine(d, req)
    BY <2>1, CallsTyped DEF DeleteInv, AliveInv
  <2> QED BY <1>3, <2>1, <2>2 DEF CallFine
<1>8. \A t \in timers' : req'[t.req].alive
  <2> SUFFICES ASSUME NEW t \in timers PROVE req'[t.req].alive
    OBVIOUS
  <2>1. Top = stack[1] /\ 1 \in DOMAIN stack
    BY TopFacts
  <2>2. t.req # r /\ t.req \in Requests
    BY <2>1 DEF IInv, StackInv, DataInv
  <2> QED BY <1>3, <2>2 DEF DeleteInv, AliveInv
<1>9. \A p \in Requests : req'[p].net => req'[p].alive
  BY <1>1, <1>3 DEF DeleteInv, AliveInv
<1> QED BY <1>5, <1>6, <1>7, <1>8, <1>9

LEMMA NoProtocolDelete ==
    ASSUME IInv, DeleteInv, NoProtocol
    PROVE  DeleteInv'
<1>1. /\ stack # <<>> /\ Top.fn = "before" /\ stack' = Tail(stack)
      /\ UNCHANGED <<setup, after, timers>>
      /\ \/ /\ req' = [req EXCEPT ![Top.req] = NoRequest]
            /\ owed' = [owed EXCEPT ![Top.req] = @ - 1]
         \/ UNCHANGED <<req, owed>>
  BY DEF NoProtocol, Running, Return
<1>2. CASE UNCHANGED <<req, owed>>
  <2>1. \A c \in Range(stack') : c \in Range(stack)
    BY <1>1, ReturnFine
  <2> QED BY <1>1, <1>2, <2>1, SameRequests
<1>3. CASE /\ req' = [req EXCEPT ![Top.req] = NoRequest]
           /\ owed' = [owed EXCEPT ![Top.req] = @ - 1]
  <2>1. Top.req \in Requests /\ Live(Top)
    BY <1>1, TopFine DEF Live
  <2> QED BY <1>1, <1>3, <2>1, DeletedRequest DEF DeleteInv, AliveInv
<1> QED BY <1>1, <1>2, <1>3

\* The reporting filter is the last one: its list is through when it returns.
LEMMA ReportingIsLast ==
    ASSUME IInv, DeleteInv, Calling("after", {"Terminate"})
    PROVE  /\ stack # <<>> /\ Live(Top) /\ Top.req \in Requests
           /\ \A rq : CallFine(NextFilter, rq)
<1>1. /\ stack # <<>> /\ Top.fn = "after" /\ Top.left # <<>> /\ Top.req \in Requests
      /\ Head(Top.left).fn = "Terminate"
  BY FilterFacts DEF Calling
<1>2. CallOK(Top) /\ CallFine(Top, req)
  BY <1>1, TopFine
<1>3. NextFilter.req = Top.req /\ NextFilter.fn = Top.fn /\ NextFilter.left = Tail(Top.left)
  BY <1>2, LeftInv DEF NextFilter
<1>4. LastOK(Tail(Top.left)) /\ Tail(Top.left) = <<>>
  BY <1>1, <1>2, TailLast DEF CallFine
<1> QED BY <1>1, <1>3, <1>4 DEF CallFine, Live

LEMMA ReportDelete ==
    ASSUME IInv, DeleteInv, NEW r \in Requests, Report(r)
    PROVE  DeleteInv'
<1>1. /\ Calling("after", {"Terminate"}) /\ Top.req = r
      /\ req' = [req EXCEPT ![r] = NoRequest] /\ owed' = [owed EXCEPT ![r] = @ - 1]
      /\ UNCHANGED <<setup, after, timers>> /\ stack' = <<NextFilter>> \o Tail(stack)
  BY DEF Report, FilterOk
<1>2. stack # <<>> /\ Live(Top) /\ CallFine(NextFilter, req')
  BY <1>1, ReportingIsLast
<1>3. /\ FilterInv' /\ OwedInv'
      /\ \A d \in Range(Tail(stack)) : CallFine(d, req')
      /\ \A t \in timers' : req'[t.req].alive
      /\ \A p \in Requests : req'[p].net => req'[p].alive
  BY <1>1, <1>2, DeletedRequest
<1>4. Range(stack') = {NextFilter} \cup Range(Tail(stack))
  <2>1. IsSeq(stack)
    BY DEF IInv, StackInv
  <2> QED BY <1>1, <1>2, <2>1, CallsOf
<1> QED BY <1>2, <1>3, <1>4 DEF DeleteInv, AliveInv

\* The reporting filter loads another request before it returns: that request
\* exists from now on, and no call and no timer was about it.
LEMMA HandOver ==
    ASSUME IInv, DeleteInv, NEW r \in Requests, NEW next \in Requests, NEW u, NEW m,
           ReportAndLoad(r, next, u, m)
    PROVE  /\ stack # <<>> /\ Live(Top) /\ Top.req = r /\ next # r
           /\ owed[r] = 1 /\ owed[next] = 0
           /\ \A p \in Requests : owed'[p] = IF p = next THEN 1 ELSE IF p = r THEN 0 ELSE owed[p]
           /\ owed' = [owed EXCEPT ![r] = 0, ![next] = 1]
           /\ \A p \in Requests : /\ req'[p].alive <=> p = next \/ (p # r /\ req[p].alive)
                                  /\ req'[p].net => p # next /\ p # r /\ req[p].net
<1> DEFINE q == [NoRequest EXCEPT !.alive = TRUE, !.url = u, !.method = m]
<1>1. /\ Calling("after", {"Terminate"}) /\ Top.req = r /\ next # r /\ Unused(next)
      /\ owed' = [owed EXCEPT ![r] = @ - 1, ![next] = @ + 1]
      /\ req' = [req EXCEPT ![r] = NoRequest, ![next] = q]
  BY DEF ReportAndLoad
<1>2. q.alive = TRUE /\ q.net = FALSE /\ NoRequest.alive = FALSE /\ NoRequest.net = FALSE
  BY MadeRequest
<1>3. stack # <<>> /\ Live(Top)
  BY <1>1, ReportingIsLast
<1>4. req[r].alive /\ ~req[next].alive
  BY <1>1, <1>3, TopFine DEF Unused
<1>5. owed[r] = 1 /\ owed[next] = 0
  BY <1>4 DEF DeleteInv, OwedInv
<1>6. req \in [Requests -> Request] /\ owed \in [Requests -> Int]
  BY DEF IInv, DataInv
<1>7. owed' = [owed EXCEPT ![r] = 0, ![next] = 1]
  BY <1>1, <1>5, <1>6
<1>8. \A p \in Requests : owed'[p] = IF p = next THEN 1 ELSE IF p = r THEN 0 ELSE owed[p]
  BY <1>6, <1>7
<1> HIDE DEF q
<1>9. \A p \in Requests : req'[p] = IF p = next THEN q ELSE IF p = r THEN NoRequest ELSE req[p]
  BY <1>1, <1>6
<1>10. \A p \in Requests : /\ req'[p].alive <=> p = next \/ (p # r /\ req[p].alive)
                           /\ req'[p].net => p # next /\ p # r /\ req[p].net
  BY <1>2, <1>9
<1> QED BY <1>1, <1>3, <1>5, <1>7, <1>8, <1>10

LEMMA ReportAndLoadDelete ==
    ASSUME IInv, DeleteInv, NEW r \in Requests, NEW next \in Requests, NEW u, NEW m,
           ReportAndLoad(r, next, u, m)
    PROVE  DeleteInv'
<1> DEFINE c == BeforeCall(next, u)
<1>1. /\ Calling("after", {"Terminate"}) /\ Unused(next) /\ UNCHANGED <<setup, after, timers>>
      /\ stack' = <<c>> \o <<NextFilter>> \o Tail(stack)
  BY DEF ReportAndLoad
<1>2. /\ stack # <<>> /\ Live(Top) /\ Top.req = r /\ next # r
      /\ \A p \in Requests : owed'[p] = IF p = next THEN 1 ELSE IF p = r THEN 0 ELSE owed[p]
      /\ \A p \in Requests : /\ req'[p].alive <=> p = next \/ (p # r /\ req[p].alive)
                             /\ req'[p].net => p # next /\ p # r /\ req[p].net
  BY HandOver
<1>3. FilterInv'
  BY <1>1 DEF DeleteInv, FilterInv
<1>4. OwedInv'
  BY <1>2 DEF DeleteInv, OwedInv
<1>5. CallFine(c, req') /\ CallFine(NextFilter, req')
  BY <1>1, <1>2, NewCallsFine, ReportingIsLast
<1> HIDE DEF c
<1>6. \A d \in Range(Tail(stack)) : CallFine(d, req')
  <2> SUFFICES ASSUME NEW d \in Range(Tail(stack)) PROVE CallFine(d, req')
    OBVIOUS
  <2>1. d \in Range(stack) /\ (Live(d) => d.req # r)
    BY <1>2, BelowTop
  <2>2. d.req \in Requests /\ CallFine(d, req)
    BY <2>1, CallsTyped DEF DeleteInv, AliveInv
  <2> QED BY <1>2, <2>1, <2>2 DEF CallFine
<1>7. \A d \in Range(stack') : CallFine(d, req')
  <2>1. Range(stack') = {c, NextFilter} \cup Range(Tail(stack))
    BY <1>1, <1>2, TwoFine
  <2> QED BY <1>5, <1>6, <2>1
<1>8. \A t \in timers' : req'[t.req].alive
  <2> SUFFICES ASSUME NEW t \in timers PROVE req'[t.req].alive
    BY <1>1
  <2>1. Top = stack[1] /\ 1 \in DOMAIN stack
    BY <1>2, TopFacts
  <2>2. t.req # r /\ t.req \in Requests
    BY <1>2, <2>1 DEF IInv, StackInv, DataInv
  <2> QED BY <1>2, <2>2 DEF DeleteInv, AliveInv
<1>9. \A p \in Requests : req'[p].net => req'[p].alive
  BY <1>2 DEF DeleteInv, AliveInv
<1> QED BY <1>3, <1>4, <1>7, <1>8, <1>9 DEF DeleteInv, AliveInv

LEMMA DeleteNext ==
    ASSUME IInv, DeleteInv, [Next]_vars
    PROVE  DeleteInv'
<1>1. CASE Register
  BY <1>1, RegisterDelete
<1>2. CASE NoProtocol
  BY <1>2, NoProtocolDelete
<1>3. CASE StartProtocol
  BY <1>3, StartProtocolDelete
<1>4. CASE ProtocolWaits \/ AfterReturns
  BY <1>4, ReturnDelete
<1>5. CASE ProtocolEnds
  BY <1>5, ProtocolEndsDelete
<1>6. CASE PassFilter \/ RedirectNot
  BY <1>6, PassFilterDelete
<1>7. CASE RuleForbids
  BY <1>7, RuleForbidsDelete
<1>8. CASE Credentials
  BY <1>8, CredentialsDelete
<1>9. CASE Authenticate
  BY <1>9, AuthenticateDelete
<1>10. CASE RedirectTooOften \/ RedirectFollow
  BY <1>10, RedirectDelete
<1>11. CASE \E r \in Requests : Report(r)
  BY <1>11, ReportDelete
<1>12. CASE \E r, next \in Requests, l \in Loads : ReportAndLoad(r, next, l[1], l[2])
  BY <1>12, ReportAndLoadDelete
<1>13. CASE \E r \in Requests, l \in Loads : AppLoad(r, l[1], l[2])
  BY <1>13, AppLoadDelete
<1>14. CASE \E r \in Requests : Answer(r) \/ Kill(r)
  BY <1>14, AnswerDelete
<1>15. CASE \E r \in Requests : FilterEvent(r)
  BY <1>15, FilterEventDelete
<1>16. CASE UNCHANGED vars
  BY <1>16 DEF vars, DeleteInv, FilterInv, AliveInv, OwedInv
<1> QED BY <1>1, <1>2, <1>3, <1>4, <1>5, <1>6, <1>7, <1>8, <1>9, <1>10, <1>11, <1>12,
           <1>13, <1>14, <1>15, <1>16 DEF Next, LibraryStep

LEMMA DeleteInvariance == Spec => [](IInv /\ DeleteInv)
<1>1. Init => IInv /\ DeleteInv
  BY InitInv, InitDelete
<1>2. (IInv /\ DeleteInv) /\ [Next]_vars => (IInv /\ DeleteInv)'
  BY NextInv, DeleteNext
<1> QED BY <1>1, <1>2, PTL DEF Spec

\* What a step does to the reports that are owed.
LEMMA ServiceStep ==
    ASSUME IInv, DeleteInv, [Next]_vars
    PROVE  [Service!Next]_owed
<1>1. \A r \in Requests : req[r].alive => owed[r] = 1
  BY DEF DeleteInv, OwedInv
<1>2. CASE NoProtocol
  <2>1. /\ stack # <<>> /\ Top.fn = "before"
        /\ owed' = [owed EXCEPT ![Top.req] = @ - 1] \/ UNCHANGED owed
    BY <1>2 DEF NoProtocol, Running
  <2>2. Top.req \in Requests /\ owed[Top.req] = 1
    BY <1>1, <2>1, TopFine DEF Live
  <2>3. Service!Report(Top.req) \/ UNCHANGED owed
    <3>1. CASE owed' = [owed EXCEPT ![Top.req] = @ - 1]
      <4>1. owed' = [owed EXCEPT ![Top.req] = 0]
        BY <2>2, <3>1
      <4> QED BY <2>2, <4>1 DEF Service!Report
    <3> QED BY <2>1, <3>1
  <2> QED BY <2>2, <2>3 DEF Service!Next
<1>3. CASE \E r \in Requests : Report(r)
  <2>1. PICK r \in Requests : /\ Calling("after", {"Terminate"}) /\ Top.req = r
                              /\ owed' = [owed EXCEPT ![r] = @ - 1]
    BY <1>3 DEF Report
  <2>2. owed[r] = 1
    BY <1>1, <2>1, ReportingIsLast, TopFine
  <2>3. owed' = [owed EXCEPT ![r] = 0]
    BY <2>1, <2>2
  <2>4. Service!Report(r)
    BY <2>2, <2>3 DEF Service!Report
  <2> QED BY <2>4 DEF Service!Next
<1>4. CASE \E r, next \in Requests, l \in Loads : ReportAndLoad(r, next, l[1], l[2])
  <2>1. PICK r, next \in Requests, l \in Loads : ReportAndLoad(r, next, l[1], l[2])
    BY <1>4
  <2>2. /\ owed[r] = 1 /\ owed[next] = 0
        /\ owed' = [owed EXCEPT ![r] = 0, ![next] = 1]
    BY <2>1, HandOver
  <2>3. Service!HandOver(r, next)
    BY <2>2 DEF Service!HandOver
  <2> QED BY <2>3 DEF Service!Next
<1>5. CASE \E r \in Requests, l \in Loads : AppLoad(r, l[1], l[2])
  <2>1. PICK r \in Requests : ~req[r].alive /\ owed' = [owed EXCEPT ![r] = @ + 1]
    BY <1>5 DEF AppLoad, NewLoad, Unused
  <2>2. owed[r] = 0
    BY <2>1 DEF DeleteInv, OwedInv
  <2>3. owed' = [owed EXCEPT ![r] = 1]
    BY <2>1, <2>2
  <2>4. Service!Accept(r)
    BY <2>2, <2>3 DEF Service!Accept
  <2> QED BY <2>4 DEF Service!Next
<1>6. CASE Register
  BY <1>6 DEF Register
<1>7. CASE \/ StartProtocol \/ ProtocolWaits \/ ProtocolEnds
           \/ PassFilter \/ RuleForbids \/ Credentials
           \/ Authenticate \/ RedirectNot \/ RedirectTooOften \/ RedirectFollow \/ AfterReturns
  BY <1>7 DEF StartProtocol, ProtocolWaits, ProtocolEnds, NetDelete, PassFilter, RuleForbids,
              Credentials, Authenticate, RedirectNot, RedirectTooOften, RedirectFollow, AfterReturns
<1>8. CASE \E r \in Requests : Answer(r) \/ Kill(r) \/ FilterEvent(r)
  BY <1>8 DEF Answer, Kill, NetDelete, FilterEvent
<1>9. CASE UNCHANGED vars
  BY <1>9 DEF vars
<1> QED BY <1>2, <1>3, <1>4, <1>5, <1>6, <1>7, <1>8, <1>9 DEF Next, LibraryStep

(***************************************************************************)
(* The theorems.                                                           *)
(***************************************************************************)
\* The parts of a request, the realms, the calls and the timers are what they are
\* declared to be, and a request in the BEFORE filters has no Net object any more
\* (HTNet_delete before the AFTER filters that load it again).
THEOREM TypeCorrect == Spec => []TypeOK
<1>1. IInv => TypeOK
  <2> SUFFICES ASSUME IInv PROVE TypeOK
    OBVIOUS
  <2>1. \A i \in DOMAIN stack : /\ stack[i].fn \in {"before", "protocol", "after"}
                                /\ stack[i].fn = "before" => ~req[stack[i].req].net
    <3> SUFFICES ASSUME NEW i \in DOMAIN stack
                 PROVE  /\ stack[i].fn \in {"before", "protocol", "after"}
                        /\ stack[i].fn = "before" => ~req[stack[i].req].net
      OBVIOUS
    <3>1. CallOK(stack[i]) /\ (Pending(stack[i]) => ~req[stack[i].req].net)
      BY DEF IInv, StackInv
    <3>2. stack[i].fn \in {"before", "protocol", "after"}
      BY <3>1 DEF CallOK
    <3>3. stack[i].fn = "before" => ~req[stack[i].req].net
      BY <3>1 DEF Pending, Live
    <3> QED BY <3>2, <3>3
  <2> QED BY <2>1 DEF IInv, DataInv, TypeOK
<1> QED BY <1>1, Invariance, PTL

\* However long a chain of refused requests is, each is reported from the event
\* loop: its AFTER filters are the outermost call (createAfterFilterEvent).
THEOREM RefusedReportedFromLoop == Spec => []RefusedFromLoop
<1>1. IInv => RefusedFromLoop
  BY DEF IInv, StackInv, RefusedFromLoop, Refused
<1> QED BY <1>1, Invariance, PTL

\* Whatever redirections and refusals a request went through, what it carries on
\* the wire are the credentials of the realm of its own URL.
THEOREM CredentialsStayInRealm == Spec => []CredentialsOfRealm
<1>1. IInv => CredentialsOfRealm
  BY DEF IInv, CredsInv, CredentialsOfRealm
<1> QED BY <1>1, Invariance, PTL

\* Once the reporting filter has deleted a request (HTRequest_delete in the
\* terminate filter of an application), no filter list that goes on and no timer
\* of an AFTER event is about it: the filter is the last of its list, and no
\* other call or timer of the same request goes on beside it.
THEOREM DeletedIsForgotten == Spec => []NoFilterAfterDelete
<1>1. IInv /\ DeleteInv => NoFilterAfterDelete
  <2> SUFFICES ASSUME IInv, DeleteInv PROVE NoFilterAfterDelete
    OBVIOUS
  <2>1. \A i \in DOMAIN stack : stack[i].left # <<>> => req[stack[i].req].alive
    <3> SUFFICES ASSUME NEW i \in DOMAIN stack, stack[i].left # <<>>
                 PROVE  req[stack[i].req].alive
      OBVIOUS
    <3>1. CallFine(stack[i], req) /\ CallOK(stack[i])
      BY DEF DeleteInv, AliveInv, Range, IInv, StackInv
    <3>2. Live(stack[i])
      BY <3>1 DEF Live, CallOK
    <3> QED BY <3>1, <3>2 DEF CallFine
  <2> QED BY <2>1 DEF NoFilterAfterDelete, DeleteInv, AliveInv
<1> QED BY <1>1, DeleteInvariance, PTL

\* Whatever is registered in whatever sequence, the global AFTER filters stay in
\* the order of their numbers, and no function is in the list twice
\* (HTNetCall_addAfter deletes the earlier registration, then sorts).
THEOREM FiltersInOrder == Spec => [](ByOrder(after) /\ EachOnce(after))
<1>1. DeleteInv => ByOrder(after) /\ EachOnce(after)
  BY DEF DeleteInv, FilterInv
<1> QED BY <1>1, DeleteInvariance, PTL

\* However requests are redirected, refused, authenticated and killed, the
\* application is told at most once of each load it made, and of no other: every
\* step is one of the service an application sees, or none.
THEOREM ReportedAtMostOnce == Spec => Service!Init /\ [][Service!Next]_owed
<1>1. Init => Service!Init
  BY DEF Init, Service!Init
<1>2. IInv /\ DeleteInv /\ [Next]_vars => [Service!Next]_owed
  BY ServiceStep
<1> QED BY <1>1, <1>2, DeleteInvariance, PTL DEF Spec
==============================================================================
