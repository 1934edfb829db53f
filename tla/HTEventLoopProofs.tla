-------------------------- MODULE HTEventLoopProofs ---------------------------
(***************************************************************************)
(* Proofs about HTEventLoop for any sockets, events, priorities, timeouts  *)
(* and callbacks: who waits to be called is registered, the timers are     *)
(* those of the registered events, and select() sleeps past a timer by no  *)
(* more than the callbacks of timers took.                                 *)
(*                                                                         *)
(* The list of timers is sorted because a timer that starts again cannot   *)
(* expire before it did: it has run no longer than its period.             *)
(***************************************************************************)
EXTENDS HTEventLoop, ListLemmas

Timer == [id : Slots \cup AppTimers, left : Int, millis : Millis]

Ids(ts) == {ts[i].id : i \in DOMAIN ts}

\* A list of timers: one for each, sorted, and none has more left than its period.
TimersOK(ts) ==
    /\ ts \in Seq(Timer)
    /\ Sorted(ts)
    /\ \A i, j \in DOMAIN ts : ts[i].id = ts[j].id => i = j
    /\ \A i \in DOMAIN ts : ts[i].left <= ts[i].millis

Entry == [slot : Slots, event : Events, skipped : Nat]

Call == [kind : {"event", "timeout"}, slot : Slots, event : Events, calls : Nat]
            \cup [kind : {"timer"}, timer : AppTimers, calls : Nat]
            \cup {NoCall}

(***************************************************************************)
(* The list of timers.                                                     *)
(***************************************************************************)
\* A timer that is not in the list goes behind those that expire before it.
LEMMA InsertTimer ==
    ASSUME NEW ts, TimersOK(ts), NEW p \in 0..Len(ts), NEW t \in Timer,
           t.id \notin Ids(ts), t.left <= t.millis,
           \A i \in DOMAIN ts : i <= p => ts[i].left <= t.left
    PROVE  LET q == InsertAfter(ts, p, t)
           IN  TimersOK(q) /\ Range(q) = Range(ts) \cup {t}
<1> DEFINE n == Len(ts)
           K == NotBefore(ts, p, t)
           k == IF K = {} THEN n + 1 ELSE Min(K)
           q == InsertAfter(ts, p, t)
<1>1. ts \in Seq(Timer) /\ n \in Nat /\ DOMAIN ts = 1..n /\ p \in Nat
  BY LenProperties DEF TimersOK
<1>2. \A i \in 1..n : ts[i] \in Timer /\ ts[i].left \in Int
  <2> TAKE i \in 1..n
  <2>1. ts[i] \in Timer
    BY <1>1, ElementOfSeq
  <2> QED BY <2>1 DEF Timer
<1>3. t.left \in Int
  BY DEF Timer
<1>4. /\ k \in 1..n + 1
      /\ \A i \in 1..n : i < k => ts[i].left <= t.left
      /\ \A i \in 1..n : i >= k => t.left <= ts[i].left
  <2>1. K \subseteq 1..n /\ \A i \in 1..n : i \in K <=> i > p /\ ts[i].left >= t.left
    BY <1>1 DEF NotBefore
  <2>2. CASE K = {}
    <3>1. \A i \in 1..n : ts[i].left <= t.left
      <4> TAKE i \in 1..n
      <4>1. i > p => ~(ts[i].left >= t.left)
        BY <2>1, <2>2
      <4>2. i <= p => ts[i].left <= t.left
        BY <1>1
      <4> QED BY <1>1, <1>2, <1>3, <4>1, <4>2
    <3>2. k = n + 1
      BY <2>2
    <3> QED BY <1>1, <3>1, <3>2
  <2>3. CASE K # {}
    <3> HIDE DEF K
    <3>1. K \in SUBSET Nat
      BY <2>1
    <3>2. Min(K) \in K /\ \A j \in K : Min(K) <= j
      BY <2>3, <3>1, MinFacts
    <3>3. k \in K /\ \A j \in K : k <= j
      BY <2>3, <3>2
    <3> HIDE DEF k
    <3>4. k \in 1..n /\ k > p /\ ts[k].left >= t.left
      BY <2>1, <3>3
    <3>5. \A i \in 1..n : i < k => ts[i].left <= t.left
      <4> SUFFICES ASSUME NEW i \in 1..n, i < k PROVE ts[i].left <= t.left
        OBVIOUS
      <4>1. i \notin K
        BY <3>3, <3>4
      <4>2. i <= p \/ ~(ts[i].left >= t.left)
        BY <1>1, <2>1, <4>1
      <4> QED BY <1>1, <1>2, <1>3, <4>2
    <3>6. \A i \in 1..n : i >= k => t.left <= ts[i].left
      <4> SUFFICES ASSUME NEW i \in 1..n, i >= k PROVE t.left <= ts[i].left
        OBVIOUS
      <4>1. ts[k].left <= ts[i].left
        <5>1. k = i \/ k < i
          BY <3>4
        <5> QED BY <1>1, <1>2, <3>4, <5>1 DEF TimersOK, Sorted
      <4> QED BY <1>2, <1>3, <3>4, <4>1
    <3> QED BY <3>4, <3>5, <3>6
  <2> QED BY <2>2, <2>3
<1>5. /\ q \in Seq(Timer) /\ Len(q) = n + 1 /\ DOMAIN q = 1..n + 1
      /\ \A j \in 1..n + 1 : q[j] = IF j < k THEN ts[j] ELSE IF j = k THEN t ELSE ts[j - 1]
  <2>1. CASE K # {}
    <3>1. q = InsertAt(ts, k, t)
      BY <2>1 DEF InsertAfter
    <3>2. k \in 1..Len(ts) + 1
      BY <1>4
    <3> HIDE DEF q, k
    <3>3. /\ q \in Seq(Timer) /\ Len(q) = Len(ts) + 1 /\ DOMAIN q = 1..Len(ts) + 1
          /\ \A j \in 1..Len(ts) + 1 :
                q[j] = IF j < k THEN ts[j] ELSE IF j = k THEN t ELSE ts[j - 1]
      <4>1. ts \in Seq(Timer)
        BY <1>1
      <4> HIDE DEF n
      <4>2. /\ InsertAt(ts, k, t) \in Seq(Timer) /\ Len(InsertAt(ts, k, t)) = Len(ts) + 1
            /\ DOMAIN InsertAt(ts, k, t) = 1..Len(ts) + 1
            /\ \A j \in 1..Len(ts) + 1 : InsertAt(ts, k, t)[j] =
                  IF j < k THEN ts[j] ELSE IF j = k THEN t ELSE ts[j - 1]
        BY <4>1, <3>2, InsertAtFacts
      <4> QED BY <4>2, <3>1
    <3> QED BY <3>3
  <2>2. CASE K = {}
    <3>1. q = Append(ts, t) /\ k = n + 1
      BY <2>2 DEF InsertAfter
    <3> HIDE DEF k
    <3>2. q \in Seq(Timer) /\ Len(q) = n + 1
          /\ (\A i \in 1..n : q[i] = ts[i]) /\ q[n + 1] = t
      BY <1>1, <3>1, AppendProperties
    <3> HIDE DEF q, k
    <3>3. DOMAIN q = 1..n + 1
      BY <3>2, LenProperties
    <3>4. \A j \in 1..n + 1 : (j < k /\ j \in 1..n) \/ (j = k /\ j = n + 1)
      BY <1>1, <3>1
    <3>5. \A j \in 1..n + 1 : q[j] = IF j < k THEN ts[j] ELSE IF j = k THEN t ELSE ts[j - 1]
      BY <1>1, <3>1, <3>2, <3>4
    <3> QED BY <3>2, <3>3, <3>5
  <2> QED BY <2>1, <2>2
<1> HIDE DEF q, k, n
<1>6. Range(q) = Range(ts) \cup {t}
  <2>1. \A j \in 1..n + 1 : q[j] \in Range(ts) \cup {t}
    <3> TAKE j \in 1..n + 1
    <3>1. j < k => j \in 1..n
      BY <1>1, <1>4
    <3>2. j > k => j - 1 \in 1..n
      BY <1>1, <1>4
    <3> QED BY <1>1, <1>4, <1>5, <3>1, <3>2 DEF Range
  <2>2. t \in Range(q)
    BY <1>4, <1>5 DEF Range
  <2>3. \A i \in 1..n : ts[i] \in Range(q)
    <3> TAKE i \in 1..n
    <3>1. CASE i < k
      <4>1. i \in 1..n + 1 /\ q[i] = ts[i]
        BY <1>1, <1>5, <3>1
      <4> QED BY <4>1, <1>5 DEF Range
    <3>2. CASE i >= k
      <4>1. i + 1 \in 1..n + 1 /\ ~(i + 1 < k) /\ i + 1 # k /\ (i + 1) - 1 = i
        BY <1>1, <1>4, <3>2
      <4>2. q[i + 1] = ts[i]
        BY <1>5, <4>1
      <4> QED BY <4>1, <4>2, <1>5 DEF Range
    <3> QED BY <1>4, <3>1, <3>2
  <2> QED BY <1>1, <1>5, <2>1, <2>2, <2>3 DEF Range
<1>7. \A j \in 1..n + 1 : \/ j < k /\ j \in 1..n /\ q[j] = ts[j]
                          \/ j = k /\ q[j] = t
                          \/ j > k /\ j - 1 \in 1..n /\ q[j] = ts[j - 1]
  BY <1>1, <1>4, <1>5
<1>8. Sorted(q)
  <2> SUFFICES ASSUME NEW i \in 1..n + 1, NEW j \in 1..n + 1, i < j
               PROVE  q[i].left <= q[j].left
    BY <1>5 DEF Sorted
  <2>1. \A a, b \in 1..n : a < b => ts[a].left <= ts[b].left
    BY <1>1 DEF TimersOK, Sorted
  <2>2. CASE j < k
    BY <1>4, <1>7, <2>1, <2>2
  <2>3. CASE j = k
    BY <1>4, <1>7, <2>3
  <2>4. CASE j > k /\ i = k
    <3>1. q[i] = t /\ q[j] = ts[j - 1] /\ j - 1 \in 1..n /\ j - 1 >= k
      BY <1>4, <1>7, <2>4
    <3> QED BY <1>4, <3>1
  <2>5. CASE i > k
    <3>1. q[i] = ts[i - 1] /\ q[j] = ts[j - 1] /\ i - 1 \in 1..n /\ j - 1 \in 1..n /\ i - 1 < j - 1
      BY <1>4, <1>7, <2>5
    <3> QED BY <2>1, <3>1
  <2>6. CASE i < k /\ j > k
    <3>2. q[i] = ts[i] /\ q[j] = ts[j - 1] /\ i \in 1..n /\ j - 1 \in 1..n /\ j - 1 >= k
      BY <1>4, <1>7, <2>6
    <3>3. ts[i].left <= t.left /\ t.left <= ts[j - 1].left
      BY <1>4, <2>6, <3>2
    <3> QED BY <1>2, <1>3, <3>2, <3>3
  <2> QED BY <1>4, <2>2, <2>3, <2>4, <2>5, <2>6
<1>9. \A i, j \in 1..n + 1 : q[i].id = q[j].id => i = j
  <2>1. \A i \in 1..n : ts[i].id # t.id
    BY <1>1 DEF Ids
  <2>2. \A a, b \in 1..n : ts[a].id = ts[b].id => a = b
    BY <1>1 DEF TimersOK
  <2> TAKE i, j \in 1..n + 1
  <2> HAVE q[i].id = q[j].id
  <2>3. CASE i = k
    BY <1>7, <2>1, <2>3
  <2>4. CASE j = k
    BY <1>7, <2>1, <2>4
  <2>5. CASE i < k /\ j < k
    BY <1>4, <1>7, <2>2, <2>5
  <2>6. CASE i > k /\ j > k
    <3>1. /\ q[i] = ts[i - 1] /\ q[j] = ts[j - 1] /\ i - 1 \in 1..n /\ j - 1 \in 1..n
      BY <1>4, <1>7, <2>6
    <3>2. i - 1 = j - 1
      BY <2>2, <3>1
    <3> QED BY <1>1, <3>2
  <2>7. CASE i < k /\ j > k
    <3>1. i = j - 1
      BY <1>4, <1>7, <2>2, <2>7
    <3> QED BY <1>4, <2>7, <3>1
  <2>8. CASE i > k /\ j < k
    <3>1. j = i - 1
      BY <1>4, <1>7, <2>2, <2>8
    <3> QED BY <1>4, <2>8, <3>1
  <2> QED BY <1>4, <2>3, <2>4, <2>5, <2>6, <2>7, <2>8
<1>10. \A j \in 1..n + 1 : q[j].left <= q[j].millis
  BY <1>1, <1>7 DEF TimersOK
<1> QED BY <1>5, <1>6, <1>8, <1>9, <1>10 DEF TimersOK, q

\* A timer leaves the list (HTList_removeObject).
LEMMA RemoveTimer ==
    ASSUME NEW ts, TimersOK(ts), NEW i \in DOMAIN ts
    PROVE  LET q == RemoveAt(ts, i)
           IN  /\ TimersOK(q) /\ Len(q) = Len(ts) - 1 /\ DOMAIN ts = 1..Len(ts) /\ Len(ts) \in Nat
               /\ \A j \in DOMAIN q : j < i => q[j] = ts[j]
               /\ Range(q) = {x \in Range(ts) : x.id # ts[i].id}
<1> DEFINE n == Len(ts)
           q == RemoveAt(ts, i)
<1>1. ts \in Seq(Timer) /\ n \in Nat /\ DOMAIN ts = 1..n /\ i \in 1..n
  BY LenProperties DEF TimersOK
<1>2. /\ q \in Seq(Timer) /\ Len(q) = n - 1 /\ DOMAIN q = 1..n - 1
      /\ \A j \in 1..n - 1 : q[j] = IF j < i THEN ts[j] ELSE ts[j + 1]
  BY <1>1, RemoveAtFacts
<1> HIDE DEF q, n
<1>3. \A j \in 1..n - 1 : \/ j < i /\ j \in 1..n /\ q[j] = ts[j]
                          \/ j >= i /\ j + 1 \in 1..n /\ j + 1 # i /\ q[j] = ts[j + 1]
  BY <1>1, <1>2
<1>4. /\ \A a, b \in 1..n : a < b => ts[a].left <= ts[b].left
      /\ \A a, b \in 1..n : ts[a].id = ts[b].id => a = b
      /\ \A a \in 1..n : ts[a].left <= ts[a].millis
  BY <1>1 DEF TimersOK, Sorted
<1>5. Sorted(q)
  <2> SUFFICES ASSUME NEW a \in 1..n - 1, NEW b \in 1..n - 1, a < b
               PROVE  q[a].left <= q[b].left
    BY <1>2 DEF Sorted
  <2>1. CASE b < i
    BY <1>1, <1>3, <1>4, <2>1
  <2>2. CASE a >= i
    <3>1. /\ q[a] = ts[a + 1] /\ q[b] = ts[b + 1] /\ a + 1 \in 1..n /\ b + 1 \in 1..n
          /\ a + 1 < b + 1
      BY <1>1, <1>3, <2>2
    <3> QED BY <1>4, <3>1
  <2>3. CASE a < i /\ b >= i
    <3>1. /\ q[a] = ts[a] /\ q[b] = ts[b + 1] /\ a \in 1..n /\ b + 1 \in 1..n /\ a < b + 1
      BY <1>1, <1>3, <2>3
    <3> QED BY <1>4, <3>1
  <2> QED BY <1>1, <2>1, <2>2, <2>3
<1>6. \A a, b \in 1..n - 1 : q[a].id = q[b].id => a = b
  <2> SUFFICES ASSUME NEW a \in 1..n - 1, NEW b \in 1..n - 1, q[a].id = q[b].id
               PROVE  a = b
    OBVIOUS
  <2>1. PICK c \in 1..n : q[a] = ts[c] /\ c # i /\ a = IF c < i THEN c ELSE c - 1
    BY <1>1, <1>3
  <2>2. PICK d \in 1..n : q[b] = ts[d] /\ d # i /\ b = IF d < i THEN d ELSE d - 1
    BY <1>1, <1>3
  <2>3. c = d
    BY <1>4, <2>1, <2>2
  <2> QED BY <2>1, <2>2, <2>3
<1>7. \A a \in 1..n - 1 : q[a].left <= q[a].millis
  BY <1>3, <1>4
<1>8. Range(q) = {x \in Range(ts) : x.id # ts[i].id}
  <2>1. \A j \in 1..n - 1 : q[j] \in Range(ts) /\ q[j].id # ts[i].id
    <3> TAKE j \in 1..n - 1
    <3>1. PICK c \in 1..n : q[j] = ts[c] /\ c # i
      BY <1>1, <1>3
    <3> QED BY <1>1, <1>4, <3>1 DEF Range
  <2>2. \A c \in 1..n : ts[c].id # ts[i].id => ts[c] \in Range(q)
    <3> SUFFICES ASSUME NEW c \in 1..n, ts[c].id # ts[i].id PROVE ts[c] \in Range(q)
      OBVIOUS
    <3>1. c # i
      OBVIOUS
    <3>2. CASE c < i
      <4>1. c \in 1..n - 1 /\ q[c] = ts[c]
        BY <1>1, <1>2, <3>2
      <4> QED BY <1>2, <4>1 DEF Range
    <3>3. CASE c > i
      <4>1. c - 1 \in 1..n - 1 /\ ~(c - 1 < i) /\ (c - 1) + 1 = c
        BY <1>1, <3>3
      <4>2. q[c - 1] = ts[c]
        BY <1>2, <4>1
      <4> QED BY <1>2, <4>1, <4>2 DEF Range
    <3> QED BY <1>1, <3>1, <3>2, <3>3
  <2> QED BY <1>1, <1>2, <2>1, <2>2 DEF Range
<1>9. \A j \in DOMAIN q : j < i => q[j] = ts[j]
  BY <1>2
<1> QED BY <1>1, <1>2, <1>5, <1>6, <1>7, <1>8, <1>9 DEF TimersOK, q, n

LEMMA NewTimerType ==
    ASSUME NEW id \in Slots \cup AppTimers, NEW m \in Millis
    PROVE  /\ NewTimer(id, m) \in Timer /\ NewTimer(id, m).id = id
           /\ NewTimer(id, m).left = m /\ NewTimer(id, m).millis = m
  BY DEF NewTimer, Timer, Millis

\* A timer starts again where it was: those in front of it expire no later.
LEMMA RestartTimer ==
    ASSUME NEW ts, TimersOK(ts), NEW i \in DOMAIN ts, NEW m \in Millis, ts[i].left <= m
    PROVE  LET q == Restart(ts, i, m)
           IN  /\ TimersOK(q)
               /\ Range(q) = {x \in Range(ts) : x.id # ts[i].id} \cup {NewTimer(ts[i].id, m)}
<1> DEFINE p == RemoveAt(ts, i)
           t == NewTimer(ts[i].id, m)
<1>1. /\ ts \in Seq(Timer) /\ DOMAIN ts = 1..Len(ts) /\ Len(ts) \in Nat /\ i \in 1..Len(ts)
  BY LenProperties DEF TimersOK
<1>2. \A j \in 1..Len(ts) : ts[j] \in Timer /\ ts[j].left \in Int
  <2> TAKE j \in 1..Len(ts)
  <2>1. ts[j] \in Timer
    BY <1>1, ElementOfSeq
  <2> QED BY <2>1 DEF Timer
<1>3. /\ TimersOK(p) /\ Len(p) = Len(ts) - 1
      /\ \A j \in DOMAIN p : j < i => p[j] = ts[j]
      /\ Range(p) = {x \in Range(ts) : x.id # ts[i].id}
  BY RemoveTimer
<1>4. t \in Timer /\ t.id = ts[i].id /\ t.left = m /\ t.millis = m /\ m \in Nat
  <2>1. ts[i].id \in Slots \cup AppTimers
    BY <1>1, <1>2 DEF Timer
  <2> QED BY <2>1, NewTimerType DEF Millis
<1> HIDE DEF p, t
<1>5. DOMAIN p = 1..Len(ts) - 1
  BY <1>3, LenProperties DEF TimersOK
<1>6. \A j \in DOMAIN p : j <= i - 1 => p[j].left <= t.left
  <2> SUFFICES ASSUME NEW j \in DOMAIN p, j <= i - 1 PROVE p[j].left <= t.left
    OBVIOUS
  <2>1. j \in 1..Len(ts) /\ j < i /\ p[j] = ts[j]
    BY <1>1, <1>3, <1>5
  <2>2. ts[j].left <= ts[i].left
    BY <1>1, <2>1 DEF TimersOK, Sorted
  <2> QED BY <1>1, <1>2, <1>4, <2>1, <2>2
<1>7. t.id \notin Ids(p)
  <2>1. \A j \in DOMAIN p : p[j] \in Range(p)
    BY DEF Range
  <2> QED BY <1>3, <1>4, <2>1 DEF Ids
<1>8. i - 1 \in 0..Len(p) /\ t.left <= t.millis
  BY <1>1, <1>3, <1>4
<1>9. TimersOK(InsertAfter(p, i - 1, t)) /\ Range(InsertAfter(p, i - 1, t)) = Range(p) \cup {t}
  BY <1>3, <1>4, <1>6, <1>7, <1>8, InsertTimer
<1> QED BY <1>3, <1>9 DEF Restart, p, t

\* HTTimer_new and HTTimer_refresh: the timer is in the list once, with a period
\* no shorter than what it has left.
LEMMA SetTimerFacts ==
    ASSUME NEW ts, TimersOK(ts), NEW id \in Slots \cup AppTimers, NEW m \in Millis,
           \A x \in Range(ts) : x.id = id => x.left <= m
    PROVE  LET q == SetTimer(ts, id, m)
           IN  /\ TimersOK(q)
               /\ Range(q) = {x \in Range(ts) : x.id # id} \cup {NewTimer(id, m)}
<1>1. CASE HasTimer(ts, id)
  <2> DEFINE i == CHOOSE i \in PlaceOf(ts, id) : TRUE
  <2>1. i \in DOMAIN ts /\ ts[i].id = id
    BY <1>1 DEF HasTimer, PlaceOf
  <2>2. SetTimer(ts, id, m) = Restart(ts, i, m)
    BY <1>1 DEF SetTimer
  <2> HIDE DEF i
  <2>3. ts[i].left <= m
    BY <2>1 DEF Range
  <2> QED BY <2>1, <2>2, <2>3, RestartTimer
<1>2. CASE ~HasTimer(ts, id)
  <2> DEFINE t == NewTimer(id, m)
  <2>1. SetTimer(ts, id, m) = InsertAfter(ts, 0, t)
    BY <1>2 DEF SetTimer
  <2>2. id \notin Ids(ts) /\ Range(ts) = {x \in Range(ts) : x.id # id}
    BY <1>2 DEF HasTimer, PlaceOf, Ids, Range
  <2>3. t \in Timer /\ t.id = id /\ t.left = m /\ t.millis = m /\ m \in Nat
    BY NewTimerType DEF Millis
  <2>4. ts \in Seq(Timer) /\ DOMAIN ts = 1..Len(ts) /\ Len(ts) \in Nat
    BY LenProperties DEF TimersOK
  <2> HIDE DEF t
  <2>5. /\ 0 \in 0..Len(ts) /\ t.left <= t.millis
        /\ \A i \in DOMAIN ts : i <= 0 => ts[i].left <= t.left
    BY <2>3, <2>4
  <2>6. TimersOK(InsertAfter(ts, 0, t)) /\ Range(InsertAfter(ts, 0, t)) = Range(ts) \cup {t}
    BY <2>2, <2>3, <2>5, InsertTimer
  <2> QED BY <2>1, <2>2, <2>6 DEF t
<1> QED BY <1>1, <1>2

LEMMA RefreshFacts ==
    ASSUME NEW ts, TimersOK(ts), NEW id
    PROVE  LET q == Refresh(ts, id)
           IN  /\ TimersOK(q)
               /\ \A x \in Range(q) : \E y \in Range(ts) : x.id = y.id /\ x.millis = y.millis
               /\ \A y \in Range(ts) : \E x \in Range(q) : x.id = y.id /\ x.millis = y.millis
<1>1. CASE HasTimer(ts, id)
  <2> DEFINE i == CHOOSE i \in PlaceOf(ts, id) : TRUE
             t == NewTimer(ts[i].id, ts[i].millis)
             q == Refresh(ts, id)
  <2>1. i \in DOMAIN ts /\ ts[i].id = id
    BY <1>1 DEF HasTimer, PlaceOf
  <2>2. Refresh(ts, id) = Restart(ts, i, ts[i].millis)
    BY <1>1 DEF Refresh
  <2> HIDE DEF i
  <2>3. ts[i] \in Timer /\ ts[i].left <= ts[i].millis /\ ts[i] \in Range(ts)
    <3>1. ts \in Seq(Timer) /\ i \in 1..Len(ts)
      BY <2>1, LenProperties DEF TimersOK
    <3> QED BY <2>1, <3>1, ElementOfSeq DEF TimersOK, Range
  <2>4. ts[i].millis \in Millis /\ ts[i].id \in Slots \cup AppTimers
    BY <2>3 DEF Timer
  <2>5. TimersOK(q) /\ Range(q) = {x \in Range(ts) : x.id # ts[i].id} \cup {t}
    BY <2>1, <2>2, <2>3, <2>4, RestartTimer
  <2>6. t.id = ts[i].id /\ t.millis = ts[i].millis
    BY <2>4, NewTimerType
  <2> HIDE DEF q, t
  <2>7. \A y \in Range(ts) : y.id = ts[i].id => y = ts[i]
    BY <2>1 DEF TimersOK, Range
  <2>8. \A x \in Range(q) : \E y \in Range(ts) : x.id = y.id /\ x.millis = y.millis
    BY <2>3, <2>5, <2>6
  <2>9. \A y \in Range(ts) : \E x \in Range(q) : x.id = y.id /\ x.millis = y.millis
    BY <2>5, <2>6, <2>7
  <2> QED BY <2>5, <2>8, <2>9 DEF q
<1>2. CASE ~HasTimer(ts, id)
  BY <1>2 DEF Refresh
<1> QED BY <1>1, <1>2

\* HTTimer_delete.
LEMMA DeleteTimerFacts ==
    ASSUME NEW ts, TimersOK(ts), NEW id
    PROVE  /\ TimersOK(DeleteTimer(ts, id))
           /\ Range(DeleteTimer(ts, id)) = {x \in Range(ts) : x.id # id}
<1> DEFINE K == {i \in DOMAIN ts : ts[i].id # id}
           q == DeleteTimer(ts, id)
           n == Cardinality(K)
<1>1. ts \in Seq(Timer) /\ DOMAIN ts = 1..Len(ts)
  BY LenProperties DEF TimersOK
<1>2. q = Sublist(ts, K)
  BY DEF DeleteTimer
<1>3. K \in SUBSET (DOMAIN ts) /\ \A i \in DOMAIN ts : i \in K <=> ts[i].id # id
  OBVIOUS
<1> HIDE DEF K
<1>4. /\ q \in Seq(Timer) /\ n \in Nat /\ DOMAIN q = 1..n
      /\ \A k \in 1..n : q[k] = ts[Nth(K, k)] /\ Nth(K, k) \in K
      /\ \A k, l \in 1..n : k < l => Nth(K, k) < Nth(K, l)
      /\ \A i \in K : Place(K, i) \in 1..n /\ Nth(K, Place(K, i)) = i
  BY <1>1, <1>2, <1>3, SublistFacts
<1> HIDE DEF n, q
<1>6. \A k \in 1..n : Nth(K, k) \in DOMAIN ts /\ Nth(K, k) \in Nat /\ q[k] = ts[Nth(K, k)]
  BY <1>1, <1>3, <1>4
<1>7. Sorted(q)
  <2> SUFFICES ASSUME NEW k \in 1..n, NEW l \in 1..n, k < l PROVE q[k].left <= q[l].left
    BY <1>4 DEF Sorted
  <2>1. Nth(K, k) < Nth(K, l) /\ Nth(K, k) \in DOMAIN ts /\ Nth(K, l) \in DOMAIN ts
    BY <1>4, <1>6
  <2>2. ts[Nth(K, k)].left <= ts[Nth(K, l)].left
    BY <2>1 DEF Sorted, TimersOK
  <2> QED BY <1>4, <2>2
<1>8. \A k, l \in DOMAIN q : q[k].id = q[l].id => k = l
  <2> SUFFICES ASSUME NEW k \in 1..n, NEW l \in 1..n, q[k].id = q[l].id PROVE k = l
    BY <1>4
  <2>1. Nth(K, k) = Nth(K, l)
    BY <1>4, <1>6 DEF TimersOK
  <2>2. ~(k < l) /\ ~(l < k)
    BY <1>4, <1>6, <2>1
  <2> QED BY <2>2
<1>9. \A k \in DOMAIN q : q[k].left <= q[k].millis
  <2> SUFFICES ASSUME NEW k \in 1..n PROVE q[k].left <= q[k].millis
    BY <1>4
  <2>1. q[k] = ts[Nth(K, k)] /\ Nth(K, k) \in DOMAIN ts
    BY <1>4, <1>6
  <2> QED BY <2>1 DEF TimersOK
<1>10. Range(q) = {x \in Range(ts) : x.id # id}
  <2>1. \A k \in 1..n : q[k] \in Range(ts) /\ q[k].id # id
    BY <1>3, <1>4, <1>6 DEF Range
  <2>2. \A i \in DOMAIN ts : ts[i].id # id => ts[i] \in Range(q)
    <3> SUFFICES ASSUME NEW i \in DOMAIN ts, ts[i].id # id PROVE ts[i] \in Range(q)
      OBVIOUS
    <3>1. i \in K
      BY <1>3
    <3>2. q[Place(K, i)] = ts[i] /\ Place(K, i) \in DOMAIN q
      BY <1>4, <3>1
    <3> QED BY <3>2 DEF Range
  <2>3. DOMAIN q = 1..n
    BY <1>4
  <2> QED BY <2>1, <2>2, <2>3 DEF Range
<1> QED BY <1>4, <1>7, <1>8, <1>9, <1>10 DEF TimersOK, q

\* A millisecond goes by.
LEMMA ElapseFacts ==
    ASSUME NEW ts, TimersOK(ts)
    PROVE  LET q == Elapse(ts)
           IN  /\ TimersOK(q) /\ DOMAIN q = DOMAIN ts
               /\ \A i \in DOMAIN ts : /\ q[i].id = ts[i].id /\ q[i].millis = ts[i].millis
                                       /\ q[i].left = ts[i].left - 1
<1> DEFINE q == Elapse(ts)
           w(i) == ts[i].left - 1
<1>1. ts \in Seq(Timer) /\ DOMAIN ts = 1..Len(ts) /\ Len(ts) \in Nat
  BY LenProperties DEF TimersOK
<1>2. \A i \in DOMAIN ts : ts[i] \in Timer /\ ts[i].left \in Int /\ ts[i].millis \in Nat
  <2> TAKE i \in DOMAIN ts
  <2>1. ts[i] \in Timer
    BY <1>1, ElementOfSeq
  <2> QED BY <2>1 DEF Timer, Millis
<1>3. \A i \in DOMAIN ts : /\ q[i] \in Timer
                           /\ q[i].id = ts[i].id /\ q[i].millis = ts[i].millis /\ q[i].left = w(i)
  <2> TAKE i \in DOMAIN ts
  <2> DEFINE v == w(i)
             t == [ts[i] EXCEPT !.left = v]
  <2>1. q[i] = t
    BY DEF Elapse
  <2>2. v \in Int
    BY <1>2
  <2> HIDE DEF v, q
  <2>3. t \in Timer /\ t.id = ts[i].id /\ t.millis = ts[i].millis /\ t.left = v
    BY <1>2, <2>2 DEF Timer
  <2> QED BY <2>1, <2>3 DEF v
<1>4. DOMAIN q = DOMAIN ts /\ q = [i \in 1..Len(ts) |-> q[i]]
  BY <1>1 DEF Elapse
<1> HIDE DEF q
<1>5. q \in Seq(Timer)
  BY <1>1, <1>3, <1>4
<1>6. Sorted(q)
  BY <1>1, <1>2, <1>3, <1>4 DEF Sorted, TimersOK
<1>7. /\ \A i, j \in DOMAIN q : q[i].id = q[j].id => i = j
      /\ \A i \in DOMAIN q : q[i].left <= q[i].millis
  <2>1. \A i, j \in DOMAIN q : q[i].id = q[j].id => i = j
    BY <1>3, <1>4 DEF TimersOK
  <2>2. ASSUME NEW i \in DOMAIN q PROVE q[i].left <= q[i].millis
    <3>1. /\ q[i].left = w(i) /\ q[i].millis = ts[i].millis
          /\ ts[i].left <= ts[i].millis /\ ts[i].left \in Int /\ ts[i].millis \in Nat
      BY <1>2, <1>3, <1>4 DEF TimersOK
    <3> QED BY <3>1
  <2> QED BY <2>1, <2>2
<1> QED BY <1>3, <1>4, <1>5, <1>6, <1>7 DEF TimersOK, q

(***************************************************************************)
(* The invariant.                                                          *)
(***************************************************************************)
\* An event is registered in its own slot.
RegOK(rg) ==
    /\ rg \in [Slots -> Events \cup {NoEvent}]
    /\ \A s \in Slots : rg[s] # NoEvent => SlotOf[rg[s]] = s

\* The timers of events are those of the registered events that have a timeout,
\* with that timeout as their period.
TimersFit(ts, rg) ==
    /\ \A t \in Range(ts) :
          t.id \in Slots => rg[t.id] # NoEvent /\ t.millis = Timeout[rg[t.id]]
    /\ \A s \in Slots : rg[s] # NoEvent /\ Timeout[rg[s]] > 0
          => \E t \in Range(ts) : t.id = s

\* Of a slot one entry waits at most, for the event that is registered.
OrderOK(o, rg) ==
    /\ \A i \in DOMAIN o : rg[o[i].slot] = o[i].event
    /\ \A i, j \in DOMAIN o : o[i].slot = o[j].slot => i = j

\* The event that was taken from the list to be called is not in it any more.
CalledOnce == cb.kind = "event" => \A i \in DOMAIN order : order[i].slot # cb.slot

ControlInv ==
    /\ pc \in {"out", "turn", "timers", "select", "add", "execute"}
    /\ cb \in Call
    /\ cb # NoCall => pc \in {"timers", "execute"}
    /\ todo \subseteq Slots
    /\ pc = "add" => todo \subseteq Watched
    /\ wait \in Nat \cup {Forever}
    /\ behind \in Nat

OrderInv ==
    /\ order \in Seq(Entry)
    /\ pc # "out" => OrderOK(order, reg) /\ CalledOnce

TimerInv == TimersOK(timers) /\ TimersFit(timers, reg)

IInv == RegOK(reg) /\ ControlInv /\ OrderInv /\ TimerInv /\ OversleepsByCallbacks

(***************************************************************************)
(* Registrations.                                                          *)
(***************************************************************************)
\* What a registration means for the slot, the timers and the ready events.
LEMMA RegisterFacts ==
    ASSUME RegOK(reg), TimerInv, order \in Seq(Entry),
           NEW e \in Events, MayRegister(e), Register(e)
    PROVE  /\ RegOK(reg') /\ TimerInv' /\ order' = order
           /\ OrderOK(order, reg) => OrderOK(order, reg')
<1> DEFINE s == SlotOf[e]
<1>1. /\ s \in Slots /\ Timeout[e] \in Millis \cup {-1} /\ NoEvent \notin Events
      /\ Slots \cap AppTimers = {} /\ reg[s] \in {e, NoEvent}
  BY EventAssumption DEF MayRegister
<1>2. /\ reg' = [reg EXCEPT ![s] = e] /\ order' = order
      /\ timers' = IF Timeout[e] > 0 THEN SetTimer(timers, s, Timeout[e]) ELSE timers
  BY DEF Register
<1> HIDE DEF s
<1>3. /\ reg' \in [Slots -> Events \cup {NoEvent}] /\ reg'[s] = e
      /\ \A q \in Slots : q # s => reg'[q] = reg[q]
  BY <1>1, <1>2 DEF RegOK
<1>4. RegOK(reg')
  BY <1>1, <1>3 DEF RegOK, s
<1>5. OrderOK(order, reg) => OrderOK(order, reg')
  <2> SUFFICES ASSUME OrderOK(order, reg), NEW i \in DOMAIN order
               PROVE  reg'[order[i].slot] = order[i].event
    BY DEF OrderOK
  <2>1. order[i] \in Entry
    BY LenProperties, ElementOfSeq
  <2>2. order[i].slot \in Slots /\ order[i].event \in Events /\ reg[order[i].slot] = order[i].event
    BY <2>1 DEF Entry, OrderOK
  <2>3. CASE order[i].slot = s
    BY <1>1, <1>3, <2>2, <2>3
  <2>4. CASE order[i].slot # s
    BY <1>3, <2>2, <2>4
  <2> QED BY <2>3, <2>4
<1>6. \A x \in Range(timers) : x.id = s => reg[s] = e /\ x.millis = Timeout[e] /\ x.left <= x.millis
  <2> SUFFICES ASSUME NEW i \in DOMAIN timers, timers[i].id = s
               PROVE  /\ reg[s] = e /\ timers[i].millis = Timeout[e]
                      /\ timers[i].left <= timers[i].millis
    BY DEF Range
  <2>1. timers[i] \in Range(timers)
    BY DEF Range
  <2>2. reg[s] # NoEvent /\ timers[i].millis = Timeout[reg[s]]
    BY <1>1, <2>1 DEF TimerInv, TimersFit
  <2> QED BY <1>1, <2>2 DEF TimerInv, TimersOK
<1>7. CASE Timeout[e] > 0
  <2> DEFINE m == Timeout[e]
             q == SetTimer(timers, s, m)
             t == NewTimer(s, m)
  <2>1. m \in Millis
    BY <1>1, <1>7 DEF Millis
  <2>2. TimersOK(q) /\ Range(q) = {x \in Range(timers) : x.id # s} \cup {t}
    <3> HIDE DEF m
    <3>1. \A x \in Range(timers) : x.id = s => x.left <= m
      BY <1>6 DEF m
    <3> QED BY <1>1, <2>1, <3>1, SetTimerFacts DEF TimerInv
  <2>3. t.id = s /\ t.millis = m
    BY <1>1, <2>1, NewTimerType
  <2>4. timers' = q
    BY <1>2, <1>7
  <2> HIDE DEF q, t, m
  <2>5. \A x \in Range(q) : x.id \in Slots => reg'[x.id] # NoEvent /\ x.millis = Timeout[reg'[x.id]]
    <3> SUFFICES ASSUME NEW x \in Range(q), x.id \in Slots
                 PROVE  reg'[x.id] # NoEvent /\ x.millis = Timeout[reg'[x.id]]
      OBVIOUS
    <3>1. CASE x = t
      BY <1>1, <1>3, <2>3, <3>1 DEF m
    <3>2. CASE x \in Range(timers) /\ x.id # s
      BY <1>3, <3>2 DEF TimerInv, TimersFit
    <3> QED BY <2>2, <3>1, <3>2
  <2>6. \A p \in Slots : reg'[p] # NoEvent /\ Timeout[reg'[p]] > 0 => \E x \in Range(q) : x.id = p
    <3> TAKE p \in Slots
    <3>1. CASE p = s
      BY <2>2, <2>3, <3>1
    <3>2. CASE p # s
      BY <1>3, <2>2, <3>2 DEF TimerInv, TimersFit
    <3> QED BY <3>1, <3>2
  <2> QED BY <1>2, <1>4, <1>5, <2>2, <2>4, <2>5, <2>6 DEF TimerInv, TimersFit
<1>8. CASE ~(Timeout[e] > 0)
  <2>1. timers' = timers
    BY <1>2, <1>8
  <2>2. \A x \in Range(timers) : x.id # s
    <3> SUFFICES ASSUME NEW i \in DOMAIN timers, timers[i].id = s PROVE FALSE
      BY DEF Range
    <3>1. timers[i] \in Range(timers) /\ timers[i] \in Timer
      <4>1. timers \in Seq(Timer)
        BY DEF TimerInv, TimersOK
      <4> QED BY <4>1, LenProperties, ElementOfSeq DEF Range
    <3>2. timers[i].millis = Timeout[e] /\ timers[i].millis \in Millis
      BY <1>6, <3>1 DEF Timer
    <3> QED BY <1>8, <3>2 DEF Millis
  <2>3. TimersFit(timers, reg')
    BY <1>1, <1>3, <1>8, <2>2 DEF TimerInv, TimersFit
  <2> QED BY <1>2, <1>4, <1>5, <2>1, <2>3 DEF TimerInv
<1> QED BY <1>7, <1>8

\* A slot is given up with its timer, the entries of others stay.
LEMMA UnregisterFacts ==
    ASSUME RegOK(reg), TimerInv, order \in Seq(Entry), NEW s \in Slots,
           reg' = [reg EXCEPT ![s] = NoEvent], timers' = DeleteTimer(timers, s),
           \/ order' = Clean(s)
           \/ order' = order /\ \A i \in DOMAIN order : order[i].slot # s
    PROVE  /\ RegOK(reg') /\ TimerInv' /\ order' \in Seq(Entry)
           /\ OrderOK(order, reg) => OrderOK(order', reg')
           /\ \A i \in DOMAIN order' : \E j \in DOMAIN order : order'[i].slot = order[j].slot
<1>1. /\ reg' \in [Slots -> Events \cup {NoEvent}] /\ reg'[s] = NoEvent
      /\ \A q \in Slots : q # s => reg'[q] = reg[q]
  BY DEF RegOK
<1>2. RegOK(reg')
  BY <1>1 DEF RegOK
<1>3. TimerInv'
  <2>1. TimersOK(timers') /\ Range(timers') = {x \in Range(timers) : x.id # s}
    BY DeleteTimerFacts DEF TimerInv
  <2>2. TimersFit(timers', reg')
    BY <1>1, <2>1 DEF TimerInv, TimersFit
  <2> QED BY <2>1, <2>2 DEF TimerInv
<1>4. \A i \in DOMAIN order : order[i].slot \in Slots
  <2> TAKE i \in DOMAIN order
  <2>1. order[i] \in Entry
    BY LenProperties, ElementOfSeq
  <2> QED BY <2>1 DEF Entry
<1>5. CASE order' = order /\ \A i \in DOMAIN order : order[i].slot # s
  BY <1>1, <1>2, <1>3, <1>4, <1>5 DEF OrderOK
<1>6. CASE order' = Clean(s)
  <2> DEFINE K == {i \in DOMAIN order : order[i].slot # s}
             n == Cardinality(K)
             o == Sublist(order, K)
  <2>1. order' = o
    BY <1>6 DEF Clean
  <2>2. K \in SUBSET (DOMAIN order) /\ \A i \in K : order[i].slot # s
    OBVIOUS
  <2> HIDE DEF K
  <2>3. /\ o \in Seq(Entry) /\ n \in Nat /\ DOMAIN o = 1..n
        /\ \A k \in 1..n : o[k] = order[Nth(K, k)] /\ Nth(K, k) \in K
        /\ \A k, l \in 1..n : k < l => Nth(K, k) < Nth(K, l)
    <3> HIDE DEF n, o
    <3>1. /\ Sublist(order, K) \in Seq(Entry) /\ Cardinality(K) \in Nat
          /\ DOMAIN Sublist(order, K) = 1..Cardinality(K)
          /\ \A k \in 1..Cardinality(K) : Sublist(order, K)[k] = order[Nth(K, k)] /\ Nth(K, k) \in K
          /\ \A k, l \in 1..Cardinality(K) : k < l => Nth(K, k) < Nth(K, l)
      BY <2>2, SublistFacts
    <3> QED BY <3>1 DEF n, o
  <2> HIDE DEF o, n
  <2>4. \A k \in 1..n : /\ Nth(K, k) \in DOMAIN order /\ Nth(K, k) \in Nat
                        /\ o[k] = order[Nth(K, k)] /\ o[k].slot # s
    <3>1. DOMAIN order = 1..Len(order)
      BY LenProperties
    <3> QED BY <2>2, <2>3, <3>1
  <2>5. ASSUME OrderOK(order, reg) PROVE OrderOK(o, reg')
    <3>1. \A k \in DOMAIN o : reg'[o[k].slot] = o[k].event
      BY <1>1, <1>4, <2>3, <2>4, <2>5 DEF OrderOK
    <3>2. \A k, l \in DOMAIN o : o[k].slot = o[l].slot => k = l
      <4> SUFFICES ASSUME NEW k \in 1..n, NEW l \in 1..n, o[k].slot = o[l].slot PROVE k = l
        BY <2>3
      <4>1. Nth(K, k) = Nth(K, l)
        BY <2>4, <2>5 DEF OrderOK
      <4>2. ~(k < l) /\ ~(l < k)
        BY <2>3, <2>4, <4>1
      <4> QED BY <4>2
    <3> QED BY <3>1, <3>2 DEF OrderOK
  <2>6. \A i \in DOMAIN o : \E j \in DOMAIN order : o[i].slot = order[j].slot
    BY <2>3, <2>4
  <2> QED BY <1>2, <1>3, <2>1, <2>3, <2>5, <2>6
<1> QED BY <1>5, <1>6

(***************************************************************************)
(* The steps.                                                              *)
(***************************************************************************)
LEMMA InitInv ==
    ASSUME Init
    PROVE  IInv
<1>1. /\ reg = [s \in Slots |-> NoEvent] /\ timers = <<>> /\ order = <<>> /\ todo = {}
      /\ pc = "out" /\ wait = Forever /\ cb = NoCall /\ behind = 0
  BY DEF Init
<1>2. DOMAIN timers = {} /\ Range(timers) = {} /\ timers \in Seq(Timer) /\ order \in Seq(Entry)
  BY <1>1 DEF Range
<1>3. RegOK(reg)
  BY <1>1 DEF RegOK
<1>4. TimerInv
  BY <1>1, <1>2 DEF TimerInv, TimersOK, TimersFit, Sorted
<1>5. ControlInv /\ OrderInv /\ OversleepsByCallbacks
  BY <1>1, <1>2 DEF ControlInv, OrderInv, OversleepsByCallbacks, Call
<1> QED BY <1>3, <1>4, <1>5 DEF IInv

\* The loop goes from one place to the next.
LEMMA LoopInv ==
    ASSUME IInv, StartLoop \/ NextTurn \/ Stopped \/ SelectReady \/ SelectTimeout
                     \/ SelectInterrupted \/ AddDone \/ ExecuteDone
    PROVE  IInv'
<1>1. UNCHANGED <<reg, timers>> /\ cb' = NoCall /\ cb = NoCall
  BY DEF StartLoop, NextTurn, Stopped, SelectReady, SelectTimeout, SelectInterrupted,
         AddDone, ExecuteDone, InLoop
<1>2. RegOK(reg') /\ TimerInv'
  BY <1>1 DEF IInv, TimerInv
<1>3. /\ pc' \in {"out", "turn", "timers", "add", "execute"}
      /\ order' = order \/ order' = <<>>
      /\ pc' # "out" => pc # "out" \/ order' = <<>>
      /\ todo' \in {todo, {}} \/ todo' = ready \cap Watched
      /\ pc' = "add" => todo' = ready \cap Watched
      /\ wait' \in {wait, Forever}
      /\ behind' \in {behind, 0}
  BY DEF StartLoop, NextTurn, Stopped, SelectReady, SelectTimeout, SelectInterrupted,
         AddDone, ExecuteDone, InLoop, LeaveLoop
<1>4. OversleepsByCallbacks'
  BY <1>3 DEF OversleepsByCallbacks
<1>5. ControlInv'
  <2>1. Watched \subseteq Slots /\ Watched' = Watched
    BY <1>1 DEF Watched
  <2> QED BY <1>1, <1>3, <2>1 DEF IInv, ControlInv, Call
<1>6. OrderInv'
  <2>1. DOMAIN <<>> = {} /\ <<>> \in Seq(Entry)
    OBVIOUS
  <2>2. cb'.kind # "event"
    BY <1>1 DEF NoCall
  <2> QED BY <1>1, <1>3, <2>1, <2>2 DEF IInv, OrderInv, OrderOK, CalledOnce
<1> QED BY <1>2, <1>4, <1>5, <1>6 DEF IInv

LEMMA TimersDoneInv ==
    ASSUME IInv, TimersDone
    PROVE  IInv'
<1>1. /\ pc' = "select" /\ pc = "timers" /\ cb = NoCall
      /\ UNCHANGED <<reg, timers, order, todo, cb, behind>>
      /\ wait' = IF Soonest = 0 THEN Forever ELSE Soonest
      /\ Expired(timers, behind) = {}
  BY DEF TimersDone, InLoop
<1>2. /\ timers \in Seq(Timer) /\ DOMAIN timers = 1..Len(timers) /\ Len(timers) \in Nat
      /\ timers # <<>> => Len(timers) # 0
      /\ behind \in Nat
  BY LenProperties, EmptySeq DEF IInv, TimerInv, TimersOK, ControlInv
<1>3. \A i \in DOMAIN timers : timers[i].left \in Int /\ timers[i].left + behind > 0
  <2> TAKE i \in DOMAIN timers
  <2>1. timers[i] \in Timer
    BY <1>2, ElementOfSeq
  <2>2. ~(timers[i].left + behind <= 0)
    BY <1>1 DEF Expired
  <2> QED BY <1>2, <2>1, <2>2 DEF Timer
<1>4. CASE timers = <<>>
  <2>1. wait' = Forever /\ DOMAIN timers = {}
    BY <1>1, <1>4 DEF Soonest
  <2> QED BY <1>1, <2>1 DEF IInv, ControlInv, Watched, OrderInv, CalledOnce, TimerInv,
             OversleepsByCallbacks
<1>5. CASE timers # <<>>
  <2>1. 1 \in DOMAIN timers
    BY <1>2, <1>5
  <2>2. wait' = timers[1].left + behind /\ wait' \in Nat
    BY <1>1, <1>2, <1>3, <1>5, <2>1 DEF Soonest
  <2>3. \A i \in DOMAIN timers : wait' # Forever /\ wait' <= timers[i].left + behind
    <3> TAKE i \in DOMAIN timers
    <3>1. timers[1].left <= timers[i].left
      <4>1. 1 < i \/ 1 = i
        BY <1>2
      <4> QED BY <1>3, <2>1, <4>1 DEF IInv, TimerInv, TimersOK, Sorted
    <3> QED BY <1>2, <1>3, <2>1, <2>2, <3>1 DEF Forever
  <2>4. OversleepsByCallbacks'
    BY <1>1, <2>3 DEF OversleepsByCallbacks
  <2>5. ControlInv'
    BY <1>1, <2>2 DEF IInv, ControlInv, Watched
  <2> QED BY <1>1, <2>4, <2>5 DEF IInv, OrderInv, CalledOnce, TimerInv
<1> QED BY <1>4, <1>5

\* Time goes by: every timer has one millisecond less, and the list stays as it is.
LEMMA TimePasses ==
    ASSUME TimerInv, timers' = Elapse(timers), reg' = reg
    PROVE  /\ TimerInv' /\ DOMAIN timers' = DOMAIN timers
           /\ \A i \in DOMAIN timers :
                 timers[i].left \in Int /\ timers'[i].left = timers[i].left - 1
<1>1. /\ TimersOK(timers') /\ DOMAIN timers' = DOMAIN timers
      /\ \A i \in DOMAIN timers :
            /\ timers'[i].id = timers[i].id /\ timers'[i].millis = timers[i].millis
            /\ timers'[i].left = timers[i].left - 1
  BY ElapseFacts DEF TimerInv
<1>2. TimersFit(timers', reg')
  <2>1. \A x \in Range(timers') : \E y \in Range(timers) : x.id = y.id /\ x.millis = y.millis
    BY <1>1 DEF Range
  <2>2. \A y \in Range(timers) : \E x \in Range(timers') : x.id = y.id
    BY <1>1 DEF Range
  <2> QED BY <2>1, <2>2 DEF TimerInv, TimersFit
<1>3. \A i \in DOMAIN timers : timers[i].left \in Int
  <2> TAKE i \in DOMAIN timers
  <2>1. timers \in Seq(Timer)
    BY DEF TimerInv, TimersOK
  <2>2. timers[i] \in Timer
    BY <2>1, LenProperties, ElementOfSeq
  <2> QED BY <2>2 DEF Timer
<1> QED BY <1>1, <1>2, <1>3 DEF TimerInv

LEMMA SelectWaitsInv ==
    ASSUME IInv, SelectWaits
    PROVE  IInv'
<1>1. /\ pc = "select" /\ pc' = "select" /\ cb = NoCall
      /\ UNCHANGED <<reg, order, todo, cb, behind>>
      /\ wait > 0 /\ wait' = wait - 1 /\ timers' = Elapse(timers)
  BY DEF SelectWaits, InLoop
<1>2. wait \in Nat /\ wait' \in Nat /\ wait' # Forever /\ behind \in Nat
  BY <1>1 DEF IInv, ControlInv, Forever
<1>3. /\ TimerInv' /\ DOMAIN timers' = DOMAIN timers
      /\ \A i \in DOMAIN timers :
            timers[i].left \in Int /\ timers'[i].left = timers[i].left - 1
  BY <1>1, TimePasses DEF IInv
<1>4. OversleepsByCallbacks'
  <2> SUFFICES ASSUME NEW i \in DOMAIN timers
               PROVE  wait' # Forever /\ wait' <= timers'[i].left + behind
    BY <1>1, <1>3 DEF OversleepsByCallbacks
  <2>1. wait <= timers[i].left + behind
    BY <1>1 DEF IInv, OversleepsByCallbacks
  <2> QED BY <1>1, <1>2, <1>3, <2>1
<1>5. ControlInv' /\ OrderInv' /\ RegOK(reg')
  BY <1>1, <1>2 DEF IInv, ControlInv, Watched, OrderInv, CalledOnce
<1> QED BY <1>3, <1>4, <1>5 DEF IInv

LEMMA DispatchTimerInv ==
    ASSUME IInv, DispatchTimer
    PROVE  IInv'
<1> DEFINE i == Min(Expired(timers, behind))
           t == timers[i]
<1>1. /\ pc = "timers" /\ cb = NoCall /\ Expired(timers, behind) # {}
      /\ UNCHANGED <<reg, order, todo, pc, wait, behind>>
      /\ IF t.id \in Slots
         THEN /\ timers' = Restart(timers, i, t.millis)
              /\ cb' = [kind |-> "timeout", slot |-> t.id, event |-> reg[t.id], calls |-> 0]
         ELSE /\ timers' = RemoveAt(timers, i)
              /\ cb' = [kind |-> "timer", timer |-> t.id, calls |-> 0]
  BY DEF DispatchTimer, InLoop
<1>2. /\ timers \in Seq(Timer) /\ DOMAIN timers = 1..Len(timers)
      /\ TimersOK(timers) /\ TimersFit(timers, reg) /\ RegOK(reg)
  BY LenProperties DEF IInv, TimerInv, TimersOK
<1>3. i \in DOMAIN timers
  <2>1. Expired(timers, behind) \in SUBSET Nat /\ Expired(timers, behind) \subseteq DOMAIN timers
    BY <1>2 DEF Expired
  <2> QED BY <1>1, <2>1, MinFacts
<1> HIDE DEF i
<1>4. /\ t \in Timer /\ t \in Range(timers) /\ t.id \in Slots \cup AppTimers
      /\ t.left <= t.millis /\ t.millis \in Millis
  <2>1. t \in Timer
    BY <1>2, <1>3, ElementOfSeq
  <2> QED BY <1>2, <1>3, <2>1 DEF Range, TimersOK, Timer
<1>5. CASE t.id \in Slots
  <2> DEFINE n == NewTimer(t.id, t.millis)
  <2>1. /\ TimersOK(timers')
        /\ Range(timers') = {x \in Range(timers) : x.id # t.id} \cup {n}
    BY <1>1, <1>2, <1>3, <1>4, <1>5, RestartTimer
  <2>2. n.id = t.id /\ n.millis = t.millis
    BY <1>4, NewTimerType
  <2> HIDE DEF n
  <2>3. reg[t.id] \in Events /\ t.millis = Timeout[reg[t.id]]
    BY <1>2, <1>4, <1>5 DEF TimersFit, RegOK
  <2>4. TimersFit(timers', reg)
    <3>1. \A x \in Range(timers') :
             x.id \in Slots => reg[x.id] # NoEvent /\ x.millis = Timeout[reg[x.id]]
      BY <1>2, <1>4, <2>1, <2>2 DEF TimersFit
    <3>2. \A s \in Slots : (\E x \in Range(timers) : x.id = s) => \E x \in Range(timers') : x.id = s
      BY <2>1, <2>2
    <3> QED BY <1>2, <3>1, <3>2 DEF TimersFit
  <2>5. cb' \in Call /\ cb'.kind = "timeout"
    <3>1. cb' = [kind |-> "timeout", slot |-> t.id, event |-> reg[t.id], calls |-> 0]
      BY <1>1, <1>5
    <3> HIDE DEF t
    <3> QED BY <1>5, <2>3, <3>1 DEF Call
  <2>6. ControlInv'
    BY <1>1, <2>5 DEF IInv, ControlInv, Watched
  <2>7. OrderInv' /\ OversleepsByCallbacks'
    BY <1>1, <2>5 DEF IInv, OrderInv, CalledOnce, OversleepsByCallbacks
  <2> QED BY <1>1, <1>2, <2>1, <2>4, <2>6, <2>7 DEF IInv, TimerInv
<1>6. CASE t.id \notin Slots
  <2>1. TimersOK(timers') /\ Range(timers') = {x \in Range(timers) : x.id # t.id}
    BY <1>1, <1>2, <1>3, <1>6, RemoveTimer
  <2>2. TimersFit(timers', reg)
    BY <1>2, <1>6, <2>1 DEF TimersFit
  <2>3. cb' \in Call /\ cb'.kind = "timer"
    <3>1. cb' = [kind |-> "timer", timer |-> t.id, calls |-> 0]
      BY <1>1, <1>6
    <3>2. t.id \in AppTimers
      BY <1>4, <1>6
    <3> HIDE DEF t
    <3> QED BY <3>1, <3>2 DEF Call
  <2>4. ControlInv'
    BY <1>1, <2>3 DEF IInv, ControlInv, Watched
  <2>5. OrderInv' /\ OversleepsByCallbacks'
    BY <1>1, <2>3 DEF IInv, OrderInv, CalledOnce, OversleepsByCallbacks
  <2> QED BY <1>1, <1>2, <2>1, <2>2, <2>4, <2>5 DEF IInv, TimerInv
<1> QED BY <1>5, <1>6

\* An event that is ready and in the list is passed over, another one gets in.
LEMMA AddReadyInv ==
    ASSUME IInv, AddReady
    PROVE  IInv'
<1>1. /\ pc = "add" /\ cb = NoCall /\ UNCHANGED <<reg, pc, wait, cb, behind>>
      /\ \E s \in todo :
           /\ todo' = todo \ {s}
           /\ timers' = Refresh(timers, s)
           /\ order' = IF InOrder(s) # {} THEN PassedOver(Min(InOrder(s)))
                                          ELSE AddBehind(reg[s])
  BY DEF AddReady, InLoop
<1>2. PICK s \in todo :
           /\ todo' = todo \ {s}
           /\ timers' = Refresh(timers, s)
           /\ order' = IF InOrder(s) # {} THEN PassedOver(Min(InOrder(s)))
                                          ELSE AddBehind(reg[s])
  BY <1>1
<1>3. s \in Slots /\ reg[s] \in Events /\ SlotOf[reg[s]] = s
  <2>1. s \in Watched
    BY <1>1 DEF IInv, ControlInv
  <2> QED BY <2>1 DEF Watched, IInv, RegOK
<1>4. TimerInv'
  <2>1. /\ TimersOK(timers')
        /\ \A x \in Range(timers') : \E y \in Range(timers) : x.id = y.id /\ x.millis = y.millis
        /\ \A y \in Range(timers) : \E x \in Range(timers') : x.id = y.id /\ x.millis = y.millis
    BY <1>2, RefreshFacts DEF IInv, TimerInv
  <2> QED BY <1>1, <2>1 DEF IInv, TimerInv, TimersFit
<1>5. order \in Seq(Entry) /\ OrderOK(order, reg) /\ DOMAIN order = 1..Len(order) /\ Len(order) \in Nat
  BY <1>1, LenProperties DEF IInv, OrderInv
<1>6. order' \in Seq(Entry) /\ OrderOK(order', reg)
  <2>1. CASE InOrder(s) # {}
    <3> DEFINE i == Min(InOrder(s))
               n == order[i].skipped + 1
    <3>1. InOrder(s) \in SUBSET Nat /\ InOrder(s) \subseteq DOMAIN order
      BY <1>5 DEF InOrder
    <3>2. i \in DOMAIN order
      BY <2>1, <3>1, MinFacts
    <3>3. order' = [order EXCEPT ![i].skipped = @ + 1]
      BY <1>2, <2>1 DEF PassedOver
    <3> HIDE DEF i
    <3>4. order[i] \in Entry
      BY <1>5, <3>2, ElementOfSeq
    <3>5. n \in Nat
      BY <3>4 DEF Entry
    <3> DEFINE e == [order[i] EXCEPT !.skipped = n]
    <3>6. order' = [order EXCEPT ![i] = e]
      BY <3>2, <3>3
    <3> HIDE DEF n
    <3>7. e \in Entry /\ e.slot = order[i].slot /\ e.event = order[i].event
      BY <3>4, <3>5 DEF Entry
    <3> HIDE DEF e
    <3>8. /\ order' \in Seq(Entry) /\ DOMAIN order' = DOMAIN order
          /\ \A j \in DOMAIN order : order'[j] = IF j = i THEN e ELSE order[j]
      BY <1>5, <3>2, <3>6, <3>7, ExceptSeq
    <3>9. \A j \in DOMAIN order : order'[j].slot = order[j].slot /\ order'[j].event = order[j].event
      BY <3>7, <3>8
    <3> QED BY <1>5, <3>8, <3>9 DEF OrderOK
  <2>2. CASE InOrder(s) = {}
    <3> DEFINE e == [slot |-> s, event |-> reg[s], skipped |-> 0]
               M == MoreUrgent(reg[s])
               k == IF M = {} THEN 1 ELSE Max(M) + 1
               n == Len(order)
    <3>1. order' = InsertAt(order, k, e)
      BY <1>2, <1>3, <2>2 DEF AddBehind
    <3>2. e \in Entry /\ e.slot = s /\ e.event = reg[s]
      BY <1>3 DEF Entry
    <3>3. k \in 1..Len(order) + 1
      <4>1. M \in SUBSET (1..Len(order))
        BY <1>5 DEF MoreUrgent
      <4> HIDE DEF M
      <4>2. CASE M = {}
        BY <1>5, <4>2
      <4>3. CASE M # {}
        <5>1. Max(M) \in 1..Len(order)
          BY <1>5, <4>1, <4>3, MaxFacts
        <5> QED BY <1>5, <4>3, <5>1
      <4> QED BY <4>2, <4>3
    <3> HIDE DEF e, k
    <3>4. /\ order' \in Seq(Entry) /\ DOMAIN order' = 1..n + 1 /\ n \in Nat
          /\ \A j \in 1..n + 1 : order'[j] =
                IF j < k THEN order[j] ELSE IF j = k THEN e ELSE order[j - 1]
      <4>1. order \in Seq(Entry)
        BY <1>5
      <4> HIDE DEF n
      <4>2. /\ InsertAt(order, k, e) \in Seq(Entry)
            /\ DOMAIN InsertAt(order, k, e) = 1..Len(order) + 1 /\ Len(order) \in Nat
            /\ \A j \in 1..Len(order) + 1 : InsertAt(order, k, e)[j] =
                  IF j < k THEN order[j] ELSE IF j = k THEN e ELSE order[j - 1]
        BY <4>1, <3>2, <3>3, InsertAtFacts
      <4> QED BY <3>1, <4>2 DEF n
    <3> HIDE DEF n
    <3>5. \A j \in 1..n + 1 :
             \/ j < k /\ j \in 1..n /\ order'[j] = order[j]
             \/ j = k /\ order'[j] = e
             \/ j > k /\ j - 1 \in 1..n /\ order'[j] = order[j - 1]
      BY <3>3, <3>4 DEF n
    <3>6. \A j \in 1..n : order[j].slot # s
      <4> SUFFICES ASSUME NEW j \in 1..n, order[j].slot = s PROVE FALSE
        OBVIOUS
      <4>1. j \in InOrder(s)
        BY <1>5 DEF InOrder, OrderOK, n
      <4> QED BY <2>2, <4>1
    <3>7. /\ \A j \in 1..n : reg[order[j].slot] = order[j].event
          /\ \A j, l \in 1..n : order[j].slot = order[l].slot => j = l
      BY <1>5 DEF OrderOK, n
    <3>8. \A j \in 1..n + 1 : reg[order'[j].slot] = order'[j].event
      BY <3>2, <3>5, <3>7
    <3>9. ASSUME NEW j \in 1..n + 1, NEW l \in 1..n + 1, order'[j].slot = order'[l].slot
          PROVE  j = l
      <4>0. k \in Nat /\ n \in Nat
        BY <3>3, <3>4
      <4>1. CASE j = k \/ l = k
        BY <3>2, <3>5, <3>6, <3>9, <4>1
      <4>2. CASE j < k /\ l < k
        BY <4>0, <3>5, <3>7, <3>9, <4>2
      <4>3. CASE j > k /\ l > k
        <5>1. order'[j] = order[j - 1] /\ order'[l] = order[l - 1] /\ j - 1 \in 1..n /\ l - 1 \in 1..n
          BY <4>0, <3>5, <4>3
        <5>2. j - 1 = l - 1
          BY <3>7, <3>9, <5>1
        <5> QED BY <4>0, <5>2
      <4>4. CASE j < k /\ l > k
        <5>1. order'[j] = order[j] /\ order'[l] = order[l - 1] /\ j \in 1..n /\ l - 1 \in 1..n
          BY <4>0, <3>5, <4>4
        <5>2. j = l - 1
          BY <3>7, <3>9, <5>1
        <5> QED BY <4>0, <4>4, <5>2
      <4>5. CASE j > k /\ l < k
        <5>1. order'[j] = order[j - 1] /\ order'[l] = order[l] /\ j - 1 \in 1..n /\ l \in 1..n
          BY <4>0, <3>5, <4>5
        <5>2. l = j - 1
          BY <3>7, <3>9, <5>1
        <5> QED BY <4>0, <4>5, <5>2
      <4> QED BY <4>0, <4>1, <4>2, <4>3, <4>4, <4>5
    <3> QED BY <3>4, <3>8, <3>9 DEF OrderOK
  <2> QED BY <2>1, <2>2
<1>7. OrderInv'
  <2>1. cb'.kind # "event"
    BY <1>1 DEF NoCall
  <2> QED BY <1>1, <1>6, <2>1 DEF OrderInv, CalledOnce
<1>8. ControlInv' /\ OversleepsByCallbacks' /\ RegOK(reg')
  <2>1. Watched' = Watched /\ todo' \subseteq todo
    BY <1>1, <1>2 DEF Watched
  <2> QED BY <1>1, <2>1 DEF IInv, ControlInv, OversleepsByCallbacks
<1> QED BY <1>4, <1>7, <1>8 DEF IInv

\* Without its first entry the list says no more than before.
LEMMA TailFacts ==
    ASSUME order \in Seq(Entry), order # <<>>, OrderOK(order, reg)
    PROVE  /\ Tail(order) \in Seq(Entry) /\ OrderOK(Tail(order), reg)
           /\ Head(order) \in Entry /\ Head(order) = order[1] /\ reg[order[1].slot] = order[1].event
           /\ \A i \in DOMAIN Tail(order) :
                 /\ Tail(order)[i].slot # Head(order).slot
                 /\ i + 1 \in DOMAIN order /\ Tail(order)[i] = order[i + 1]
<1> DEFINE q == Tail(order)
           n == Len(order)
<1>1. /\ q \in Seq(Entry) /\ Len(q) = n - 1 /\ \A i \in 1..n - 1 : q[i] = order[i + 1]
      /\ n \in Nat /\ n # 0 /\ DOMAIN order = 1..n
      /\ Head(order) \in Entry /\ Head(order) = order[1]
  BY HeadTailProperties, EmptySeq, LenProperties
<1>2. DOMAIN q = 1..n - 1
  BY <1>1, LenProperties
<1> HIDE DEF q, n
<1>3. 1 \in DOMAIN order /\ \A i \in 1..n - 1 : i + 1 \in DOMAIN order /\ i + 1 # 1
  BY <1>1
<1>4. \A i \in 1..n - 1 : q[i].slot # order[1].slot
  BY <1>1, <1>3 DEF OrderOK
<1>5. OrderOK(q, reg)
  <2>1. \A i \in DOMAIN q : reg[q[i].slot] = q[i].event
    BY <1>1, <1>2, <1>3 DEF OrderOK
  <2>2. \A i, j \in DOMAIN q : q[i].slot = q[j].slot => i = j
    <3> SUFFICES ASSUME NEW i \in 1..n - 1, NEW j \in 1..n - 1, q[i].slot = q[j].slot
                 PROVE  i = j
      BY <1>2
    <3>1. /\ i + 1 \in DOMAIN order /\ j + 1 \in DOMAIN order
          /\ order[i + 1].slot = order[j + 1].slot
      BY <1>1, <1>3
    <3>2. i + 1 = j + 1
      BY <3>1 DEF OrderOK
    <3>3. i \in Int /\ j \in Int
      BY <1>1
    <3> QED BY <3>2, <3>3
  <2> QED BY <2>1, <2>2 DEF OrderOK
<1>6. reg[order[1].slot] = order[1].event
  BY <1>3 DEF OrderOK
<1> QED BY <1>1, <1>2, <1>3, <1>4, <1>5, <1>6 DEF q

LEMMA ExecuteInv ==
    ASSUME IInv, Execute \/ ExecuteEnough
    PROVE  IInv'
<1>1. /\ pc = "execute" /\ cb = NoCall /\ order # <<>> /\ order' = Tail(order)
      /\ UNCHANGED <<reg, timers, todo, wait, behind>>
  BY DEF Execute, ExecuteEnough, InLoop
<1>2. order \in Seq(Entry) /\ OrderOK(order, reg)
  BY <1>1 DEF IInv, OrderInv
<1>3. /\ order' \in Seq(Entry) /\ OrderOK(order', reg)
      /\ Head(order) \in Entry
      /\ \A i \in DOMAIN order' : order'[i].slot # Head(order).slot
  BY <1>1, <1>2, TailFacts
<1>4. RegOK(reg') /\ TimerInv'
  BY <1>1 DEF IInv, TimerInv
<1>5. CASE Execute
  <2>1. pc' = pc /\ cb' = [kind |-> "event", slot |-> Head(order).slot,
                           event |-> Head(order).event, calls |-> 0]
    BY <1>5 DEF Execute
  <2>2. cb' \in Call /\ cb'.slot = Head(order).slot
    BY <1>3, <2>1 DEF Call, Entry
  <2>3. ControlInv' /\ OversleepsByCallbacks'
    BY <1>1, <2>1, <2>2 DEF IInv, ControlInv, OversleepsByCallbacks, Watched
  <2>4. OrderInv'
    BY <1>1, <1>3, <2>2 DEF OrderInv, CalledOnce
  <2> QED BY <1>4, <2>3, <2>4 DEF IInv
<1>6. CASE ExecuteEnough
  <2>1. pc' = "turn" /\ cb' = NoCall
    BY <1>1, <1>6 DEF ExecuteEnough
  <2>2. ControlInv' /\ OversleepsByCallbacks'
    BY <1>1, <2>1 DEF IInv, ControlInv, OversleepsByCallbacks, Call
  <2>3. OrderInv'
    <3>1. cb'.kind # "event"
      BY <2>1 DEF NoCall
    <3> QED BY <1>1, <1>3, <3>1 DEF OrderInv, CalledOnce
  <2> QED BY <1>4, <2>2, <2>3 DEF IInv
<1> QED BY <1>5, <1>6

LEMMA RegisterBeforeInv ==
    ASSUME IInv, RegisterBefore
    PROVE  IInv'
<1>1. pc = "out" /\ cb = NoCall /\ UNCHANGED <<todo, pc, wait, cb, behind>>
  BY DEF RegisterBefore, InLoop
<1>2. PICK e \in Events : MayRegister(e) /\ Register(e)
  BY DEF RegisterBefore
<1>3. RegOK(reg') /\ TimerInv' /\ order' = order
  BY <1>2, RegisterFacts DEF IInv, OrderInv
<1>4. OrderInv' /\ ControlInv' /\ OversleepsByCallbacks'
  BY <1>1, <1>3 DEF IInv, OrderInv, ControlInv, OversleepsByCallbacks
<1> QED BY <1>3, <1>4 DEF IInv

\* A callback does something: it is still the same callback, and the loop waits
\* where it called it.
LEMMA CalledFacts ==
    ASSUME IInv, CanCall, Called, UNCHANGED <<todo, pc, wait>>, behind' \in Nat
    PROVE  /\ ControlInv' /\ OversleepsByCallbacks' /\ pc # "out"
           /\ cb'.kind = cb.kind
           /\ cb.kind = "event" => cb.slot \in Slots /\ cb'.slot = cb.slot
<1>1. /\ cb \in Call /\ cb # NoCall /\ cb' = [cb EXCEPT !.calls = @ + 1]
      /\ pc \in {"timers", "execute"}
  BY DEF IInv, ControlInv, CanCall, Called
<1>2. /\ cb' \in Call /\ cb'.kind = cb.kind
      /\ cb.kind = "event" => cb.slot \in Slots /\ cb'.slot = cb.slot
  <2>1. CASE cb \in [kind : {"event", "timeout"}, slot : Slots, event : Events, calls : Nat]
    BY <1>1, <2>1 DEF Call
  <2>2. CASE cb \in [kind : {"timer"}, timer : AppTimers, calls : Nat]
    BY <1>1, <2>2 DEF Call
  <2> QED BY <1>1, <2>1, <2>2 DEF Call
<1> QED BY <1>1, <1>2 DEF IInv, ControlInv, OversleepsByCallbacks

LEMMA CbRegisterInv ==
    ASSUME IInv, CbRegister
    PROVE  IInv'
<1>1. PICK e \in Events : MayRegister(e) /\ Register(e)
  BY DEF CbRegister
<1>2. RegOK(reg') /\ TimerInv' /\ order' = order /\ (OrderOK(order, reg) => OrderOK(order, reg'))
  BY <1>1, RegisterFacts DEF IInv, OrderInv
<1>3. UNCHANGED pc /\ CanCall /\ Called /\ UNCHANGED <<todo, pc, wait, behind>>
  BY DEF CbRegister
<1>4. /\ ControlInv' /\ OversleepsByCallbacks' /\ cb'.kind = cb.kind
      /\ cb.kind = "event" => cb'.slot = cb.slot
  BY <1>3, CalledFacts DEF IInv, ControlInv
<1>5. OrderInv'
  BY <1>2, <1>3, <1>4 DEF IInv, OrderInv, CalledOnce
<1> QED BY <1>2, <1>4, <1>5 DEF IInv

\* The CONNECT event is given up by its own handler: it is not in the list.
LEMMA CbUnregisterInv ==
    ASSUME IInv, CbUnregister \/ CbUnregisterConnect
    PROVE  IInv'
<1>1. CanCall /\ Called /\ UNCHANGED <<todo, pc, wait, behind>>
  BY DEF CbUnregister, CbUnregisterConnect
<1>2. /\ ControlInv' /\ OversleepsByCallbacks' /\ pc # "out" /\ cb'.kind = cb.kind
      /\ cb.kind = "event" => cb.slot \in Slots /\ cb'.slot = cb.slot
  BY <1>1, CalledFacts DEF IInv, ControlInv
<1>3. order \in Seq(Entry) /\ OrderOK(order, reg) /\ CalledOnce
  BY <1>2 DEF IInv, OrderInv
<1>4. \E s \in Slots :
         /\ reg' = [reg EXCEPT ![s] = NoEvent] /\ timers' = DeleteTimer(timers, s)
         /\ \/ order' = Clean(s)
            \/ order' = order /\ \A i \in DOMAIN order : order[i].slot # s
  <2>1. CASE CbUnregister
    BY <2>1 DEF CbUnregister, Unregister, Watched
  <2>2. CASE CbUnregisterConnect
    <3>1. cb.slot \in Slots /\ \A i \in DOMAIN order : order[i].slot # cb.slot
      BY <1>2, <1>3, <2>2 DEF CbUnregisterConnect, CalledOnce
    <3> QED BY <2>2, <3>1 DEF CbUnregisterConnect, UnregisterConnect
  <2> QED BY <2>1, <2>2
<1>5. /\ RegOK(reg') /\ TimerInv' /\ order' \in Seq(Entry) /\ OrderOK(order', reg')
      /\ \A i \in DOMAIN order' : \E j \in DOMAIN order : order'[i].slot = order[j].slot
  BY <1>3, <1>4, UnregisterFacts DEF IInv
<1>6. CalledOnce'
  BY <1>2, <1>3, <1>5 DEF CalledOnce
<1> QED BY <1>2, <1>5, <1>6 DEF IInv, OrderInv

LEMMA CbSetTimerInv ==
    ASSUME IInv, CbSetTimer
    PROVE  IInv'
<1>1. CanCall /\ Called /\ UNCHANGED <<todo, pc, wait, reg, order, behind>>
  BY DEF CbSetTimer
<1>2. /\ ControlInv' /\ OversleepsByCallbacks' /\ cb'.kind = cb.kind
      /\ cb.kind = "event" => cb'.slot = cb.slot
  BY <1>1, CalledFacts DEF IInv, ControlInv
<1>3. OrderInv' /\ RegOK(reg')
  BY <1>1, <1>2 DEF IInv, OrderInv, CalledOnce
<1>4. PICK t \in AppTimers :
          \/ ~HasTimer(timers, t) /\ timers' = SetTimer(timers, t, AppMillis)
          \/ HasTimer(timers, t) /\ timers' = DeleteTimer(timers, t)
  BY DEF CbSetTimer
<1>5. t \notin Slots /\ AppMillis \in Millis /\ t \in Slots \cup AppTimers
  BY EventAssumption
<1>6. CASE ~HasTimer(timers, t) /\ timers' = SetTimer(timers, t, AppMillis)
  <2> DEFINE n == NewTimer(t, AppMillis)
  <2>1. \A x \in Range(timers) : x.id = t => x.left <= AppMillis
    BY <1>6 DEF HasTimer, PlaceOf, Range
  <2>2. /\ TimersOK(timers') /\ Range(timers') = {x \in Range(timers) : x.id # t} \cup {n}
    BY <1>5, <1>6, <2>1, SetTimerFacts DEF IInv, TimerInv
  <2>3. n.id = t
    BY <1>5, NewTimerType
  <2> HIDE DEF n
  <2>4. TimersFit(timers', reg')
    BY <1>1, <1>5, <2>2, <2>3 DEF IInv, TimerInv, TimersFit
  <2> QED BY <1>2, <1>3, <2>2, <2>4 DEF IInv, TimerInv
<1>7. CASE timers' = DeleteTimer(timers, t)
  <2>1. TimersOK(timers') /\ Range(timers') = {x \in Range(timers) : x.id # t}
    BY <1>7, DeleteTimerFacts DEF IInv, TimerInv
  <2>2. TimersFit(timers', reg')
    BY <1>1, <1>5, <2>1 DEF IInv, TimerInv, TimersFit
  <2> QED BY <1>2, <1>3, <2>1, <2>2 DEF IInv, TimerInv
<1> QED BY <1>4, <1>6, <1>7

LEMMA CbTakesTimeInv ==
    ASSUME IInv, CbTakesTime
    PROVE  IInv'
<1>1. /\ CanCall /\ Called /\ UNCHANGED <<todo, pc, wait, reg, order>>
      /\ timers' = Elapse(timers)
      /\ behind' = IF pc = "timers" THEN behind + 1 ELSE behind
  BY DEF CbTakesTime
<1>2. behind' \in Nat
  BY <1>1 DEF IInv, ControlInv
<1>3. /\ ControlInv' /\ OversleepsByCallbacks' /\ cb'.kind = cb.kind
      /\ cb.kind = "event" => cb'.slot = cb.slot
  BY <1>1, <1>2, CalledFacts
<1>4. OrderInv' /\ RegOK(reg')
  BY <1>1, <1>3 DEF IInv, OrderInv, CalledOnce
<1>5. TimerInv'
  BY <1>1, TimePasses DEF IInv
<1> QED BY <1>3, <1>4, <1>5 DEF IInv

\* The handler reads, stops the loop, or returns.
LEMMA CbOtherInv ==
    ASSUME IInv, CbConsume \/ CbStop \/ CbReturns \/ CbFails
    PROVE  IInv'
<1>1. UNCHANGED <<reg, timers, order>> /\ TimerInv' /\ RegOK(reg')
  BY DEF IInv, TimerInv, CbConsume, CbStop, CbReturns, CbFails
<1>2. CASE CbConsume \/ CbStop
  <2>1. CanCall /\ Called /\ UNCHANGED <<todo, pc, wait, behind>>
    BY <1>2 DEF CbConsume, CbStop
  <2>2. /\ ControlInv' /\ OversleepsByCallbacks' /\ cb'.kind = cb.kind
        /\ cb.kind = "event" => cb'.slot = cb.slot
    BY <2>1, CalledFacts DEF IInv, ControlInv
  <2>3. OrderInv'
    BY <1>1, <2>1, <2>2 DEF IInv, OrderInv, CalledOnce
  <2> QED BY <1>1, <2>2, <2>3 DEF IInv
<1>3. CASE CbReturns \/ CbFails
  <2>1. /\ cb' = NoCall /\ pc \in {"timers", "execute"} /\ pc' \in {pc, "out"}
        /\ todo' \in {todo, {}} /\ wait' \in {wait, Forever} /\ behind' = behind
    BY <1>3 DEF IInv, ControlInv, CbReturns, CbFails, LeaveLoop
  <2>2. ControlInv' /\ OversleepsByCallbacks'
    BY <2>1 DEF IInv, ControlInv, OversleepsByCallbacks, Call
  <2>3. OrderInv'
    <3>1. cb'.kind # "event"
      BY <2>1 DEF NoCall
    <3> QED BY <1>1, <2>1, <3>1 DEF IInv, OrderInv, CalledOnce
  <2> QED BY <1>1, <2>2, <2>3 DEF IInv
<1> QED BY <1>2, <1>3

\* Sockets become ready, or nothing happens.
LEMMA ArrivesInv ==
    ASSUME IInv, Arrives \/ UNCHANGED vars
    PROVE  IInv'
<1>1. UNCHANGED <<reg, timers, order, todo, pc, wait, cb, behind>>
  BY DEF Arrives, vars
<1> QED BY <1>1 DEF IInv, ControlInv, Watched, OrderInv, CalledOnce, TimerInv, OversleepsByCallbacks

LEMMA NextInv ==
    ASSUME IInv, [Next]_vars
    PROVE  IInv'
<1>1. CASE StartLoop
  BY <1>1, LoopInv
<1>2. CASE Loop
  BY <1>2, LoopInv, TimersDoneInv, SelectWaitsInv, DispatchTimerInv, AddReadyInv, ExecuteInv
     DEF Loop
<1>3. CASE RegisterBefore
  BY <1>3, RegisterBeforeInv
<1>4. CASE Callback
  BY <1>4, CbRegisterInv, CbUnregisterInv, CbSetTimerInv, CbTakesTimeInv, CbOtherInv DEF Callback
<1>5. CASE Arrives \/ UNCHANGED vars
  BY <1>5, ArrivesInv
<1> QED BY <1>1, <1>2, <1>3, <1>4, <1>5 DEF Next

(***************************************************************************)
(* Theorems.                                                               *)
(***************************************************************************)
\* In every reachable state the invariant holds that the theorems rest on.
THEOREM Invariance == Spec => []IInv
<1>1. Init => IInv
  BY InitInv
<1>2. IInv /\ [Next]_vars => IInv'
  BY NextInv
<1> QED BY <1>1, <1>2, PTL DEF Spec

\* Whatever callbacks register and unregister, an entry in the list of ready
\* events (EventOrderList) is for the event that is registered.
THEOREM HandlersRegistered == Spec => []EntriesRegistered
<1>1. IInv => EntriesRegistered
  BY DEF IInv, OrderInv, OrderOK, EntriesRegistered
<1> QED BY <1>1, Invariance, PTL

\* However timers are started again, set and deleted, select() has a timeout while
\* there is one, and that is past no timer by more than the callbacks of timers took
\* since HTTimer_next looked at the clock.
THEOREM OversleepIsBounded == Spec => []OversleepsByCallbacks
<1>1. IInv => OversleepsByCallbacks
  BY DEF IInv
<1> QED BY <1>1, Invariance, PTL

\* An event has its timer exactly while it is registered with a timeout.
THEOREM TimersFollowEvents == Spec => []TimersOfEvents
<1>1. ASSUME IInv PROVE TimersOfEvents
  <2> SUFFICES ASSUME NEW s \in Slots
               PROVE  HasTimer(timers, s) <=> reg[s] # NoEvent /\ Timeout[reg[s]] > 0
    BY DEF TimersOfEvents
  <2>1. HasTimer(timers, s) <=> \E t \in Range(timers) : t.id = s
    BY DEF HasTimer, PlaceOf, Range
  <2>2. ASSUME NEW t \in Range(timers), t.id = s
        PROVE  reg[s] # NoEvent /\ Timeout[reg[s]] > 0
    <3>1. reg[s] # NoEvent /\ t.millis = Timeout[reg[s]]
      BY <1>1, <2>2 DEF IInv, TimerInv, TimersFit
    <3>2. timers \in Seq(Timer)
      BY <1>1 DEF IInv, TimerInv, TimersOK
    <3>3. t \in Timer
      BY <2>2, <3>2, LenProperties, ElementOfSeq DEF Range
    <3> QED BY <3>1, <3>3 DEF Timer, Millis
  <2> QED BY <1>1, <2>1, <2>2 DEF IInv, TimerInv, TimersFit
<1> QED BY <1>1, Invariance, PTL

\* The first timer of the list is the next to expire, with a timer that starts
\* again placed by a search that does not go back to the head of the list.
THEOREM TimersSorted == Spec => []Sorted(timers)
<1>1. IInv => Sorted(timers)
  BY DEF IInv, TimerInv, TimersOK
<1> QED BY <1>1, Invariance, PTL
==============================================================================
