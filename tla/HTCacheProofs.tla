---------------------------- MODULE HTCacheProofs ----------------------------
(***************************************************************************)
(* What is proved about HTCache: its lists, its locks, the sizes it counts *)
(* and the choices of the collector, and that a hit is a whole document.   *)
(*                                                                         *)
(* The table comes first: what each operation on entries, and the folds of *)
(* the collector, leave of it.  Then the loads, with one lemma per action; *)
(* at last what is in the files.                                           *)
(***************************************************************************)
EXTENDS HTCache, ListLemmas

EntryType(c) == c.entry \in [Urls -> Entry \cup {NoEntry}]

PickUrl == [s \in SUBSET Urls |-> CHOOSE u \in s : TRUE]

LEMMA SizeIsNat ==
    ASSUME NEW c, EntryType(c), NEW u \in Urls
    PROVE  SizeOf(c, u) \in Nat
<1>1. c.entry[u] \in Entry \cup {NoEntry}
  BY DEF EntryType
<1> QED BY <1>1 DEF SizeOf, Has, Entry

\* The sum is what adding the sizes one by one yields.
LEMMA SumIsFold ==
    ASSUME NEW c, EntryType(c)
    PROVE  \E it : /\ SumSizes(c) = it[Urls]
                   /\ it[{}] = 0
                   /\ \A s \in SUBSET Urls : it[s] \in Nat
                   /\ \A s \in SUBSET Urls :
                         s # {} => it[s] = it[s \ {PickUrl[s]}] + SizeOf(c, PickUrl[s])
<1> DEFINE Fold(it) == [s \in SUBSET Urls |->
                           IF s = {} THEN 0
                           ELSE it[s \ {CHOOSE u \in s : TRUE}] + SizeOf(c, CHOOSE u \in s : TRUE)]
           f == [p \in Nat \X Urls |-> p[1] + SizeOf(c, p[2])]
           A == [s \in SUBSET Urls |-> Nat]
<1>1. IsFiniteSet(Urls)
  BY CacheAssumption
<1>2. \A s \in SUBSET Urls : s # {} => PickUrl[s] \in s /\ PickUrl[s] = CHOOSE u \in s : TRUE
  BY DEF PickUrl
<1>3. \A n \in Nat, u \in Urls : f[<<n, u>>] = n + SizeOf(c, u) /\ f[<<n, u>>] \in Nat
  BY SizeIsNat
<1> HIDE DEF f
<1>4. \A s \in SUBSET Urls :
         s # {} => \A n \in A[s \ {PickUrl[s]}] : f[<<n, PickUrl[s]>>] \in A[s]
  BY <1>2, <1>3
<1> DEFINE it == FoldOf(Urls, PickUrl, f, 0)
<1>5. /\ it \in [SUBSET Urls -> Nat]
      /\ it[{}] = 0
      /\ \A s \in SUBSET Urls : s # {} => it[s] = f[<<it[s \ {PickUrl[s]}], PickUrl[s]>>]
      /\ \A s \in SUBSET Urls : it[s] \in A[s]
  <2>1. 0 \in A[{}]
    OBVIOUS
  <2>2. \A s \in SUBSET Urls : s # {} => PickUrl[s] \in s
    BY <1>2
  <2>3. \A s \in SUBSET Urls : A[s] \subseteq Nat
    OBVIOUS
  <2> HIDE DEF A
  <2> QED BY <1>1, <1>4, <2>1, <2>2, <2>3, FoldExists
<1> HIDE DEF it
<1>6. \A s \in SUBSET Urls : it[s] \in Nat
  BY <1>5
<1>7. \A s \in SUBSET Urls : s # {} =>
         f[<<it[s \ {PickUrl[s]}], PickUrl[s]>>]
            = it[s \ {CHOOSE u \in s : TRUE}] + SizeOf(c, CHOOSE u \in s : TRUE)
  <2> TAKE s \in SUBSET Urls
  <2> HAVE s # {}
  <2>1. PickUrl[s] \in Urls /\ it[s \ {PickUrl[s]}] \in Nat
    BY <1>2, <1>6
  <2>2. f[<<it[s \ {PickUrl[s]}], PickUrl[s]>>]
            = it[s \ {PickUrl[s]}] + SizeOf(c, PickUrl[s])
    BY <1>3, <2>1
  <2> QED BY <1>2, <2>2
<1>8. it = Fold(it)
  <2> DEFINE Step(s) == IF s = {} THEN 0
                        ELSE it[s \ {CHOOSE u \in s : TRUE}] + SizeOf(c, CHOOSE u \in s : TRUE)
  <2>1. it = [s \in SUBSET Urls |-> it[s]]
    BY <1>5
  <2>2. \A s \in SUBSET Urls : it[s] = Step(s)
    BY <1>5, <1>7
  <2> HIDE DEF Step
  <2>3. it = [s \in SUBSET Urls |-> Step(s)]
    BY <2>1, <2>2, Zenon
  <2> QED BY <2>3 DEF Step
<1> DEFINE jt == CHOOSE jt : jt = Fold(jt)
<1>9. jt = Fold(jt)
  BY <1>8
<1>10. SumSizes(c) = jt[Urls]
  BY DEF SumSizes, FoldSet, MapThenFoldSet
<1> HIDE DEF jt
<1>11. jt[{}] = 0
  BY <1>9
<1>12. \A s \in SUBSET Urls : s # {} => jt[s] = jt[s \ {PickUrl[s]}] + SizeOf(c, PickUrl[s])
  BY <1>2, <1>9
<1>13. \A s \in SUBSET Urls : jt[s] \in A[s]
  <2>1. jt[{}] \in A[{}]
    BY <1>11
  <2>2. \A s \in SUBSET Urls :
           s # {} /\ jt[s \ {PickUrl[s]}] \in A[s \ {PickUrl[s]}] => jt[s] \in A[s]
    <3> TAKE s \in SUBSET Urls
    <3> HAVE s # {} /\ jt[s \ {PickUrl[s]}] \in A[s \ {PickUrl[s]}]
    <3>1. PickUrl[s] \in Urls /\ s \ {PickUrl[s]} \in SUBSET Urls
      BY <1>2
    <3>2. jt[s \ {PickUrl[s]}] \in Nat /\ SizeOf(c, PickUrl[s]) \in Nat
      BY <3>1, SizeIsNat
    <3>3. jt[s] = jt[s \ {PickUrl[s]}] + SizeOf(c, PickUrl[s])
      BY <1>12
    <3> QED BY <3>2, <3>3
  <2> HIDE DEF A, Fold
  <2> QED BY <1>1, <1>2, <2>1, <2>2, FoldInduction
<1> QED BY <1>10, <1>11, <1>12, <1>13

\* What a change of one entry does to the sum.
LEMMA SumChange ==
    ASSUME NEW c, EntryType(c), NEW d, EntryType(d), NEW u \in Urls,
           \A w \in Urls \ {u} : SizeOf(d, w) = SizeOf(c, w)
    PROVE  /\ SumSizes(c) \in Nat /\ SumSizes(d) \in Nat
           /\ SumSizes(d) = SumSizes(c) - SizeOf(c, u) + SizeOf(d, u)
           /\ SizeOf(c, u) \in Nat /\ SizeOf(d, u) \in Nat
<1>1. PICK it : /\ SumSizes(c) = it[Urls]
                /\ it[{}] = 0
                /\ \A s \in SUBSET Urls : it[s] \in Nat
                /\ \A s \in SUBSET Urls :
                      s # {} => it[s] = it[s \ {PickUrl[s]}] + SizeOf(c, PickUrl[s])
  BY SumIsFold
<1>2. PICK jt : /\ SumSizes(d) = jt[Urls]
                /\ jt[{}] = 0
                /\ \A s \in SUBSET Urls : jt[s] \in Nat
                /\ \A s \in SUBSET Urls :
                      s # {} => jt[s] = jt[s \ {PickUrl[s]}] + SizeOf(d, PickUrl[s])
  BY SumIsFold
<1>3. \A w \in Urls : SizeOf(c, w) \in Nat /\ SizeOf(d, w) \in Nat
  BY SizeIsNat
<1> DEFINE diff == SizeOf(d, u) - SizeOf(c, u)
           kt == [s \in SUBSET Urls |-> jt[s] - it[s]]
           A == [s \in SUBSET Urls |-> IF u \in s THEN {diff} ELSE {0}]
<1>4. kt[{}] \in A[{}]
  BY <1>1, <1>2
<1>5. ASSUME NEW s \in SUBSET Urls, s # {}, kt[s \ {PickUrl[s]}] \in A[s \ {PickUrl[s]}]
      PROVE  kt[s] \in A[s]
  <2> DEFINE w == PickUrl[s]
             q == s \ {w}
  <2>1. w \in s /\ q \in SUBSET Urls
    BY <1>5 DEF PickUrl
  <2>2. it[s] = it[q] + SizeOf(c, w) /\ jt[s] = jt[q] + SizeOf(d, w)
    BY <1>1, <1>2, <1>5
  <2>3. it[q] \in Nat /\ jt[q] \in Nat /\ it[s] \in Nat /\ jt[s] \in Nat
    BY <1>1, <1>2, <2>1
  <2>4. jt[q] - it[q] = IF u \in q THEN diff ELSE 0
    BY <1>5, <2>1
  <2>5. jt[s] - it[s] = IF u \in s THEN diff ELSE 0
    <3> HIDE DEF q, w
    <3>1. CASE w = u
      <4>1. u \notin q /\ u \in s
        BY <2>1, <3>1 DEF q
      <4> QED BY <1>3, <2>2, <2>3, <2>4, <3>1, <4>1
    <3>2. CASE w # u
      <4>1. (u \in q <=> u \in s) /\ w \in Urls /\ SizeOf(d, w) = SizeOf(c, w)
        BY <2>1, <3>2 DEF q
      <4>2. SizeOf(c, w) \in Nat
        BY <1>3, <4>1
      <4> QED BY <2>2, <2>3, <2>4, <4>1, <4>2
    <3> QED BY <3>1, <3>2
  <2> QED BY <2>5
<1>6. \A s \in SUBSET Urls : kt[s] \in A[s]
  <2>1. IsFiniteSet(Urls) /\ \A s \in SUBSET Urls : s # {} => PickUrl[s] \in s
    BY CacheAssumption DEF PickUrl
  <2> HIDE DEF kt, A
  <2> QED BY <1>4, <1>5, <2>1, FoldInduction
<1>7. jt[Urls] - it[Urls] = diff
  BY <1>6
<1>8. jt[Urls] \in Nat /\ it[Urls] \in Nat
  BY <1>1, <1>2
<1> QED BY <1>1, <1>2, <1>3, <1>7, <1>8

LEMMA SumSame ==
    ASSUME NEW c, EntryType(c), NEW d, EntryType(d),
           \A w \in Urls : SizeOf(d, w) = SizeOf(c, w)
    PROVE  SumSizes(c) \in Nat /\ SumSizes(d) = SumSizes(c)
<1>1. PICK u \in Urls : TRUE
  BY CacheAssumption
<1>2. /\ SumSizes(c) \in Nat /\ SumSizes(d) \in Nat
      /\ SumSizes(d) = SumSizes(c) - SizeOf(c, u) + SizeOf(d, u)
      /\ SizeOf(c, u) \in Nat /\ SizeOf(d, u) \in Nat
  BY SumChange
<1> QED BY <1>2

(***************************************************************************)
(* The table.                                                              *)
(***************************************************************************)
CacheRec ==
    [chain : [Range(Buckets) -> Seq(Urls)], entry : [Urls -> Entry \cup {NoEntry}],
     name : [Urls -> Files \cup {NoFile}], content : Int]

ChainsOK(c) ==
    \A b \in Range(Buckets) :
        /\ IsInjective(c.chain[b])
        /\ Range(c.chain[b]) = {u \in Urls : Bucket[u] = b /\ c.entry[u] # NoEntry}

\* Files have names of entries, of their own document.
NamesOK(c) == \A u \in Urls : c.name[u] # NoFile => Has(c, u) /\ c.name[u][1] = u

TableOK(c) == c \in CacheRec /\ ChainsOK(c) /\ NamesOK(c) /\ c.content >= SumSizes(c)

\* Only the entry of u is another one, or has another file.
Updated(c, d, u) ==
    /\ d \in CacheRec /\ d.chain = c.chain
    /\ d.entry[u] \in Entry
    /\ \A w \in Urls \ {u} : d.entry[w] = c.entry[w] /\ d.name[w] = c.name[w]

LEMMA HasEntry ==
    ASSUME NEW c \in CacheRec, NEW u \in Urls
    PROVE  /\ c.entry[u] \in Entry \cup {NoEntry} /\ c.name[u] \in Files \cup {NoFile}
           /\ Has(c, u) <=> c.entry[u] \in Entry
           /\ c.content \in Int /\ EntryType(c)
  BY CacheAssumption DEF CacheRec, Has, EntryType

LEMMA PutEntry ==
    ASSUME NEW c \in CacheRec, NEW u \in Urls, NEW e \in Entry, NEW m \in Files \cup {NoFile}, NEW k \in Int,
           NEW d, d = [x \in DOMAIN c |-> d[x]],
           d.chain = c.chain, d.entry = [c.entry EXCEPT ![u] = e], d.name = [c.name EXCEPT ![u] = m], d.content = k
    PROVE  Updated(c, d, u) /\ d.entry[u] = e /\ d.name[u] = m /\ d.content = k
<1>1. /\ c.chain \in [Range(Buckets) -> Seq(Urls)] /\ c.entry \in [Urls -> Entry \cup {NoEntry}]
      /\ c.name \in [Urls -> Files \cup {NoFile}]
  BY DEF CacheRec
<1>2. d.entry \in [Urls -> Entry \cup {NoEntry}] /\ d.name \in [Urls -> Files \cup {NoFile}]
  BY <1>1
<1>3. d = [chain |-> d.chain, entry |-> d.entry, name |-> d.name, content |-> d.content]
  <2>1. DOMAIN c = {"chain", "entry", "name", "content"}
    BY DEF CacheRec
  <2> QED BY <2>1
<1>4. d \in CacheRec
  BY <1>1, <1>2, <1>3 DEF CacheRec
<1> QED BY <1>1, <1>4 DEF Updated

\* The parts of an entry.
EntryIs(e, v, f, g, s, h, l) ==
    /\ e.version = v /\ e.fresh = f /\ e.range = g
    /\ e.size = s /\ e.hits = h /\ e.lock = l

\* What the operations do to an entry.
Locked(c, u, l) == [c EXCEPT !.entry[u].lock = l]
Hit(c, u) == [c EXCEPT !.entry[u].hits = @ + 1]
Aged(c, u, f) == [c EXCEPT !.entry[u].fresh = f]
Ranged(c, u, g) == [c EXCEPT !.entry[u].range = g]
Overwritten(c, u, r, v) == [c EXCEPT !.entry[u].lock = r, !.entry[u].version = v, !.entry[u].fresh = TRUE]
Sized(c, u, s, g) == [c EXCEPT !.entry[u].size = s, !.entry[u].range = g]
Bodiless(c, u, s, g) == [c EXCEPT !.name[u] = NoFile, !.entry[u].size = s, !.entry[u].range = g]
Named(c, u, f) == [c EXCEPT !.name[u] = f]
NamedHit(c, u, f) == [c EXCEPT !.name[u] = f, !.entry[u].hits = @ + 1]
Counted(c, u, s, k) == [c EXCEPT !.entry[u].size = s, !.content = k]

\* Locking and unlocking.
LEMMA LockFacts ==
    ASSUME NEW c \in CacheRec, NEW u \in Urls, c.entry[u] \in Entry, NEW l \in Requests \cup {NoRequest},
           NEW d, d = Locked(c, u, l)
    PROVE  /\ Updated(c, d, u) /\ d.name[u] = c.name[u] /\ d.content = c.content
           /\ EntryIs(d.entry[u], c.entry[u].version, c.entry[u].fresh, c.entry[u].range,
                      c.entry[u].size, c.entry[u].hits, l)
<1> DEFINE e == [c.entry[u] EXCEPT !.lock = l]
<1>1. e \in Entry
  BY ZenonT(60) DEF Entry
<1> HIDE DEF e
<1>2. /\ d = [x \in DOMAIN c |-> d[x]]
      /\ d.chain = c.chain /\ d.name = c.name /\ d.content = c.content
      /\ d.entry = [c.entry EXCEPT ![u] = e]
  <2>1. DOMAIN c = {"chain", "entry", "name", "content"}
    BY DEF CacheRec
  <2>2. d = [x \in DOMAIN c |-> d[x]]
    BY <2>1 DEF Locked
  <2>3. d.chain = c.chain /\ d.name = c.name /\ d.content = c.content
    BY <2>1 DEF Locked
  <2>4. d.entry = [c.entry EXCEPT ![u] = e]
    BY <2>1 DEF e, Locked
  <2> QED BY <2>2, <2>3, <2>4
<1>3. c.name = [c.name EXCEPT ![u] = c.name[u]] /\ c.name[u] \in Files \cup {NoFile} /\ c.content \in Int
  BY DEF CacheRec
<1>4. Updated(c, d, u) /\ d.entry[u] = e /\ d.name[u] = c.name[u] /\ d.content = c.content
  BY <1>1, <1>2, <1>3, PutEntry
<1>5. EntryIs(e, c.entry[u].version, c.entry[u].fresh, c.entry[u].range,
              c.entry[u].size, c.entry[u].hits, l)
  BY DEF Entry, EntryIs, e
<1> QED BY <1>4, <1>5

\* A hit is counted.
LEMMA HitFacts ==
    ASSUME NEW c \in CacheRec, NEW u \in Urls, c.entry[u] \in Entry,
           NEW d, d = Hit(c, u)
    PROVE  /\ Updated(c, d, u) /\ d.name[u] = c.name[u] /\ d.content = c.content
           /\ EntryIs(d.entry[u], c.entry[u].version, c.entry[u].fresh, c.entry[u].range,
                      c.entry[u].size, c.entry[u].hits + 1, c.entry[u].lock)
<1> DEFINE e == [c.entry[u] EXCEPT !.hits = c.entry[u].hits + 1]
<1>1. e \in Entry
  <2>1. c.entry[u].hits + 1 \in Nat
    BY DEF Entry
  <2> QED BY <2>1, ZenonT(60) DEF Entry
<1> HIDE DEF e
<1>2. /\ d = [x \in DOMAIN c |-> d[x]]
      /\ d.chain = c.chain /\ d.name = c.name /\ d.content = c.content
      /\ d.entry = [c.entry EXCEPT ![u] = e]
  <2>1. DOMAIN c = {"chain", "entry", "name", "content"}
    BY DEF CacheRec
  <2>2. d = [x \in DOMAIN c |-> d[x]]
    BY <2>1 DEF Hit
  <2>3. d.chain = c.chain /\ d.name = c.name /\ d.content = c.content
    BY <2>1 DEF Hit
  <2>4. d.entry = [c.entry EXCEPT ![u] = e]
    BY <2>1 DEF e, Hit
  <2> QED BY <2>2, <2>3, <2>4
<1>3. c.name = [c.name EXCEPT ![u] = c.name[u]] /\ c.name[u] \in Files \cup {NoFile} /\ c.content \in Int
  BY DEF CacheRec
<1>4. Updated(c, d, u) /\ d.entry[u] = e /\ d.name[u] = c.name[u] /\ d.content = c.content
  BY <1>1, <1>2, <1>3, PutEntry
<1>5. EntryIs(e, c.entry[u].version, c.entry[u].fresh, c.entry[u].range,
              c.entry[u].size, c.entry[u].hits + 1, c.entry[u].lock)
  BY DEF Entry, EntryIs, e
<1> QED BY <1>4, <1>5

\* An entry expires.
LEMMA FreshFacts ==
    ASSUME NEW c \in CacheRec, NEW u \in Urls, c.entry[u] \in Entry, NEW f \in BOOLEAN,
           NEW d, d = Aged(c, u, f)
    PROVE  /\ Updated(c, d, u) /\ d.name[u] = c.name[u] /\ d.content = c.content
           /\ EntryIs(d.entry[u], c.entry[u].version, f, c.entry[u].range,
                      c.entry[u].size, c.entry[u].hits, c.entry[u].lock)
<1> DEFINE e == [c.entry[u] EXCEPT !.fresh = f]
<1>1. e \in Entry
  BY ZenonT(60) DEF Entry
<1> HIDE DEF e
<1>2. /\ d = [x \in DOMAIN c |-> d[x]]
      /\ d.chain = c.chain /\ d.name = c.name /\ d.content = c.content
      /\ d.entry = [c.entry EXCEPT ![u] = e]
  <2>1. DOMAIN c = {"chain", "entry", "name", "content"}
    BY DEF CacheRec
  <2>2. d = [x \in DOMAIN c |-> d[x]]
    BY <2>1 DEF Aged
  <2>3. d.chain = c.chain /\ d.name = c.name /\ d.content = c.content
    BY <2>1 DEF Aged
  <2>4. d.entry = [c.entry EXCEPT ![u] = e]
    BY <2>1 DEF e, Aged
  <2> QED BY <2>2, <2>3, <2>4
<1>3. c.name = [c.name EXCEPT ![u] = c.name[u]] /\ c.name[u] \in Files \cup {NoFile} /\ c.content \in Int
  BY DEF CacheRec
<1>4. Updated(c, d, u) /\ d.entry[u] = e /\ d.name[u] = c.name[u] /\ d.content = c.content
  BY <1>1, <1>2, <1>3, PutEntry
<1>5. EntryIs(e, c.entry[u].version, f, c.entry[u].range,
              c.entry[u].size, c.entry[u].hits, c.entry[u].lock)
  BY DEF Entry, EntryIs, e
<1> QED BY <1>4, <1>5

\* Part of a document, or all of it.
LEMMA RangeFacts ==
    ASSUME NEW c \in CacheRec, NEW u \in Urls, c.entry[u] \in Entry, NEW g \in BOOLEAN,
           NEW d, d = Ranged(c, u, g)
    PROVE  /\ Updated(c, d, u) /\ d.name[u] = c.name[u] /\ d.content = c.content
           /\ EntryIs(d.entry[u], c.entry[u].version, c.entry[u].fresh, g,
                      c.entry[u].size, c.entry[u].hits, c.entry[u].lock)
<1> DEFINE e == [c.entry[u] EXCEPT !.range = g]
<1>1. e \in Entry
  BY ZenonT(60) DEF Entry
<1> HIDE DEF e
<1>2. /\ d = [x \in DOMAIN c |-> d[x]]
      /\ d.chain = c.chain /\ d.name = c.name /\ d.content = c.content
      /\ d.entry = [c.entry EXCEPT ![u] = e]
  <2>1. DOMAIN c = {"chain", "entry", "name", "content"}
    BY DEF CacheRec
  <2>2. d = [x \in DOMAIN c |-> d[x]]
    BY <2>1 DEF Ranged
  <2>3. d.chain = c.chain /\ d.name = c.name /\ d.content = c.content
    BY <2>1 DEF Ranged
  <2>4. d.entry = [c.entry EXCEPT ![u] = e]
    BY <2>1 DEF e, Ranged
  <2> QED BY <2>2, <2>3, <2>4
<1>3. c.name = [c.name EXCEPT ![u] = c.name[u]] /\ c.name[u] \in Files \cup {NoFile} /\ c.content \in Int
  BY DEF CacheRec
<1>4. Updated(c, d, u) /\ d.entry[u] = e /\ d.name[u] = c.name[u] /\ d.content = c.content
  BY <1>1, <1>2, <1>3, PutEntry
<1>5. EntryIs(e, c.entry[u].version, c.entry[u].fresh, g,
              c.entry[u].size, c.entry[u].hits, c.entry[u].lock)
  BY DEF Entry, EntryIs, e
<1> QED BY <1>4, <1>5

\* What HTCache_new does to an entry that is there.
LEMMA OverwriteFacts ==
    ASSUME NEW c \in CacheRec, NEW u \in Urls, c.entry[u] \in Entry, NEW r \in Requests, NEW v \in Versions,
           NEW d, d = Overwritten(c, u, r, v)
    PROVE  /\ Updated(c, d, u) /\ d.name[u] = c.name[u] /\ d.content = c.content
           /\ EntryIs(d.entry[u], v, TRUE, c.entry[u].range,
                      c.entry[u].size, c.entry[u].hits, r)
<1> DEFINE e == [c.entry[u] EXCEPT !.lock = r, !.version = v, !.fresh = TRUE]
<1>1. e \in Entry
  BY ZenonT(60) DEF Entry
<1> HIDE DEF e
<1>2. /\ d = [x \in DOMAIN c |-> d[x]]
      /\ d.chain = c.chain /\ d.name = c.name /\ d.content = c.content
      /\ d.entry = [c.entry EXCEPT ![u] = e]
  <2>1. DOMAIN c = {"chain", "entry", "name", "content"}
    BY DEF CacheRec
  <2>2. d = [x \in DOMAIN c |-> d[x]]
    BY <2>1 DEF Overwritten
  <2>3. d.chain = c.chain /\ d.name = c.name /\ d.content = c.content
    BY <2>1 DEF Overwritten
  <2>4. d.entry = [c.entry EXCEPT ![u] = e]
    BY <2>1 DEF e, Overwritten
  <2> QED BY <2>2, <2>3, <2>4
<1>3. c.name = [c.name EXCEPT ![u] = c.name[u]] /\ c.name[u] \in Files \cup {NoFile} /\ c.content \in Int
  BY DEF CacheRec
<1>4. Updated(c, d, u) /\ d.entry[u] = e /\ d.name[u] = c.name[u] /\ d.content = c.content
  BY <1>1, <1>2, <1>3, PutEntry
<1>5. EntryIs(e, v, TRUE, c.entry[u].range,
              c.entry[u].size, c.entry[u].hits, r)
  BY DEF Entry, EntryIs, e
<1> QED BY <1>4, <1>5

\* What HTCache_updateMeta does.
LEMMA MetaFacts ==
    ASSUME NEW c \in CacheRec, NEW u \in Urls, c.entry[u] \in Entry, NEW v \in Versions,
           NEW d, d = UpdateMeta(c, u, v)
    PROVE  /\ Updated(c, d, u) /\ d.name[u] = c.name[u] /\ d.content = c.content
           /\ d.entry[u].version = v /\ d.entry[u].fresh /\ d.entry[u].range = c.entry[u].range
           /\ d.entry[u].size = c.entry[u].size /\ d.entry[u].lock = c.entry[u].lock
<1> DEFINE e == [c.entry[u] EXCEPT !.version = v, !.fresh = TRUE, !.hits = c.entry[u].hits + 1]
<1>1. e \in Entry
  <2>1. c.entry[u].hits + 1 \in Nat
    BY DEF Entry
  <2> QED BY <2>1, ZenonT(60) DEF Entry
<1> HIDE DEF e
<1>2. /\ d = [x \in DOMAIN c |-> d[x]]
      /\ d.chain = c.chain /\ d.name = c.name /\ d.content = c.content
      /\ d.entry = [c.entry EXCEPT ![u] = e]
  <2>1. DOMAIN c = {"chain", "entry", "name", "content"}
    BY DEF CacheRec
  <2>2. d = [x \in DOMAIN c |-> d[x]]
    BY <2>1 DEF UpdateMeta
  <2>3. d.chain = c.chain /\ d.name = c.name /\ d.content = c.content
    BY <2>1 DEF UpdateMeta
  <2>4. d.entry = [c.entry EXCEPT ![u] = e]
    BY <2>1 DEF e, UpdateMeta
  <2> QED BY <2>2, <2>3, <2>4
<1>3. c.name = [c.name EXCEPT ![u] = c.name[u]] /\ c.name[u] \in Files \cup {NoFile} /\ c.content \in Int
  BY DEF CacheRec
<1>4. Updated(c, d, u) /\ d.entry[u] = e /\ d.name[u] = c.name[u] /\ d.content = c.content
  BY <1>1, <1>2, <1>3, PutEntry
<1>5. /\ e.version = v /\ e.fresh /\ e.range = c.entry[u].range
      /\ e.size = c.entry[u].size /\ e.lock = c.entry[u].lock
  BY DEF Entry, e
<1> QED BY <1>4, <1>5

\* What HTCache_touch adds.
LEMMA TouchFacts ==
    ASSUME NEW c \in CacheRec, NEW u \in Urls, c.entry[u] \in Entry, NEW s \in Nat, NEW g \in BOOLEAN,
           NEW d, d = Sized(c, u, s, g)
    PROVE  /\ Updated(c, d, u) /\ d.name[u] = c.name[u] /\ d.content = c.content
           /\ EntryIs(d.entry[u], c.entry[u].version, c.entry[u].fresh, g,
                      s, c.entry[u].hits, c.entry[u].lock)
<1> DEFINE e == [c.entry[u] EXCEPT !.size = s, !.range = g]
<1>1. e \in Entry
  BY ZenonT(60) DEF Entry
<1> HIDE DEF e
<1>2. /\ d = [x \in DOMAIN c |-> d[x]]
      /\ d.chain = c.chain /\ d.name = c.name /\ d.content = c.content
      /\ d.entry = [c.entry EXCEPT ![u] = e]
  <2>1. DOMAIN c = {"chain", "entry", "name", "content"}
    BY DEF CacheRec
  <2>2. d = [x \in DOMAIN c |-> d[x]]
    BY <2>1 DEF Sized
  <2>3. d.chain = c.chain /\ d.name = c.name /\ d.content = c.content
    BY <2>1 DEF Sized
  <2>4. d.entry = [c.entry EXCEPT ![u] = e]
    BY <2>1 DEF e, Sized
  <2> QED BY <2>2, <2>3, <2>4
<1>3. c.name = [c.name EXCEPT ![u] = c.name[u]] /\ c.name[u] \in Files \cup {NoFile} /\ c.content \in Int
  BY DEF CacheRec
<1>4. Updated(c, d, u) /\ d.entry[u] = e /\ d.name[u] = c.name[u] /\ d.content = c.content
  BY <1>1, <1>2, <1>3, PutEntry
<1>5. EntryIs(e, c.entry[u].version, c.entry[u].fresh, g,
              s, c.entry[u].hits, c.entry[u].lock)
  BY DEF Entry, EntryIs, e
<1> QED BY <1>4, <1>5

\* An entry loses its body.
LEMMA BodyGoneFacts ==
    ASSUME NEW c \in CacheRec, NEW u \in Urls, c.entry[u] \in Entry, NEW s \in Nat, NEW g \in BOOLEAN,
           NEW d, d = Bodiless(c, u, s, g)
    PROVE  /\ Updated(c, d, u) /\ d.name[u] = NoFile /\ d.content = c.content
           /\ EntryIs(d.entry[u], c.entry[u].version, c.entry[u].fresh, g,
                      s, c.entry[u].hits, c.entry[u].lock)
<1> DEFINE e == [c.entry[u] EXCEPT !.size = s, !.range = g]
<1>1. e \in Entry
  BY ZenonT(60) DEF Entry
<1> HIDE DEF e
<1>2. /\ d = [x \in DOMAIN c |-> d[x]]
      /\ d.chain = c.chain /\ d.name = [c.name EXCEPT ![u] = NoFile] /\ d.content = c.content
      /\ d.entry = [c.entry EXCEPT ![u] = e]
  <2>1. DOMAIN c = {"chain", "entry", "name", "content"}
    BY DEF CacheRec
  <2>2. d = [x \in DOMAIN c |-> d[x]]
    BY <2>1 DEF Bodiless
  <2>3. d.chain = c.chain /\ d.name = [c.name EXCEPT ![u] = NoFile] /\ d.content = c.content
    BY <2>1 DEF Bodiless
  <2>4. d.entry = [c.entry EXCEPT ![u] = e]
    BY <2>1 DEF e, Bodiless
  <2> QED BY <2>2, <2>3, <2>4
<1>3. NoFile \in Files \cup {NoFile} /\ c.content \in Int
  BY DEF CacheRec
<1>4. Updated(c, d, u) /\ d.entry[u] = e /\ d.name[u] = NoFile /\ d.content = c.content
  BY <1>1, <1>2, <1>3, PutEntry
<1>5. EntryIs(e, c.entry[u].version, c.entry[u].fresh, g,
              s, c.entry[u].hits, c.entry[u].lock)
  BY DEF Entry, EntryIs, e
<1> QED BY <1>4, <1>5

\* An entry gets a file.
LEMMA NameFacts ==
    ASSUME NEW c \in CacheRec, NEW u \in Urls, c.entry[u] \in Entry, NEW f \in Files \cup {NoFile},
           NEW d, d = Named(c, u, f)
    PROVE  /\ Updated(c, d, u) /\ d.name[u] = f /\ d.content = c.content
           /\ d.entry[u] = c.entry[u]
<1> DEFINE e == c.entry[u]
<1>1. e \in Entry
  OBVIOUS
<1> HIDE DEF e
<1>2. /\ d = [x \in DOMAIN c |-> d[x]]
      /\ d.chain = c.chain /\ d.name = [c.name EXCEPT ![u] = f] /\ d.content = c.content
      /\ d.entry = [c.entry EXCEPT ![u] = e]
  <2>1. DOMAIN c = {"chain", "entry", "name", "content"}
    BY DEF CacheRec
  <2>2. d = [x \in DOMAIN c |-> d[x]]
    BY <2>1 DEF Named
  <2>3. d.chain = c.chain /\ d.name = [c.name EXCEPT ![u] = f] /\ d.content = c.content
    BY <2>1 DEF Named
  <2>4. d.entry = [c.entry EXCEPT ![u] = e]
    <3>1. d.entry = c.entry /\ c.entry \in [Urls -> Entry \cup {NoEntry}]
      BY <2>1 DEF CacheRec, Named
    <3> QED BY <3>1 DEF e
  <2> QED BY <2>2, <2>3, <2>4
<1>3. f \in Files \cup {NoFile} /\ c.content \in Int
  BY DEF CacheRec
<1>4. Updated(c, d, u) /\ d.entry[u] = e /\ d.name[u] = f /\ d.content = c.content
  BY <1>1, <1>2, <1>3, PutEntry
<1> QED BY <1>4 DEF e

\* An entry gets a file, and a hit is counted.
LEMMA NameHitFacts ==
    ASSUME NEW c \in CacheRec, NEW u \in Urls, c.entry[u] \in Entry, NEW f \in Files \cup {NoFile},
           NEW d, d = NamedHit(c, u, f)
    PROVE  /\ Updated(c, d, u) /\ d.name[u] = f /\ d.content = c.content
           /\ EntryIs(d.entry[u], c.entry[u].version, c.entry[u].fresh, c.entry[u].range,
                      c.entry[u].size, c.entry[u].hits + 1, c.entry[u].lock)
<1> DEFINE e == [c.entry[u] EXCEPT !.hits = c.entry[u].hits + 1]
<1>1. e \in Entry
  <2>1. c.entry[u].hits + 1 \in Nat
    BY DEF Entry
  <2> QED BY <2>1, ZenonT(60) DEF Entry
<1> HIDE DEF e
<1>2. /\ d = [x \in DOMAIN c |-> d[x]]
      /\ d.chain = c.chain /\ d.name = [c.name EXCEPT ![u] = f] /\ d.content = c.content
      /\ d.entry = [c.entry EXCEPT ![u] = e]
  <2>1. DOMAIN c = {"chain", "entry", "name", "content"}
    BY DEF CacheRec
  <2>2. d = [x \in DOMAIN c |-> d[x]]
    BY <2>1 DEF NamedHit
  <2>3. d.chain = c.chain /\ d.name = [c.name EXCEPT ![u] = f] /\ d.content = c.content
    BY <2>1 DEF NamedHit
  <2>4. d.entry = [c.entry EXCEPT ![u] = e]
    BY <2>1 DEF e, NamedHit
  <2> QED BY <2>2, <2>3, <2>4
<1>3. f \in Files \cup {NoFile} /\ c.content \in Int
  BY DEF CacheRec
<1>4. Updated(c, d, u) /\ d.entry[u] = e /\ d.name[u] = f /\ d.content = c.content
  BY <1>1, <1>2, <1>3, PutEntry
<1>5. EntryIs(e, c.entry[u].version, c.entry[u].fresh, c.entry[u].range,
              c.entry[u].size, c.entry[u].hits + 1, c.entry[u].lock)
  BY DEF Entry, EntryIs, e
<1> QED BY <1>4, <1>5

\* The size of an entry becomes known.
LEMMA SizeFacts ==
    ASSUME NEW c \in CacheRec, NEW u \in Urls, c.entry[u] \in Entry, NEW s \in Nat, NEW k \in Int,
           NEW d, d = Counted(c, u, s, k)
    PROVE  /\ Updated(c, d, u) /\ d.name[u] = c.name[u] /\ d.content = k
           /\ EntryIs(d.entry[u], c.entry[u].version, c.entry[u].fresh, c.entry[u].range,
                      s, c.entry[u].hits, c.entry[u].lock)
<1> DEFINE e == [c.entry[u] EXCEPT !.size = s]
<1>1. e \in Entry
  BY ZenonT(60) DEF Entry
<1> HIDE DEF e
<1>2. /\ d = [x \in DOMAIN c |-> d[x]]
      /\ d.chain = c.chain /\ d.name = c.name /\ d.content = k
      /\ d.entry = [c.entry EXCEPT ![u] = e]
  <2>1. DOMAIN c = {"chain", "entry", "name", "content"}
    BY DEF CacheRec
  <2>2. d = [x \in DOMAIN c |-> d[x]]
    BY <2>1 DEF Counted
  <2>3. d.chain = c.chain /\ d.name = c.name /\ d.content = k
    BY <2>1 DEF Counted
  <2>4. d.entry = [c.entry EXCEPT ![u] = e]
    BY <2>1 DEF e, Counted
  <2> QED BY <2>2, <2>3, <2>4
<1>3. c.name = [c.name EXCEPT ![u] = c.name[u]] /\ c.name[u] \in Files \cup {NoFile} /\ k \in Int
  BY DEF CacheRec
<1>4. Updated(c, d, u) /\ d.entry[u] = e /\ d.name[u] = c.name[u] /\ d.content = k
  BY <1>1, <1>2, <1>3, PutEntry
<1>5. EntryIs(e, c.entry[u].version, c.entry[u].fresh, c.entry[u].range,
              s, c.entry[u].hits, c.entry[u].lock)
  BY DEF Entry, EntryIs, e
<1> QED BY <1>4, <1>5

\* The table stays as it should be when an entry is updated.
LEMMA UpdatedOK ==
    ASSUME NEW c, TableOK(c), NEW u \in Urls, Has(c, u), NEW d, Updated(c, d, u),
           d.name[u] # NoFile => d.name[u][1] = u,
           d.content - d.entry[u].size >= c.content - c.entry[u].size
    PROVE  TableOK(d) /\ Has(d, u)
<1>1. /\ c \in CacheRec /\ d \in CacheRec /\ d.chain = c.chain /\ Has(d, u)
      /\ EntryType(c) /\ EntryType(d) /\ c.content \in Int /\ d.content \in Int
  BY HasEntry DEF TableOK, Updated
<1>2. \A w \in Urls : w # u => d.entry[w] = c.entry[w] /\ d.name[w] = c.name[w]
  BY DEF Updated
<1>3. \A w \in Urls : Has(d, w) <=> Has(c, w)
  BY <1>1, <1>2 DEF Has
<1>4. ChainsOK(d)
  <2>1. \A w \in Urls : d.entry[w] # NoEntry <=> c.entry[w] # NoEntry
    BY <1>3 DEF Has
  <2> QED BY <1>1, <2>1 DEF TableOK, ChainsOK
<1>5. NamesOK(d)
  BY <1>2, <1>3 DEF TableOK, NamesOK
<1>6. d.content >= SumSizes(d)
  <2>1. \A w \in Urls \ {u} : SizeOf(d, w) = SizeOf(c, w)
    BY <1>2 DEF SizeOf, Has
  <2>2. SizeOf(d, u) = d.entry[u].size /\ SizeOf(c, u) = c.entry[u].size
    BY <1>1 DEF SizeOf
  <2>3. /\ SumSizes(c) \in Nat /\ SumSizes(d) \in Nat
        /\ SumSizes(d) = SumSizes(c) - SizeOf(c, u) + SizeOf(d, u)
        /\ SizeOf(c, u) \in Nat /\ SizeOf(d, u) \in Nat
    BY <1>1, <2>1, SumChange
  <2>4. c.content >= SumSizes(c)
    BY DEF TableOK
  <2> QED BY <1>1, <2>2, <2>3, <2>4
<1> QED BY <1>1, <1>4, <1>5, <1>6 DEF TableOK

\* All entries but that of u, and their files, are the same.
Elsewhere(c, d, u) ==
    \A w \in Urls \ {u} : d.entry[w] = c.entry[w] /\ d.name[w] = c.name[w]

LEMMA NewEntryFacts ==
    ASSUME NEW c, TableOK(c), NEW u \in Urls, NEW r \in Requests, NEW v \in Versions
    PROVE  LET d == NewEntry(c, u, r, v) IN
           /\ TableOK(d) /\ Has(d, u) /\ Elsewhere(c, d, u)
           /\ d.name = c.name /\ d.content = c.content
           /\ LockedOut(c, u, r) => d = c
           /\ ~LockedOut(c, u, r) => d.entry[u].lock = r /\ d.entry[u].version = v
           /\ Has(c, u) => d.entry[u].size = c.entry[u].size /\ d.entry[u].range = c.entry[u].range
           /\ ~Has(c, u) => d.entry[u].size = 0 /\ ~d.entry[u].range
<1>1. /\ c \in CacheRec /\ EntryType(c) /\ c.content \in Int
      /\ Has(c, u) => c.entry[u] \in Entry
  BY HasEntry DEF TableOK
<1>2. CASE LockedOut(c, u, r)
  <2>1. Has(c, u) /\ NewEntry(c, u, r, v) = c
    BY <1>2 DEF LockedOut, NewEntry
  <2> QED BY <1>2, <2>1 DEF Elsewhere
<1>3. CASE Has(c, u) /\ ~LockedOut(c, u, r)
  <2> DEFINE d == NewEntry(c, u, r, v)
  <2>1. d = Overwritten(c, u, r, v)
    BY <1>3 DEF NewEntry, Overwritten
  <2>2. /\ Updated(c, d, u) /\ d.name[u] = c.name[u] /\ d.content = c.content
        /\ EntryIs(d.entry[u], v, TRUE, c.entry[u].range, c.entry[u].size, c.entry[u].hits, r)
    BY <1>1, <1>3, <2>1, OverwriteFacts
  <2>3. d.name = c.name
    BY <1>1, <2>1 DEF CacheRec, Overwritten
  <2>4. /\ d.entry[u].lock = r /\ d.entry[u].version = v
        /\ d.entry[u].size = c.entry[u].size /\ d.entry[u].range = c.entry[u].range
    BY <2>2 DEF EntryIs
  <2> HIDE DEF d
  <2>5. c.entry[u].size \in Nat /\ (c.name[u] # NoFile => c.name[u][1] = u)
    BY <1>1, <1>3 DEF Entry, TableOK, NamesOK
  <2>6. TableOK(d) /\ Has(d, u)
    BY <1>1, <1>3, <2>2, <2>4, <2>5, UpdatedOK
  <2>7. Elsewhere(c, d, u)
    BY <2>2 DEF Updated, Elsewhere
  <2> QED BY <1>3, <2>2, <2>3, <2>4, <2>6, <2>7 DEF d
<1>4. CASE ~Has(c, u)
  <2> DEFINE d == NewEntry(c, u, r, v)
             b == Bucket[u]
             e == [version |-> v, fresh |-> TRUE, range |-> FALSE, size |-> 0, hits |-> 0, lock |-> r]
  <2>1. d = [c EXCEPT !.chain[b] = <<u>> \o @, !.entry[u] = e]
    BY <1>4 DEF NewEntry
  <2>2. e \in Entry /\ e.lock = r /\ e.version = v /\ e.size = 0 /\ ~e.range /\ e # NoEntry
    <3>1. e \in Entry
      BY DEF Entry
    <3> QED BY <3>1, CacheAssumption
  <2>3. b \in Range(Buckets)
    BY CacheAssumption
  <2> HIDE DEF d, e, b
  <2>4. /\ c.chain \in [Range(Buckets) -> Seq(Urls)] /\ c.entry \in [Urls -> Entry \cup {NoEntry}]
        /\ c.name \in [Urls -> Files \cup {NoFile}]
    BY <1>1 DEF CacheRec
  <2>5. DOMAIN c = {"chain", "entry", "name", "content"}
    BY <1>1 DEF CacheRec
  <2>6. d = [x \in DOMAIN c |-> d[x]]
    BY <2>1, <2>5
  <2>7. /\ d.chain = [c.chain EXCEPT ![b] = <<u>> \o c.chain[b]]
        /\ d.entry = [c.entry EXCEPT ![u] = e]
        /\ d.name = c.name /\ d.content = c.content
    BY <2>1, <2>5
  <2>8. IsInjective(c.chain[b]) /\ c.chain[b] \in Seq(Urls) /\ u \notin Range(c.chain[b])
    BY <1>4, <2>3, <2>4 DEF TableOK, ChainsOK, Has
  <2>9. /\ <<u>> \o c.chain[b] \in Seq(Urls) /\ IsInjective(<<u>> \o c.chain[b])
        /\ Range(<<u>> \o c.chain[b]) = Range(c.chain[b]) \cup {u}
    BY <2>8, PrependFacts
  <2>10. d \in CacheRec
    <3>1. d = [chain |-> d.chain, entry |-> d.entry, name |-> d.name, content |-> d.content]
      BY <2>5, <2>6
    <3>2. d.chain \in [Range(Buckets) -> Seq(Urls)] /\ d.entry \in [Urls -> Entry \cup {NoEntry}]
      BY <2>2, <2>4, <2>7, <2>9
    <3> QED BY <1>1, <2>4, <2>7, <3>1, <3>2 DEF CacheRec
  <2>11. /\ d.entry[u] = e /\ Has(d, u)
         /\ \A w \in Urls : w # u => d.entry[w] = c.entry[w]
    BY <2>2, <2>4, <2>7 DEF Has
  <2>12. ChainsOK(d)
    <3> SUFFICES ASSUME NEW a \in Range(Buckets)
                 PROVE  /\ IsInjective(d.chain[a])
                        /\ Range(d.chain[a]) = {w \in Urls : Bucket[w] = a /\ d.entry[w] # NoEntry}
      BY DEF ChainsOK
    <3>1. /\ IsInjective(c.chain[a])
          /\ Range(c.chain[a]) = {w \in Urls : Bucket[w] = a /\ c.entry[w] # NoEntry}
      BY DEF TableOK, ChainsOK
    <3>2. CASE a = b
      <4>1. d.chain[a] = <<u>> \o c.chain[b]
        BY <2>3, <2>4, <2>7, <3>2
      <4>2. {w \in Urls : Bucket[w] = b /\ d.entry[w] # NoEntry}
               = {w \in Urls : Bucket[w] = b /\ c.entry[w] # NoEntry} \cup {u}
        BY <2>11 DEF b, Has
      <4> QED BY <2>9, <3>1, <3>2, <4>1, <4>2
    <3>3. CASE a # b
      <4>1. d.chain[a] = c.chain[a]
        BY <2>4, <2>7, <3>3
      <4>2. {w \in Urls : Bucket[w] = a /\ d.entry[w] # NoEntry}
               = {w \in Urls : Bucket[w] = a /\ c.entry[w] # NoEntry}
        BY <2>11, <3>3 DEF b
      <4> QED BY <3>1, <4>1, <4>2
    <3> QED BY <3>2, <3>3
  <2>13. NamesOK(d)
    BY <2>7, <2>11 DEF TableOK, NamesOK, Has
  <2>14. d.content >= SumSizes(d)
    <3>1. EntryType(d)
      BY <2>10, HasEntry
    <3>2. \A w \in Urls : SizeOf(d, w) = SizeOf(c, w)
      <4>1. SizeOf(d, u) = 0 /\ SizeOf(c, u) = 0
        BY <1>4, <2>2, <2>11 DEF SizeOf
      <4> QED BY <2>11, <4>1 DEF SizeOf, Has
    <3>3. SumSizes(d) = SumSizes(c)
      BY <1>1, <3>1, <3>2, SumSame
    <3> QED BY <2>7, <3>3 DEF TableOK
  <2>15. TableOK(d) /\ Elsewhere(c, d, u)
    BY <2>7, <2>10, <2>11, <2>12, <2>13, <2>14 DEF TableOK, Elsewhere
  <2>16. ~LockedOut(c, u, r)
    BY <1>4 DEF LockedOut
  <2> QED BY <1>4, <2>2, <2>7, <2>11, <2>15, <2>16 DEF d
<1> QED BY <1>2, <1>3, <1>4 DEF LockedOut

\* delete_object takes one entry out of the table, with its size and its files.
LEMMA DeleteFacts ==
    ASSUME NEW c, TableOK(c), NEW u \in Urls, Has(c, u)
    PROVE  LET d == DeleteObject(c, u) IN
           /\ TableOK(d) /\ ~Has(d, u) /\ Elsewhere(c, d, u) /\ d.name[u] = NoFile
           /\ c.content \in Int /\ d.content \in Int /\ d.content <= c.content
<1> DEFINE d == DeleteObject(c, u)
           b == Bucket[u]
<1>1. /\ c \in CacheRec /\ EntryType(c) /\ c.content \in Int
      /\ c.entry[u] \in Entry /\ c.entry[u].size \in Nat
  <2>1. c \in CacheRec /\ EntryType(c) /\ c.content \in Int /\ c.entry[u] \in Entry
    BY HasEntry DEF TableOK
  <2> QED BY <2>1 DEF Entry
<1>2. b \in Range(Buckets)
  BY CacheAssumption
<1>3. d = [c EXCEPT !.chain[b] = RemoveFirst(@, u), !.entry[u] = NoEntry,
                    !.name[u] = NoFile, !.content = @ - c.entry[u].size]
  BY DEF DeleteObject
<1> HIDE DEF d, b
<1>4. /\ c.chain \in [Range(Buckets) -> Seq(Urls)] /\ c.entry \in [Urls -> Entry \cup {NoEntry}]
      /\ c.name \in [Urls -> Files \cup {NoFile}]
      /\ DOMAIN c = {"chain", "entry", "name", "content"}
  BY <1>1 DEF CacheRec
<1>5. d = [x \in DOMAIN c |-> d[x]]
  BY <1>3, <1>4
<1>6. /\ d.chain = [c.chain EXCEPT ![b] = RemoveFirst(c.chain[b], u)]
      /\ d.entry = [c.entry EXCEPT ![u] = NoEntry]
      /\ d.name = [c.name EXCEPT ![u] = NoFile]
      /\ d.content = c.content - c.entry[u].size
  BY <1>3, <1>4
<1>7. /\ IsInjective(c.chain[b]) /\ c.chain[b] \in Seq(Urls)
      /\ Range(c.chain[b]) = {w \in Urls : Bucket[w] = b /\ c.entry[w] # NoEntry}
  BY <1>2, <1>4 DEF TableOK, ChainsOK
<1>8. u \in Range(c.chain[b])
  BY <1>7 DEF Has, b
<1> DEFINE p == RemoveFirst(c.chain[b], u)
<1>9. p \in Seq(Urls) /\ IsInjective(p) /\ Range(p) = Range(c.chain[b]) \ {u}
  BY <1>7, <1>8, RemoveFirstFacts
<1> HIDE DEF p
<1>10. d \in CacheRec
  <2>1. d = [chain |-> d.chain, entry |-> d.entry, name |-> d.name, content |-> d.content]
    BY <1>4, <1>5
  <2>2. /\ d.chain \in [Range(Buckets) -> Seq(Urls)] /\ d.entry \in [Urls -> Entry \cup {NoEntry}]
        /\ d.name \in [Urls -> Files \cup {NoFile}] /\ d.content \in Int
    <3>1. d.chain \in [Range(Buckets) -> Seq(Urls)]
      <4>1. d.chain = [c.chain EXCEPT ![b] = p]
        BY <1>6 DEF p
      <4> QED BY <1>4, <1>9, <4>1
    <3>2. d.entry \in [Urls -> Entry \cup {NoEntry}]
      BY <1>4, <1>6
    <3>3. d.name \in [Urls -> Files \cup {NoFile}]
      BY <1>4, <1>6
    <3>4. d.content \in Int
      BY <1>1, <1>6
    <3> QED BY <3>1, <3>2, <3>3, <3>4
  <2> QED BY <2>1, <2>2 DEF CacheRec
<1>11. /\ d.entry[u] = NoEntry /\ d.name[u] = NoFile /\ ~Has(d, u)
       /\ \A w \in Urls : w # u => d.entry[w] = c.entry[w] /\ d.name[w] = c.name[w]
  BY <1>4, <1>6 DEF Has
<1>12. ChainsOK(d)
  <2> SUFFICES ASSUME NEW a \in Range(Buckets)
               PROVE  /\ IsInjective(d.chain[a])
                      /\ Range(d.chain[a]) = {w \in Urls : Bucket[w] = a /\ d.entry[w] # NoEntry}
    BY DEF ChainsOK
  <2>1. /\ IsInjective(c.chain[a])
        /\ Range(c.chain[a]) = {w \in Urls : Bucket[w] = a /\ c.entry[w] # NoEntry}
    BY DEF TableOK, ChainsOK
  <2>2. CASE a = b
    <3>1. d.chain[a] = p
      BY <1>2, <1>4, <1>6, <2>2 DEF p
    <3>2. {w \in Urls : Bucket[w] = b /\ d.entry[w] # NoEntry}
             = {w \in Urls : Bucket[w] = b /\ c.entry[w] # NoEntry} \ {u}
      BY <1>11
    <3> QED BY <1>9, <2>1, <2>2, <3>1, <3>2
  <2>3. CASE a # b
    <3>1. d.chain[a] = c.chain[a]
      BY <1>4, <1>6, <2>3
    <3>2. {w \in Urls : Bucket[w] = a /\ d.entry[w] # NoEntry}
             = {w \in Urls : Bucket[w] = a /\ c.entry[w] # NoEntry}
      BY <1>11, <2>3 DEF b
    <3> QED BY <2>1, <3>1, <3>2
  <2> QED BY <2>2, <2>3
<1>13. NamesOK(d)
  BY <1>11 DEF TableOK, NamesOK, Has
<1>14. d.content >= SumSizes(d)
  <2>1. EntryType(d)
    BY <1>10, HasEntry
  <2>2. \A w \in Urls \ {u} : SizeOf(d, w) = SizeOf(c, w)
    BY <1>11 DEF SizeOf, Has
  <2>3. SizeOf(d, u) = 0 /\ SizeOf(c, u) = c.entry[u].size
    BY <1>11 DEF SizeOf
  <2>4. /\ SumSizes(c) \in Nat /\ SumSizes(d) \in Nat
        /\ SumSizes(d) = SumSizes(c) - SizeOf(c, u) + SizeOf(d, u)
    BY <1>1, <2>1, <2>2, SumChange
  <2>5. c.content >= SumSizes(c)
    BY DEF TableOK
  <2> QED BY <1>1, <1>6, <2>3, <2>4, <2>5
<1>15. d.content \in Int /\ d.content <= c.content
  BY <1>1, <1>6
<1> QED BY <1>1, <1>10, <1>11, <1>12, <1>13, <1>14, <1>15 DEF TableOK, Elsewhere, d

\* The collector took the entry of u.
Freed(c, d, u) == Has(c, u) /\ ~HasLock(c, u) /\ ~Has(d, u)

\* What the collector may do to a table.
Shrunk(c, d) ==
    /\ TableOK(d) /\ d.content <= c.content
    /\ \A u \in Urls : Freed(c, d, u) \/ (d.entry[u] = c.entry[u] /\ d.name[u] = c.name[u])

LEMMA ShrunkItself ==
    ASSUME NEW c, TableOK(c)
    PROVE  Shrunk(c, c) /\ \A u \in Urls : ~Freed(c, c, u)
<1>1. c.content \in Int
  BY HasEntry, CacheAssumption DEF TableOK
<1> QED BY <1>1 DEF Shrunk, Freed

LEMMA ShrunkTwice ==
    ASSUME NEW c, TableOK(c), NEW d, Shrunk(c, d), NEW e, Shrunk(d, e)
    PROVE  /\ Shrunk(c, e)
           /\ \A u \in Urls : Freed(c, e, u) <=> Freed(c, d, u) \/ Freed(d, e, u)
           /\ \A u \in Urls : Has(e, u) => Has(d, u) /\ e.entry[u] = d.entry[u]
           /\ \A u \in Urls : Freed(d, e, u) => c.entry[u] = d.entry[u]
<1>1. c.content \in Int /\ d.content \in Int /\ e.content \in Int
  BY HasEntry, CacheAssumption DEF TableOK, Shrunk
<1>2. e.content <= c.content
  BY <1>1 DEF Shrunk
<1>3. ASSUME NEW u \in Urls
      PROVE  /\ Freed(c, e, u) \/ (e.entry[u] = c.entry[u] /\ e.name[u] = c.name[u])
             /\ Freed(c, e, u) <=> Freed(c, d, u) \/ Freed(d, e, u)
             /\ Has(e, u) => Has(d, u) /\ e.entry[u] = d.entry[u]
             /\ Freed(d, e, u) => c.entry[u] = d.entry[u]
  <2>1. Freed(c, d, u) \/ (d.entry[u] = c.entry[u] /\ d.name[u] = c.name[u])
    BY DEF Shrunk
  <2>2. Freed(d, e, u) \/ (e.entry[u] = d.entry[u] /\ e.name[u] = d.name[u])
    BY DEF Shrunk
  <2>3. CASE Freed(c, d, u)
    <3>1. ~Has(d, u) /\ c.entry[u] # NoEntry /\ ~HasLock(c, u)
      BY <2>3 DEF Freed, Has
    <3>2. e.entry[u] = d.entry[u] /\ ~Freed(d, e, u) /\ ~Has(e, u)
      BY <2>2, <3>1 DEF Freed, Has
    <3> QED BY <2>3, <3>1, <3>2 DEF Freed
  <2>4. CASE d.entry[u] = c.entry[u] /\ d.name[u] = c.name[u]
    BY <2>2, <2>4 DEF Freed, Has, HasLock
  <2> QED BY <2>1, <2>3, <2>4
<1> QED BY <1>2, <1>3 DEF Shrunk

LEMMA RemoveFacts ==
    ASSUME NEW c, TableOK(c), NEW u \in Urls, Has(c, u)
    PROVE  LET d == RemoveEntry(c, u) IN
           /\ Shrunk(c, d)
           /\ \A w \in Urls \ {u} : d.entry[w] = c.entry[w]
           /\ Has(d, u) => d = c /\ HasLock(d, u)
<1>1. CASE HasLock(c, u)
  <2>1. RemoveEntry(c, u) = c
    BY <1>1 DEF RemoveEntry
  <2> QED BY <1>1, <2>1, ShrunkItself
<1>2. CASE ~HasLock(c, u)
  <2>1. RemoveEntry(c, u) = DeleteObject(c, u)
    BY <1>2 DEF RemoveEntry
  <2> DEFINE d == DeleteObject(c, u)
  <2>2. /\ TableOK(d) /\ ~Has(d, u) /\ Elsewhere(c, d, u) /\ d.name[u] = NoFile
        /\ d.content <= c.content
    BY DeleteFacts
  <2> HIDE DEF d
  <2>3. Freed(c, d, u)
    BY <1>2, <2>2 DEF Freed
  <2> QED BY <2>1, <2>2, <2>3 DEF Shrunk, Elsewhere, d
<1> QED BY <1>1, <1>2

\* One list of the table is collected: what has been done to the positions in s.
ListStep(a, u, round) ==
    IF a.stop THEN a
    ELSE LET d == IF Doomed(a.c.entry[u], round) THEN RemoveEntry(a.c, u) ELSE a.c
         IN [c |-> d, stop |-> StopGC(d)]

\* What is left has a lock or is not up to the round.
Spared(d, u, round) == HasLock(d, u) \/ ~Doomed(d.entry[u], round)

ListDone(c, list, round, s, a) ==
    /\ Shrunk(c, a.c)
    /\ \A u \in Urls : Freed(c, a.c, u) => Doomed(c.entry[u], round)
    /\ \A i \in DOMAIN list \ s : Has(a.c, list[i])
    /\ a.stop => StopGC(a.c)
    /\ ~a.stop => \A i \in s : Has(a.c, list[i]) => Spared(a.c, list[i], round)

ListAcc == [c : CacheRec, stop : BOOLEAN]

LEMMA ListStepFacts ==
    ASSUME NEW c, TableOK(c), NEW b \in Range(Buckets), NEW round,
           NEW list, list = c.chain[b],
           NEW s \in SUBSET (DOMAIN list), NEW x \in s,
           NEW a \in ListAcc, ListDone(c, list, round, s \ {x}, a),
           NEW z, z = ListStep(a, list[x], round)
    PROVE  z \in ListAcc /\ ListDone(c, list, round, s, z)
<1>1. \A i \in DOMAIN list : list[i] \in Urls
  <2>1. c.chain[b] \in Seq(Urls)
    BY DEF TableOK, CacheRec
  <2> QED BY <2>1, ElementOfSeq, LenProperties
<1>2. \A i, j \in DOMAIN list : list[i] = list[j] => i = j
  BY DEF TableOK, ChainsOK, IsInjective
<1>3. CASE a.stop
  <2>1. z = a
    BY <1>3 DEF ListStep
  <2> QED BY <1>3, <2>1 DEF ListDone
<1>4. CASE ~a.stop
  <2> DEFINE u == list[x]
             d == IF Doomed(a.c.entry[u], round) THEN RemoveEntry(a.c, u) ELSE a.c
  <2>1. z = [c |-> d, stop |-> StopGC(d)]
    BY <1>4 DEF ListStep
  <2>2. u \in Urls /\ Has(a.c, u) /\ TableOK(a.c) /\ Shrunk(c, a.c)
    BY <1>1 DEF ListDone, Shrunk
  <2>3. /\ Shrunk(a.c, d)
        /\ \A w \in Urls \ {u} : d.entry[w] = a.c.entry[w]
        /\ Has(d, u) => Spared(d, u, round)
        /\ Freed(a.c, d, u) => Doomed(a.c.entry[u], round)
    <3>1. CASE Doomed(a.c.entry[u], round)
      <4> DEFINE e == RemoveEntry(a.c, u)
      <4>1. /\ Shrunk(a.c, e)
            /\ \A w \in Urls \ {u} : e.entry[w] = a.c.entry[w]
            /\ Has(e, u) => e = a.c /\ HasLock(e, u)
        BY <2>2, RemoveFacts
      <4>2. d = e
        BY <3>1
      <4> HIDE DEF d, e
      <4> QED BY <3>1, <4>1, <4>2 DEF Spared
    <3>2. CASE ~Doomed(a.c.entry[u], round)
      <4>1. d = a.c
        BY <3>2
      <4> HIDE DEF d
      <4> QED BY <2>2, <3>2, <4>1, ShrunkItself DEF Spared
    <3> QED BY <3>1, <3>2
  <2> HIDE DEF d, u
  <2>4. /\ Shrunk(c, d)
        /\ \A w \in Urls : Freed(c, d, w) <=> Freed(c, a.c, w) \/ Freed(a.c, d, w)
        /\ \A w \in Urls : Freed(a.c, d, w) => c.entry[w] = a.c.entry[w]
    BY <2>2, <2>3, ShrunkTwice
  <2>5. d \in CacheRec /\ StopGC(d) \in BOOLEAN
    BY <2>4 DEF Shrunk, TableOK, StopGC
  <2>6. z \in ListAcc /\ z.c = d /\ z.stop = StopGC(d)
    BY <2>1, <2>5 DEF ListAcc
  <2>7. \A w \in Urls : Freed(c, d, w) => Doomed(c.entry[w], round)
    <3> TAKE w \in Urls
    <3> HAVE Freed(c, d, w)
    <3>1. CASE Freed(c, a.c, w)
      BY <3>1 DEF ListDone
    <3>2. CASE Freed(a.c, d, w)
      <4>1. w = u
        BY <2>3, <3>2 DEF Freed, Has
      <4> QED BY <2>3, <2>4, <3>2, <4>1
    <3> QED BY <2>4, <3>1, <3>2
  <2>8. \A i \in DOMAIN list : i # x => list[i] \in Urls \ {u}
    BY <1>1, <1>2 DEF u
  <2>9. \A i \in DOMAIN list \ s : Has(d, list[i])
    <3> TAKE i \in DOMAIN list \ s
    <3>1. Has(a.c, list[i]) /\ d.entry[list[i]] = a.c.entry[list[i]]
      BY <2>3, <2>8 DEF ListDone
    <3> QED BY <3>1 DEF Has
  <2>10. \A i \in s : Has(d, list[i]) => Spared(d, list[i], round)
    <3> TAKE i \in s
    <3> HAVE Has(d, list[i])
    <3>1. CASE i = x
      BY <2>3, <3>1 DEF u
    <3>2. CASE i # x
      <4>1. i \in s \ {x} /\ d.entry[list[i]] = a.c.entry[list[i]]
        BY <2>3, <2>8, <3>2
      <4>2. Has(a.c, list[i]) => Spared(a.c, list[i], round)
        BY <1>4, <4>1 DEF ListDone
      <4> QED BY <4>1, <4>2 DEF Has, Spared, HasLock
    <3> QED BY <3>1, <3>2
  <2> QED BY <2>4, <2>6, <2>7, <2>9, <2>10 DEF ListDone
<1> QED BY <1>3, <1>4

LEMMA ListFacts ==
    ASSUME NEW c, TableOK(c), NEW b \in Range(Buckets), NEW round
    PROVE  LET d == CollectList(c, c.chain[b], round) IN
           /\ Shrunk(c, d)
           /\ \A u \in Urls : Freed(c, d, u) => Doomed(c.entry[u], round)
           /\ StopGC(d) \/ \A u \in Urls : Bucket[u] = b /\ Has(d, u) => Spared(d, u, round)
<1> DEFINE list == c.chain[b]
           D == DOMAIN list
           base == [c |-> c, stop |-> FALSE]
           Fold(it) == [s \in SUBSET D |->
                           IF s = {} THEN base ELSE ListStep(it[s \ {Max(s)}], list[Max(s)], round)]
           pick == [s \in SUBSET D |-> Max(s)]
           f == [p \in ListAcc \X D |-> ListStep(p[1], list[p[2]], round)]
           A == [s \in SUBSET D |-> {a \in ListAcc : ListDone(c, list, round, s, a)}]
<1>1. /\ list \in Seq(Urls) /\ Range(list) = {u \in Urls : Bucket[u] = b /\ Has(c, u)}
      /\ c \in CacheRec
  BY DEF TableOK, CacheRec, ChainsOK, Has
<1>2. IsFiniteSet(D) /\ D = 1..Len(list) /\ Len(list) \in Nat
  <2>1. D = 1..Len(list) /\ Len(list) \in Nat
    BY <1>1, LenProperties
  <2> QED BY <2>1, FS_Interval
<1>3. \A s \in SUBSET D : s # {} => pick[s] = Max(s) /\ Max(s) \in s /\ pick[s] \in s
  BY <1>2, MaxFacts
<1>4. base \in A[{}]
  <2>1. base \in ListAcc /\ base.c = c /\ ~base.stop
    BY <1>1 DEF ListAcc
  <2> HIDE DEF base
  <2>2. \A i \in D : Has(c, list[i])
    BY <1>1 DEF Range
  <2>3. ListDone(c, list, round, {}, base)
    BY <2>1, <2>2, ShrunkItself DEF ListDone
  <2> QED BY <2>1, <2>3
<1> HIDE DEF base
<1>5. ASSUME NEW s \in SUBSET D, s # {}, NEW a \in A[s \ {Max(s)}]
      PROVE  ListStep(a, list[Max(s)], round) \in A[s]
  <2>1. Max(s) \in s /\ s \ {Max(s)} \in SUBSET D
    BY <1>3, <1>5
  <2>2. a \in ListAcc /\ ListDone(c, list, round, s \ {Max(s)}, a)
    BY <1>5, <2>1
  <2> DEFINE z == ListStep(a, list[Max(s)], round)
  <2>3. z \in ListAcc /\ ListDone(c, list, round, s, z)
    <3> HIDE DEF z
    <3>1. z = ListStep(a, list[Max(s)], round)
      BY DEF z
    <3> QED BY <2>1, <2>2, <3>1, ListStepFacts
  <2> HIDE DEF z
  <2>4. z \in A[s]
    BY <2>3
  <2> QED BY <2>4 DEF z
<1>6. \A s \in SUBSET D : A[s] \subseteq ListAcc
  OBVIOUS
<1>7. \A s \in SUBSET D :
         s # {} => \A a \in A[s \ {pick[s]}] :
                      /\ f[<<a, pick[s]>>] = ListStep(a, list[Max(s)], round)
                      /\ f[<<a, pick[s]>>] \in A[s]
  <2> TAKE s \in SUBSET D
  <2> HAVE s # {}
  <2> TAKE a \in A[s \ {pick[s]}]
  <2>1. pick[s] = Max(s) /\ Max(s) \in D /\ s \ {pick[s]} \in SUBSET D
    BY <1>3
  <2>2. a \in ListAcc
    BY <1>6, <2>1
  <2>3. f[<<a, pick[s]>>] = ListStep(a, list[Max(s)], round)
    BY <2>1, <2>2
  <2> QED BY <1>5, <2>1, <2>3
<1> DEFINE it == FoldOf(D, pick, f, base)
<1>8. /\ it \in [SUBSET D -> ListAcc]
      /\ it[{}] = base
      /\ \A s \in SUBSET D : s # {} => it[s] = f[<<it[s \ {pick[s]}], pick[s]>>]
      /\ \A s \in SUBSET D : it[s] \in A[s]
  <2>1. \A s \in SUBSET D : s # {} => pick[s] \in s
    BY <1>3
  <2>2. \A s \in SUBSET D : s # {} => \A a \in A[s \ {pick[s]}] : f[<<a, pick[s]>>] \in A[s]
    BY <1>7
  <2>3. IsFiniteSet(D)
    BY <1>2
  <2> HIDE DEF A, pick, f, D, list
  <2> QED BY <1>4, <1>6, <2>1, <2>2, <2>3, FoldExists
<1> HIDE DEF it, f
<1>9. it = Fold(it)
  <2> DEFINE Step(s) == IF s = {} THEN base ELSE ListStep(it[s \ {Max(s)}], list[Max(s)], round)
  <2>1. it = [s \in SUBSET D |-> it[s]]
    BY <1>8
  <2>2. \A s \in SUBSET D : it[s] = Step(s)
    <3> TAKE s \in SUBSET D
    <3>1. CASE s = {}
      BY <1>8, <3>1
    <3>2. CASE s # {}
      <4>1. s \ {pick[s]} \in SUBSET D /\ pick[s] = Max(s)
        BY <1>3, <3>2
      <4>2. it[s \ {pick[s]}] \in A[s \ {pick[s]}] /\ it[s] = f[<<it[s \ {pick[s]}], pick[s]>>]
        BY <1>8, <3>2, <4>1
      <4> QED BY <1>7, <3>2, <4>1, <4>2
    <3> QED BY <3>1, <3>2
  <2> HIDE DEF Step
  <2>3. it = [s \in SUBSET D |-> Step(s)]
    BY <2>1, <2>2, Zenon
  <2> QED BY <2>3 DEF Step
<1> DEFINE jt == CHOOSE jt : jt = Fold(jt)
<1>10. jt = Fold(jt)
  BY <1>9
<1>11. CollectList(c, list, round) = jt[D].c
  BY DEF CollectList, FoldLeft, MapThenFoldSet, ListStep, base
<1> HIDE DEF jt
<1>12. \A s \in SUBSET D : jt[s] \in A[s]
  <2>1. jt[{}] \in A[{}]
    BY <1>4, <1>10
  <2>2. \A s \in SUBSET D : s # {} /\ jt[s \ {pick[s]}] \in A[s \ {pick[s]}] => jt[s] \in A[s]
    <3> TAKE s \in SUBSET D
    <3> HAVE s # {} /\ jt[s \ {pick[s]}] \in A[s \ {pick[s]}]
    <3>1. pick[s] = Max(s)
      BY <1>3
    <3>2. jt[s] = ListStep(jt[s \ {Max(s)}], list[Max(s)], round)
      BY <1>10
    <3> QED BY <1>5, <3>1, <3>2
  <2>3. \A s \in SUBSET D : s # {} => pick[s] \in s
    BY <1>3
  <2> HIDE DEF A, Fold, pick, D
  <2> QED BY <1>2, <2>1, <2>2, <2>3, FoldInduction
<1> DEFINE a == jt[D]
<1>13. a \in ListAcc /\ ListDone(c, list, round, D, a)
  BY <1>12
<1>14. CollectList(c, c.chain[b], round) = a.c
  BY <1>11
<1> HIDE DEF a
<1>15. StopGC(a.c) \/ \A u \in Urls : Bucket[u] = b /\ Has(a.c, u) => Spared(a.c, u, round)
  <2>1. CASE a.stop
    BY <1>13, <2>1 DEF ListDone
  <2>2. CASE ~a.stop
    <3> SUFFICES ASSUME NEW u \in Urls, Bucket[u] = b, Has(a.c, u) PROVE Spared(a.c, u, round)
      OBVIOUS
    <3>1. Has(c, u)
      BY <1>13 DEF ListDone, Shrunk, Freed, Has
    <3>2. PICK i \in D : list[i] = u
      BY <1>1, <3>1 DEF Range
    <3> QED BY <1>13, <2>2, <3>2 DEF ListDone
  <2> QED BY <2>1, <2>2
<1> QED BY <1>13, <1>14, <1>15 DEF ListDone

LEMMA RoomLeft ==
    ASSUME NEW c, TableOK(c), NEW d, Shrunk(c, d)
    PROVE  /\ StopGC(c) => StopGC(d)
           /\ StopGC(c) => ~StartGC(c)
           /\ StartGC(c) \in BOOLEAN
<1>1. /\ c.content \in Int /\ d.content \in Int /\ d.content <= c.content
      /\ Folder \in Nat /\ Total \in Nat /\ Buffer \in Nat
  BY HasEntry, CacheAssumption DEF TableOK, Shrunk
<1> QED BY <1>1 DEF StopGC, StartGC

\* The table is collected: what has been done to the lists in s.
Cleared(d, u, round) == Has(d, u) => Spared(d, u, round)

TableDone(c, round, s, d) ==
    /\ Shrunk(c, d)
    /\ \A u \in Urls : Freed(c, d, u) => Doomed(c.entry[u], round)
    /\ StopGC(d) \/ \A i \in s : \A u \in Urls : Bucket[u] = Buckets[i] => Cleared(d, u, round)

TableStep(d, b, round) == CollectList(d, d.chain[b], round)

LEMMA TableStepFacts ==
    ASSUME NEW c, TableOK(c), NEW round, NEW s \in SUBSET (DOMAIN Buckets), NEW x \in s,
           NEW d, TableDone(c, round, s \ {x}, d),
           NEW e, e = TableStep(d, Buckets[x], round)
    PROVE  e \in CacheRec /\ TableDone(c, round, s, e)
<1>1. TableOK(d) /\ Shrunk(c, d) /\ Buckets[x] \in Range(Buckets)
  BY DEF TableDone, Shrunk, Range
<1>2. /\ Shrunk(d, e)
      /\ \A u \in Urls : Freed(d, e, u) => Doomed(d.entry[u], round)
      /\ StopGC(e) \/ \A u \in Urls : Bucket[u] = Buckets[x] /\ Has(e, u) => Spared(e, u, round)
  BY <1>1, ListFacts DEF TableStep
<1>3. /\ Shrunk(c, e)
      /\ \A u \in Urls : Freed(c, e, u) <=> Freed(c, d, u) \/ Freed(d, e, u)
      /\ \A u \in Urls : Has(e, u) => Has(d, u) /\ e.entry[u] = d.entry[u]
      /\ \A u \in Urls : Freed(d, e, u) => c.entry[u] = d.entry[u]
  BY <1>1, <1>2, ShrunkTwice
<1>4. \A u \in Urls : Freed(c, e, u) => Doomed(c.entry[u], round)
  BY <1>2, <1>3 DEF TableDone
<1>5. StopGC(e) \/ \A i \in s : \A u \in Urls : Bucket[u] = Buckets[i] => Cleared(e, u, round)
  <2> SUFFICES ASSUME ~StopGC(e), NEW i \in s, NEW u \in Urls, Bucket[u] = Buckets[i], Has(e, u)
               PROVE  Spared(e, u, round)
    BY DEF Cleared
  <2>1. CASE i = x
    BY <1>2, <2>1
  <2>2. CASE i # x
    <3>1. ~StopGC(d)
      BY <1>1, <1>2, RoomLeft
    <3>2. Has(d, u) /\ e.entry[u] = d.entry[u]
      BY <1>3
    <3>3. Spared(d, u, round)
      BY <2>2, <3>1, <3>2 DEF TableDone, Cleared
    <3> QED BY <3>2, <3>3 DEF Spared, HasLock
  <2> QED BY <2>1, <2>2
<1> QED BY <1>3, <1>4, <1>5 DEF TableDone, Shrunk, TableOK

LEMMA TableFacts ==
    ASSUME NEW c, TableOK(c), NEW round
    PROVE  LET d == CollectTable(c, round) IN
           /\ Shrunk(c, d)
           /\ \A u \in Urls : Freed(c, d, u) => Doomed(c.entry[u], round)
           /\ StopGC(d) \/ \A u \in Urls : Cleared(d, u, round)
<1> DEFINE D == DOMAIN Buckets
           Fold(it) == [s \in SUBSET D |->
                           IF s = {} THEN c ELSE TableStep(it[s \ {Max(s)}], Buckets[Max(s)], round)]
           pick == [s \in SUBSET D |-> Max(s)]
           f == [p \in CacheRec \X D |-> TableStep(p[1], Buckets[p[2]], round)]
           A == [s \in SUBSET D |-> {d \in CacheRec : TableDone(c, round, s, d)}]
<1>1. IsFiniteSet(D) /\ D = 1..Len(Buckets) /\ Len(Buckets) \in Nat
  <2>1. Buckets \in Seq(Range(Buckets))
    BY CacheAssumption
  <2>2. D = 1..Len(Buckets) /\ Len(Buckets) \in Nat
    BY <2>1, LenProperties
  <2> QED BY <2>2, FS_Interval
<1>2. \A s \in SUBSET D : s # {} => pick[s] = Max(s) /\ Max(s) \in s /\ pick[s] \in s
  BY <1>1, MaxFacts
<1>3. c \in A[{}]
  <2>1. TableDone(c, round, {}, c)
    BY ShrunkItself DEF TableDone
  <2> QED BY <2>1 DEF TableOK
<1>4. ASSUME NEW s \in SUBSET D, s # {}, NEW a \in A[s \ {Max(s)}]
      PROVE  TableStep(a, Buckets[Max(s)], round) \in A[s]
  <2>1. Max(s) \in s /\ s \ {Max(s)} \in SUBSET D
    BY <1>2, <1>4
  <2>2. TableDone(c, round, s \ {Max(s)}, a)
    BY <1>4, <2>1
  <2> DEFINE z == TableStep(a, Buckets[Max(s)], round)
  <2>3. z \in CacheRec /\ TableDone(c, round, s, z)
    <3> HIDE DEF z
    <3>1. z = TableStep(a, Buckets[Max(s)], round)
      BY DEF z
    <3> QED BY <2>1, <2>2, <3>1, TableStepFacts
  <2> HIDE DEF z
  <2>4. z \in A[s]
    BY <2>3
  <2> QED BY <2>4 DEF z
<1>5. \A s \in SUBSET D : A[s] \subseteq CacheRec
  OBVIOUS
<1>6. \A s \in SUBSET D :
         s # {} => \A a \in A[s \ {pick[s]}] :
                      /\ f[<<a, pick[s]>>] = TableStep(a, Buckets[Max(s)], round)
                      /\ f[<<a, pick[s]>>] \in A[s]
  <2> TAKE s \in SUBSET D
  <2> HAVE s # {}
  <2> TAKE a \in A[s \ {pick[s]}]
  <2>1. pick[s] = Max(s) /\ Max(s) \in D /\ s \ {pick[s]} \in SUBSET D
    BY <1>2
  <2>2. a \in CacheRec
    BY <1>5, <2>1
  <2>3. f[<<a, pick[s]>>] = TableStep(a, Buckets[Max(s)], round)
    BY <2>1, <2>2
  <2> QED BY <1>4, <2>1, <2>3
<1> DEFINE it == FoldOf(D, pick, f, c)
<1>7. /\ it \in [SUBSET D -> CacheRec]
      /\ it[{}] = c
      /\ \A s \in SUBSET D : s # {} => it[s] = f[<<it[s \ {pick[s]}], pick[s]>>]
      /\ \A s \in SUBSET D : it[s] \in A[s]
  <2>1. \A s \in SUBSET D : s # {} => pick[s] \in s
    BY <1>2
  <2>2. \A s \in SUBSET D : s # {} => \A a \in A[s \ {pick[s]}] : f[<<a, pick[s]>>] \in A[s]
    BY <1>6
  <2>3. IsFiniteSet(D)
    BY <1>1
  <2> HIDE DEF A, pick, f, D
  <2> QED BY <1>3, <1>5, <2>1, <2>2, <2>3, FoldExists
<1> HIDE DEF it, f
<1>8. it = Fold(it)
  <2> DEFINE Step(s) == IF s = {} THEN c ELSE TableStep(it[s \ {Max(s)}], Buckets[Max(s)], round)
  <2>1. it = [s \in SUBSET D |-> it[s]]
    BY <1>7
  <2>2. \A s \in SUBSET D : it[s] = Step(s)
    <3> TAKE s \in SUBSET D
    <3>1. CASE s = {}
      BY <1>7, <3>1
    <3>2. CASE s # {}
      <4>1. s \ {pick[s]} \in SUBSET D /\ pick[s] = Max(s)
        BY <1>2, <3>2
      <4>2. it[s \ {pick[s]}] \in A[s \ {pick[s]}] /\ it[s] = f[<<it[s \ {pick[s]}], pick[s]>>]
        BY <1>7, <3>2, <4>1
      <4> QED BY <1>6, <3>2, <4>1, <4>2
    <3> QED BY <3>1, <3>2
  <2> HIDE DEF Step
  <2>3. it = [s \in SUBSET D |-> Step(s)]
    BY <2>1, <2>2, Zenon
  <2> QED BY <2>3 DEF Step
<1> DEFINE jt == CHOOSE jt : jt = Fold(jt)
<1>9. jt = Fold(jt)
  BY <1>8
<1>10. CollectTable(c, round) = jt[D]
  BY DEF CollectTable, FoldLeft, MapThenFoldSet, TableStep
<1> HIDE DEF jt
<1>11. \A s \in SUBSET D : jt[s] \in A[s]
  <2>1. jt[{}] \in A[{}]
    BY <1>3, <1>9
  <2>2. \A s \in SUBSET D : s # {} /\ jt[s \ {pick[s]}] \in A[s \ {pick[s]}] => jt[s] \in A[s]
    <3> TAKE s \in SUBSET D
    <3> HAVE s # {} /\ jt[s \ {pick[s]}] \in A[s \ {pick[s]}]
    <3>1. pick[s] = Max(s)
      BY <1>2
    <3>2. jt[s] = TableStep(jt[s \ {Max(s)}], Buckets[Max(s)], round)
      BY <1>9
    <3> QED BY <1>4, <3>1, <3>2
  <2>3. \A s \in SUBSET D : s # {} => pick[s] \in s
    BY <1>2
  <2>4. IsFiniteSet(D)
    BY <1>1
  <2> HIDE DEF A, Fold, pick, D
  <2> QED BY <2>1, <2>2, <2>3, <2>4, FoldInduction
<1> DEFINE d == jt[D]
<1>12. TableDone(c, round, D, d)
  BY <1>11
<1>13. CollectTable(c, round) = d
  BY <1>10
<1> HIDE DEF d
<1>14. StopGC(d) \/ \A u \in Urls : Cleared(d, u, round)
  <2> SUFFICES ASSUME NEW u \in Urls, ~StopGC(d) PROVE Cleared(d, u, round)
    OBVIOUS
  <2>1. PICK i \in D : Buckets[i] = Bucket[u]
    BY CacheAssumption DEF Range
  <2> QED BY <1>12, <2>1 DEF TableDone
<1> QED BY <1>12, <1>13, <1>14 DEF TableDone

\* The rounds for the entries with few hits: what the rounds in s have done.
LeastAcc == [c : CacheRec, removed : BOOLEAN]

LeastStep(a, hits) ==
    IF ~a.removed \/ ~StartGC(a.c) THEN a
    ELSE LET d == CollectTable(a.c, hits)
         IN [c |-> d, removed |-> d # a.c]

\* u went, and what is left has a lock or is as much used.
LeftMoreUsed(c, d, u) ==
    Freed(c, d, u) /\ c.entry[u].size <= MaxEntry
        => \A w \in Urls : Has(d, w) => HasLock(d, w) \/ d.entry[w].hits >= c.entry[u].hits

LeastDone(c, s, a) ==
    /\ Shrunk(c, a.c)
    /\ ~StartGC(c) => a.c = c
    /\ a.removed /\ StartGC(a.c) => \A i \in s : \A u \in Urls : Cleared(a.c, u, i - 1)
    /\ (\A i \in s : i = 1 \/ i - 1 \in s) => \A u \in Urls : LeftMoreUsed(c, a.c, u)

\* Rounds with n \in Nat are not for stale entries.
LEMMA HitRound ==
    ASSUME NEW e \in Entry, NEW n \in Nat
    PROVE  Doomed(e, n) <=> e.size > MaxEntry \/ e.hits <= n
<1>1. n # StaleRound
  BY DEF StaleRound
<1> QED BY <1>1 DEF Doomed

LEMMA LeastStepFacts ==
    ASSUME NEW c, TableOK(c), NEW s \in SUBSET (Nat \ {0}), NEW x \in s, \A i \in s : i <= x,
           NEW a \in LeastAcc, LeastDone(c, s \ {x}, a),
           NEW z, z = LeastStep(a, x - 1)
    PROVE  z \in LeastAcc /\ LeastDone(c, s, z)
<1>0. TableOK(a.c) /\ Shrunk(c, a.c) /\ x \in Nat /\ x # 0 /\ x - 1 \in Nat
  <2>1. Shrunk(c, a.c)
    BY DEF LeastDone
  <2>2. TableOK(a.c)
    BY <2>1 DEF Shrunk
  <2>3. x \in Nat /\ x # 0 /\ x - 1 \in Nat
    OBVIOUS
  <2> QED BY <2>1, <2>2, <2>3
<1>a. (\A i \in s : i = 1 \/ i - 1 \in s) => \A i \in s \ {x} : i = 1 \/ i - 1 \in s \ {x}
  <2> SUFFICES ASSUME \A i \in s : i = 1 \/ i - 1 \in s, NEW i \in s \ {x}, i # 1
               PROVE  i - 1 \in s \ {x}
    OBVIOUS
  <2>1. i \in Nat /\ x \in Nat /\ i <= x
    OBVIOUS
  <2> QED BY <2>1
<1>1. CASE ~a.removed \/ ~StartGC(a.c)
  <2>1. z = a
    BY <1>1 DEF LeastStep
  <2> QED BY <1>1, <1>a, <2>1 DEF LeastDone
<1>2. CASE a.removed /\ StartGC(a.c)
  <2> DEFINE d == CollectTable(a.c, x - 1)
  <2>1. z = [c |-> d, removed |-> d # a.c]
    BY <1>2 DEF LeastStep
  <2>2. /\ Shrunk(a.c, d)
        /\ \A u \in Urls : Freed(a.c, d, u) => Doomed(a.c.entry[u], x - 1)
        /\ StopGC(d) \/ \A u \in Urls : Cleared(d, u, x - 1)
    BY <1>0, TableFacts
  <2> HIDE DEF d
  <2>3. /\ Shrunk(c, d)
        /\ \A u \in Urls : Freed(c, d, u) <=> Freed(c, a.c, u) \/ Freed(a.c, d, u)
        /\ \A u \in Urls : Has(d, u) => Has(a.c, u) /\ d.entry[u] = a.c.entry[u]
        /\ \A u \in Urls : Freed(a.c, d, u) => c.entry[u] = a.c.entry[u]
    BY <1>0, <2>2, ShrunkTwice
  <2>4. z \in LeastAcc /\ z.c = d
    <3>1. d \in CacheRec
      BY <2>2 DEF Shrunk, TableOK
    <3> DEFINE other == d # a.c
    <3>2. other \in BOOLEAN
      OBVIOUS
    <3>3. z = [c |-> d, removed |-> other]
      BY <2>1
    <3> HIDE DEF other
    <3> QED BY <3>1, <3>2, <3>3 DEF LeastAcc
  <2>5. StartGC(c)
    BY <1>0, <1>2 DEF LeastDone
  <2>6. \A i \in s \ {x} : \A u \in Urls : Cleared(a.c, u, i - 1)
    BY <1>2 DEF LeastDone
  <2>7. StartGC(d) => \A i \in s : \A u \in Urls : Cleared(d, u, i - 1)
    <3> SUFFICES ASSUME StartGC(d), NEW i \in s, NEW u \in Urls, Has(d, u)
                 PROVE  Spared(d, u, i - 1)
      BY DEF Cleared
    <3>1. CASE i = x
      <4>1. ~StopGC(d)
        BY <2>2, ShrunkItself, RoomLeft DEF Shrunk
      <4> QED BY <2>2, <3>1, <4>1 DEF Cleared
    <3>2. CASE i # x
      <4>1. Has(a.c, u) /\ d.entry[u] = a.c.entry[u]
        BY <2>3
      <4>2. Spared(a.c, u, i - 1)
        BY <2>6, <3>2, <4>1 DEF Cleared
      <4> QED BY <4>1, <4>2 DEF Spared, HasLock
    <3> QED BY <3>1, <3>2
  <2>8. ASSUME \A i \in s : i = 1 \/ i - 1 \in s, NEW u \in Urls,
               Freed(c, d, u), c.entry[u].size <= MaxEntry,
               NEW w \in Urls, Has(d, w), ~HasLock(d, w)
        PROVE  d.entry[w].hits >= c.entry[u].hits
    <3>1. Has(a.c, w) /\ d.entry[w] = a.c.entry[w] /\ ~HasLock(a.c, w)
      BY <2>3, <2>8 DEF HasLock
    <3>2. CASE Freed(c, a.c, u)
      BY <1>a, <2>8, <3>1, <3>2 DEF LeastDone, LeftMoreUsed
    <3>3. CASE Freed(a.c, d, u)
      <4>1. a.c.entry[u] \in Entry /\ a.c.entry[w] \in Entry /\ c.entry[u] = a.c.entry[u]
        BY <1>0, <2>3, <3>1, <3>3, HasEntry DEF Freed, TableOK
      <4>2. Doomed(a.c.entry[u], x - 1)
        BY <2>2, <3>3
      <4>3. a.c.entry[u].hits \in Nat /\ a.c.entry[w].hits \in Nat /\ a.c.entry[u].size \in Nat
        BY <4>1 DEF Entry
      <4>4. a.c.entry[u].hits <= x - 1
        <5>1. a.c.entry[u].size <= MaxEntry /\ MaxEntry \in Nat
          BY <2>8, <4>1, CacheAssumption
        <5>2. a.c.entry[u].size > MaxEntry \/ a.c.entry[u].hits <= x - 1
          BY <1>0, <4>1, <4>2, HitRound
        <5> QED BY <4>3, <5>1, <5>2
      <4>5. CASE x = 1
        BY <1>0, <3>1, <4>1, <4>3, <4>4, <4>5
      <4>6. CASE x # 1
        <5>1. x - 1 \in s \ {x} /\ x - 2 \in Nat /\ (x - 1) - 1 = x - 2
          BY <1>0, <2>8, <4>6
        <5>2. Spared(a.c, w, x - 2)
          BY <2>6, <3>1, <5>1 DEF Cleared
        <5>3. ~(a.c.entry[w].hits <= x - 2)
          BY <3>1, <4>1, <5>1, <5>2, HitRound DEF Spared
        <5> QED BY <1>0, <3>1, <4>1, <4>3, <4>4, <5>3
      <4> QED BY <4>5, <4>6
    <3> QED BY <2>3, <2>8, <3>2, <3>3
  <2>9. (\A i \in s : i = 1 \/ i - 1 \in s) => \A u \in Urls : LeftMoreUsed(c, d, u)
    BY <2>8 DEF LeftMoreUsed
  <2> QED BY <2>3, <2>4, <2>5, <2>7, <2>9 DEF LeastDone
<1>3. a.removed \in BOOLEAN /\ StartGC(a.c) \in BOOLEAN
  BY <1>0, ShrunkItself, RoomLeft DEF LeastAcc
<1> QED BY <1>1, <1>2, <1>3

LEMMA LeastFacts ==
    ASSUME NEW c, TableOK(c)
    PROVE  LET d == CollectLeastUsed(c) IN
           /\ Shrunk(c, d)
           /\ ~StartGC(c) => d = c
           /\ \A u \in Urls : LeftMoreUsed(c, d, u)
<1> DEFINE list == [i \in 1..(MaxHits + 1) |-> i - 1]
           D == DOMAIN list
           base == [c |-> c, removed |-> TRUE]
           Fold(it) == [s \in SUBSET D |->
                           IF s = {} THEN base ELSE LeastStep(it[s \ {Max(s)}], list[Max(s)])]
           pick == [s \in SUBSET D |-> Max(s)]
           f == [p \in LeastAcc \X D |-> LeastStep(p[1], list[p[2]])]
           A == [s \in SUBSET D |-> {a \in LeastAcc : LeastDone(c, s, a)}]
<1>1. /\ IsFiniteSet(D) /\ D = 1..(MaxHits + 1) /\ MaxHits + 1 \in Nat
      /\ \A i \in D : i \in Nat /\ i # 0 /\ list[i] = i - 1
  <2>1. MaxHits + 1 \in Nat
    BY CacheAssumption
  <2> QED BY <2>1, FS_Interval
<1>2. \A s \in SUBSET D : s # {} => /\ pick[s] = Max(s) /\ Max(s) \in s /\ pick[s] \in s
                                    /\ \A i \in s : i <= Max(s)
  BY <1>1, MaxFacts
<1>3. base \in A[{}] /\ base.c = c
  <2>1. base \in LeastAcc /\ base.c = c
    BY DEF LeastAcc, TableOK
  <2> HIDE DEF base
  <2>2. LeastDone(c, {}, base)
    BY <2>1, ShrunkItself DEF LeastDone, LeftMoreUsed
  <2> QED BY <2>1, <2>2
<1> HIDE DEF base
<1>4. ASSUME NEW s \in SUBSET D, s # {}, NEW a \in A[s \ {Max(s)}]
      PROVE  LeastStep(a, list[Max(s)]) \in A[s]
  <2>1. /\ Max(s) \in s /\ s \ {Max(s)} \in SUBSET D /\ s \in SUBSET (Nat \ {0})
        /\ \A i \in s : i <= Max(s)
        /\ list[Max(s)] = Max(s) - 1
    <3> HIDE DEF list, pick
    <3> QED BY <1>1, <1>2, <1>4
  <2>2. a \in LeastAcc /\ LeastDone(c, s \ {Max(s)}, a)
    BY <1>4, <2>1
  <2> DEFINE z == LeastStep(a, list[Max(s)])
  <2>3. z \in LeastAcc /\ LeastDone(c, s, z)
    <3>1. z = LeastStep(a, Max(s) - 1)
      BY <2>1
    <3> HIDE DEF z
    <3> QED BY <2>1, <2>2, <3>1, LeastStepFacts
  <2> HIDE DEF z
  <2>4. z \in A[s]
    BY <2>3
  <2> QED BY <2>4 DEF z
<1>5. \A s \in SUBSET D : A[s] \subseteq LeastAcc
  OBVIOUS
<1>6. \A s \in SUBSET D :
         s # {} => \A a \in A[s \ {pick[s]}] :
                      /\ f[<<a, pick[s]>>] = LeastStep(a, list[Max(s)])
                      /\ f[<<a, pick[s]>>] \in A[s]
  <2> TAKE s \in SUBSET D
  <2> HAVE s # {}
  <2> TAKE a \in A[s \ {pick[s]}]
  <2>1. pick[s] = Max(s) /\ Max(s) \in D /\ s \ {pick[s]} \in SUBSET D
    BY <1>2
  <2>2. a \in LeastAcc
    BY <1>5, <2>1
  <2>3. f[<<a, pick[s]>>] = LeastStep(a, list[Max(s)])
    <3> HIDE DEF D, list
    <3> QED BY <2>1, <2>2
  <2> QED BY <1>4, <2>1, <2>3
<1> DEFINE it == FoldOf(D, pick, f, base)
<1>7. /\ it \in [SUBSET D -> LeastAcc]
      /\ it[{}] = base
      /\ \A s \in SUBSET D : s # {} => it[s] = f[<<it[s \ {pick[s]}], pick[s]>>]
      /\ \A s \in SUBSET D : it[s] \in A[s]
  <2>1. \A s \in SUBSET D : s # {} => pick[s] \in s
    BY <1>2
  <2>2. \A s \in SUBSET D : s # {} => \A a \in A[s \ {pick[s]}] : f[<<a, pick[s]>>] \in A[s]
    BY <1>6
  <2>3. IsFiniteSet(D)
    BY <1>1
  <2> HIDE DEF A, pick, f, D
  <2> QED BY <1>3, <1>5, <2>1, <2>2, <2>3, FoldExists
<1> HIDE DEF it, f
<1>8. it = Fold(it)
  <2> DEFINE Step(s) == IF s = {} THEN base ELSE LeastStep(it[s \ {Max(s)}], list[Max(s)])
  <2>1. it = [s \in SUBSET D |-> it[s]]
    BY <1>7
  <2>2. \A s \in SUBSET D : it[s] = Step(s)
    <3> TAKE s \in SUBSET D
    <3>1. CASE s = {}
      BY <1>7, <3>1
    <3>2. CASE s # {}
      <4>1. s \ {pick[s]} \in SUBSET D /\ pick[s] = Max(s)
        BY <1>2, <3>2
      <4>2. it[s \ {pick[s]}] \in A[s \ {pick[s]}] /\ it[s] = f[<<it[s \ {pick[s]}], pick[s]>>]
        BY <1>7, <3>2, <4>1
      <4> HIDE DEF A, D
      <4> QED BY <1>6, <3>2, <4>1, <4>2
    <3> QED BY <3>1, <3>2
  <2> HIDE DEF Step
  <2>3. it = [s \in SUBSET D |-> Step(s)]
    BY <2>1, <2>2, Zenon
  <2> QED BY <2>3 DEF Step
<1> DEFINE jt == CHOOSE jt : jt = Fold(jt)
<1>9. jt = Fold(jt)
  BY <1>8
<1>10. CollectLeastUsed(c) = jt[D].c
  BY DEF CollectLeastUsed, FoldLeft, MapThenFoldSet, LeastStep, base
<1> HIDE DEF jt
<1>11. \A s \in SUBSET D : jt[s] \in A[s]
  <2>1. jt[{}] \in A[{}]
    BY <1>3, <1>9
  <2>2. \A s \in SUBSET D : s # {} /\ jt[s \ {pick[s]}] \in A[s \ {pick[s]}] => jt[s] \in A[s]
    <3> TAKE s \in SUBSET D
    <3> HAVE s # {} /\ jt[s \ {pick[s]}] \in A[s \ {pick[s]}]
    <3>1. pick[s] = Max(s)
      BY <1>2
    <3>2. jt[s] = LeastStep(jt[s \ {Max(s)}], list[Max(s)])
      BY <1>9
    <3>3. jt[s \ {Max(s)}] \in A[s \ {Max(s)}]
      BY <3>1
    <3> HIDE DEF A, D
    <3> QED BY <1>4, <3>2, <3>3
  <2>3. \A s \in SUBSET D : s # {} => pick[s] \in s
    BY <1>2
  <2>4. IsFiniteSet(D)
    BY <1>1
  <2> HIDE DEF A, Fold, pick, D
  <2> QED BY <2>1, <2>2, <2>3, <2>4, FoldInduction
<1> DEFINE a == jt[D]
<1>12. LeastDone(c, D, a)
  <2> HIDE DEF D
  <2> QED BY <1>11
<1>13. CollectLeastUsed(c) = a.c
  BY <1>10
<1> HIDE DEF a
<1>14. \A i \in D : i = 1 \/ i - 1 \in D
  BY <1>1
<1> HIDE DEF D
<1> QED BY <1>12, <1>13, <1>14 DEF LeastDone

\* The whole collection: of the fresh entries that are not too big, those with
\* the fewest hits go.
FewestHits(c, d) ==
    \A u \in Urls :
        Freed(c, d, u) /\ c.entry[u].fresh /\ c.entry[u].size <= MaxEntry
            => \A w \in Urls :
                  Has(d, w) => \/ HasLock(d, w)
                               \/ d.entry[w].fresh /\ d.entry[w].hits >= c.entry[u].hits

LEMMA GarbageFacts ==
    ASSUME NEW c, TableOK(c)
    PROVE  Shrunk(c, Garbage(c)) /\ FewestHits(c, Garbage(c))
<1>1. CASE ~StartGC(c)
  <2>1. Garbage(c) = c
    BY <1>1 DEF Garbage
  <2> QED BY <2>1, ShrunkItself DEF FewestHits
<1>2. CASE StartGC(c)
  <2> DEFINE b == CollectTable(c, StaleRound)
             d == CollectLeastUsed(b)
  <2>1. Garbage(c) = d
    BY <1>2 DEF Garbage
  <2>2. /\ Shrunk(c, b)
        /\ \A u \in Urls : Freed(c, b, u) => Doomed(c.entry[u], StaleRound)
        /\ StopGC(b) \/ \A u \in Urls : Cleared(b, u, StaleRound)
    BY TableFacts
  <2> HIDE DEF b
  <2>3. /\ Shrunk(b, d)
        /\ ~StartGC(b) => d = b
        /\ \A u \in Urls : LeftMoreUsed(b, d, u)
    BY <2>2, LeastFacts DEF Shrunk
  <2> HIDE DEF d
  <2>4. /\ Shrunk(c, d)
        /\ \A u \in Urls : Freed(c, d, u) <=> Freed(c, b, u) \/ Freed(b, d, u)
        /\ \A u \in Urls : Has(d, u) => Has(b, u) /\ d.entry[u] = b.entry[u]
        /\ \A u \in Urls : Freed(b, d, u) => c.entry[u] = b.entry[u]
    BY <2>2, <2>3, ShrunkTwice
  <2>5. ASSUME NEW u \in Urls, Freed(c, d, u), c.entry[u].fresh, c.entry[u].size <= MaxEntry,
               NEW w \in Urls, Has(d, w), ~HasLock(d, w)
        PROVE  d.entry[w].fresh /\ d.entry[w].hits >= c.entry[u].hits
    <3>1. ~Freed(c, b, u)
      BY <2>2, <2>5 DEF Doomed
    <3>2. Freed(b, d, u) /\ c.entry[u] = b.entry[u]
      BY <2>4, <2>5, <3>1
    <3>3. StartGC(b)
      BY <2>3, <3>2 DEF Freed
    <3>4. ~StopGC(b)
      BY <2>2, <3>3, ShrunkItself, RoomLeft DEF Shrunk
    <3>5. Cleared(b, w, StaleRound) /\ Has(b, w) /\ d.entry[w] = b.entry[w]
      BY <2>2, <2>4, <2>5, <3>4
    <3>6. d.entry[w].fresh
      BY <2>5, <3>5 DEF Cleared, Spared, Doomed, HasLock
    <3> QED BY <2>3, <2>5, <3>2, <3>6 DEF LeftMoreUsed
  <2> QED BY <2>1, <2>4, <2>5 DEF FewestHits
<1>3. StartGC(c) \in BOOLEAN
  BY ShrunkItself, RoomLeft
<1> QED BY <1>1, <1>2, <1>3

(***************************************************************************)
(* What the operations do to the table.                                    *)
(***************************************************************************)
\* All other entries are the same or were taken by the collector.
Others(c, d, u) ==
    \A w \in Urls \ {u} :
        Freed(c, d, w) \/ (d.entry[w] = c.entry[w] /\ d.name[w] = c.name[w])

\* An entry and its file are updated, and the sizes are not touched or counted.
LEMMA UpdateFacts ==
    ASSUME NEW c, TableOK(c), NEW u \in Urls, Has(c, u), NEW d, Updated(c, d, u),
           d.name[u] = c.name[u] \/ d.name[u] = NoFile \/ d.name[u][1] = u,
           d.content = c.content, d.entry[u].size <= c.entry[u].size
    PROVE  TableOK(d) /\ Has(d, u) /\ Elsewhere(c, d, u)
<1>1. d.name[u] # NoFile => d.name[u][1] = u
  BY DEF TableOK, NamesOK
<1>2. d.content - d.entry[u].size >= c.content - c.entry[u].size
  <2>1. c.content \in Int /\ c.entry[u] \in Entry /\ d.entry[u] \in Entry
    BY HasEntry DEF TableOK, Updated
  <2>2. c.entry[u].size \in Nat /\ d.entry[u].size \in Nat
    BY <2>1 DEF Entry
  <2> QED BY <2>1, <2>2
<1> QED BY <1>1, <1>2, UpdatedOK DEF Updated, Elsewhere

LEMMA EntryParts ==
    ASSUME NEW c, TableOK(c), NEW u \in Urls, Has(c, u)
    PROVE  /\ c \in CacheRec /\ c.entry[u] \in Entry /\ c.content \in Int
           /\ c.entry[u].size \in Nat /\ c.entry[u].size <= c.entry[u].size
           /\ c.entry[u].hits \in Nat /\ c.entry[u].version \in Versions
<1>1. c \in CacheRec /\ c.entry[u] \in Entry /\ c.content \in Int
  BY HasEntry DEF TableOK
<1>2. c.entry[u].size \in Nat /\ c.entry[u].hits \in Nat /\ c.entry[u].version \in Versions
  BY <1>1 DEF Entry
<1> QED BY <1>1, <1>2

LEMMA LockedTable ==
    ASSUME NEW c, TableOK(c), NEW u \in Urls, Has(c, u), NEW l \in Requests \cup {NoRequest},
           NEW d, d = Locked(c, u, l)
    PROVE  /\ TableOK(d) /\ Has(d, u) /\ Elsewhere(c, d, u) /\ d.name[u] = c.name[u]
           /\ d.content = c.content
           /\ EntryIs(d.entry[u], c.entry[u].version, c.entry[u].fresh, c.entry[u].range,
                      c.entry[u].size, c.entry[u].hits, l)
<1>1. c \in CacheRec /\ c.entry[u] \in Entry /\ c.entry[u].size <= c.entry[u].size
  BY EntryParts
<1>2. /\ Updated(c, d, u) /\ d.name[u] = c.name[u] /\ d.content = c.content
      /\ EntryIs(d.entry[u], c.entry[u].version, c.entry[u].fresh, c.entry[u].range,
                 c.entry[u].size, c.entry[u].hits, l)
  BY <1>1, LockFacts
<1>3. d.entry[u].size <= c.entry[u].size
  BY <1>1, <1>2 DEF EntryIs
<1> QED BY <1>2, <1>3, UpdateFacts

LEMMA HitTable ==
    ASSUME NEW c, TableOK(c), NEW u \in Urls, Has(c, u), NEW d, d = Hit(c, u)
    PROVE  /\ TableOK(d) /\ Has(d, u) /\ Elsewhere(c, d, u) /\ d.name[u] = c.name[u]
           /\ EntryIs(d.entry[u], c.entry[u].version, c.entry[u].fresh, c.entry[u].range,
                      c.entry[u].size, c.entry[u].hits + 1, c.entry[u].lock)
<1>1. c \in CacheRec /\ c.entry[u] \in Entry /\ c.entry[u].size <= c.entry[u].size
  BY EntryParts
<1>2. /\ Updated(c, d, u) /\ d.name[u] = c.name[u] /\ d.content = c.content
      /\ EntryIs(d.entry[u], c.entry[u].version, c.entry[u].fresh, c.entry[u].range,
                 c.entry[u].size, c.entry[u].hits + 1, c.entry[u].lock)
  BY <1>1, HitFacts
<1>3. d.entry[u].size <= c.entry[u].size
  BY <1>1, <1>2 DEF EntryIs
<1> QED BY <1>2, <1>3, UpdateFacts

LEMMA AgedTable ==
    ASSUME NEW c, TableOK(c), NEW u \in Urls, Has(c, u), NEW f \in BOOLEAN, NEW d, d = Aged(c, u, f)
    PROVE  /\ TableOK(d) /\ Has(d, u) /\ Elsewhere(c, d, u) /\ d.name[u] = c.name[u]
           /\ EntryIs(d.entry[u], c.entry[u].version, f, c.entry[u].range,
                      c.entry[u].size, c.entry[u].hits, c.entry[u].lock)
<1>1. c \in CacheRec /\ c.entry[u] \in Entry /\ c.entry[u].size <= c.entry[u].size
  BY EntryParts
<1>2. /\ Updated(c, d, u) /\ d.name[u] = c.name[u] /\ d.content = c.content
      /\ EntryIs(d.entry[u], c.entry[u].version, f, c.entry[u].range,
                 c.entry[u].size, c.entry[u].hits, c.entry[u].lock)
  BY <1>1, FreshFacts
<1>3. d.entry[u].size <= c.entry[u].size
  BY <1>1, <1>2 DEF EntryIs
<1> QED BY <1>2, <1>3, UpdateFacts

LEMMA RangedTable ==
    ASSUME NEW c, TableOK(c), NEW u \in Urls, Has(c, u), NEW g \in BOOLEAN, NEW d, d = Ranged(c, u, g)
    PROVE  /\ TableOK(d) /\ Has(d, u) /\ Elsewhere(c, d, u) /\ d.name[u] = c.name[u]
           /\ d.content = c.content
           /\ EntryIs(d.entry[u], c.entry[u].version, c.entry[u].fresh, g,
                      c.entry[u].size, c.entry[u].hits, c.entry[u].lock)
<1>1. c \in CacheRec /\ c.entry[u] \in Entry /\ c.entry[u].size <= c.entry[u].size
  BY EntryParts
<1>2. /\ Updated(c, d, u) /\ d.name[u] = c.name[u] /\ d.content = c.content
      /\ EntryIs(d.entry[u], c.entry[u].version, c.entry[u].fresh, g,
                 c.entry[u].size, c.entry[u].hits, c.entry[u].lock)
  BY <1>1, RangeFacts
<1>3. d.entry[u].size <= c.entry[u].size
  BY <1>1, <1>2 DEF EntryIs
<1> QED BY <1>2, <1>3, UpdateFacts

LEMMA MetaTable ==
    ASSUME NEW c, TableOK(c), NEW u \in Urls, Has(c, u), NEW v \in Versions,
           NEW d, d = UpdateMeta(c, u, v)
    PROVE  /\ TableOK(d) /\ Has(d, u) /\ Elsewhere(c, d, u) /\ d.name[u] = c.name[u]
           /\ d.entry[u].version = v /\ d.entry[u].range = c.entry[u].range
           /\ d.entry[u].size = c.entry[u].size /\ d.entry[u].lock = c.entry[u].lock
<1>1. c \in CacheRec /\ c.entry[u] \in Entry /\ c.entry[u].size <= c.entry[u].size
  BY EntryParts
<1>2. /\ Updated(c, d, u) /\ d.name[u] = c.name[u] /\ d.content = c.content
      /\ d.entry[u].version = v /\ d.entry[u].range = c.entry[u].range
      /\ d.entry[u].size = c.entry[u].size /\ d.entry[u].lock = c.entry[u].lock
  BY <1>1, MetaFacts
<1>3. d.entry[u].size <= c.entry[u].size
  BY <1>1, <1>2
<1> QED BY <1>2, <1>3, UpdateFacts

LEMMA SizedTable ==
    ASSUME NEW c, TableOK(c), NEW u \in Urls, Has(c, u), NEW g \in BOOLEAN,
           NEW d, d = Sized(c, u, 0, g)
    PROVE  /\ TableOK(d) /\ Has(d, u) /\ Elsewhere(c, d, u) /\ d.name[u] = c.name[u]
           /\ EntryIs(d.entry[u], c.entry[u].version, c.entry[u].fresh, g,
                      0, c.entry[u].hits, c.entry[u].lock)
<1>1. c \in CacheRec /\ c.entry[u] \in Entry /\ c.entry[u].size \in Nat
  BY EntryParts
<1>2. /\ Updated(c, d, u) /\ d.name[u] = c.name[u] /\ d.content = c.content
      /\ EntryIs(d.entry[u], c.entry[u].version, c.entry[u].fresh, g,
                 0, c.entry[u].hits, c.entry[u].lock)
  <2>1. 0 \in Nat
    OBVIOUS
  <2> QED BY <1>1, <2>1, TouchFacts
<1>3. d.entry[u].size <= c.entry[u].size
  <2>1. d.entry[u].size = 0
    BY <1>2 DEF EntryIs
  <2> QED BY <1>1, <2>1
<1> QED BY <1>2, <1>3, UpdateFacts

LEMMA BodilessTable ==
    ASSUME NEW c, TableOK(c), NEW u \in Urls, Has(c, u), NEW g \in BOOLEAN,
           NEW d, d = Bodiless(c, u, 0, g)
    PROVE  /\ TableOK(d) /\ Has(d, u) /\ Elsewhere(c, d, u) /\ d.name[u] = NoFile
           /\ EntryIs(d.entry[u], c.entry[u].version, c.entry[u].fresh, g,
                      0, c.entry[u].hits, c.entry[u].lock)
<1>1. c \in CacheRec /\ c.entry[u] \in Entry /\ c.entry[u].size \in Nat
  BY EntryParts
<1>2. /\ Updated(c, d, u) /\ d.name[u] = NoFile /\ d.content = c.content
      /\ EntryIs(d.entry[u], c.entry[u].version, c.entry[u].fresh, g,
                 0, c.entry[u].hits, c.entry[u].lock)
  <2>1. 0 \in Nat
    OBVIOUS
  <2> QED BY <1>1, <2>1, BodyGoneFacts
<1>3. d.entry[u].size <= c.entry[u].size
  <2>1. d.entry[u].size = 0
    BY <1>2 DEF EntryIs
  <2> QED BY <1>1, <2>1
<1> QED BY <1>2, <1>3, UpdateFacts

LEMMA NamedTable ==
    ASSUME NEW c, TableOK(c), NEW u \in Urls, Has(c, u), NEW f \in Files, f[1] = u,
           NEW d, d = Named(c, u, f) \/ d = NamedHit(c, u, f)
    PROVE  /\ TableOK(d) /\ Has(d, u) /\ Elsewhere(c, d, u) /\ d.name[u] = f
           /\ d.entry[u].version = c.entry[u].version /\ d.entry[u].range = c.entry[u].range
           /\ d.entry[u].size = c.entry[u].size /\ d.entry[u].lock = c.entry[u].lock
<1>1. c \in CacheRec /\ c.entry[u] \in Entry /\ c.entry[u].size <= c.entry[u].size
  BY EntryParts
<1>2. /\ Updated(c, d, u) /\ d.name[u] = f /\ d.content = c.content
      /\ d.entry[u].version = c.entry[u].version /\ d.entry[u].range = c.entry[u].range
      /\ d.entry[u].size = c.entry[u].size /\ d.entry[u].lock = c.entry[u].lock
  <2>1. CASE d = Named(c, u, f)
    <3>1. Updated(c, d, u) /\ d.name[u] = f /\ d.content = c.content /\ d.entry[u] = c.entry[u]
      BY <1>1, <2>1, NameFacts
    <3> QED BY <3>1
  <2>2. CASE d = NamedHit(c, u, f)
    <3>1. /\ Updated(c, d, u) /\ d.name[u] = f /\ d.content = c.content
          /\ EntryIs(d.entry[u], c.entry[u].version, c.entry[u].fresh, c.entry[u].range,
                     c.entry[u].size, c.entry[u].hits + 1, c.entry[u].lock)
      BY <1>1, <2>2, NameHitFacts
    <3> QED BY <3>1 DEF EntryIs
  <2> QED BY <2>1, <2>2
<1>3. d.entry[u].size <= c.entry[u].size
  BY <1>1, <1>2
<1> QED BY <1>1, <1>2, <1>3, UpdateFacts

LEMMA SetSizeFacts ==
    ASSUME NEW c, TableOK(c), NEW u \in Urls, Has(c, u), NEW s \in Nat, NEW a \in BOOLEAN
    PROVE  LET d == SetSize(c, u, s, a) IN
           /\ TableOK(d) /\ Others(c, d, u)
           /\ Has(d, u) => /\ d.entry[u].size = s /\ d.name[u] = c.name[u]
                           /\ d.entry[u].version = c.entry[u].version
                           /\ d.entry[u].range = c.entry[u].range
           /\ ~Has(d, u) => ~HasLock(c, u)
           /\ \A w \in Urls \ {u} :
                 Freed(c, d, w) /\ c.entry[w].fresh /\ c.entry[w].size <= MaxEntry
                     => \A o \in Urls :
                           Has(d, o) => \/ HasLock(d, o)
                                        \/ d.entry[o].fresh /\ d.entry[o].hits >= c.entry[w].hits
<1> DEFINE k == c.content + s - (IF a THEN 0 ELSE c.entry[u].size)
           b == Counted(c, u, s, k)
           d == SetSize(c, u, s, a)
<1>1. /\ c \in CacheRec /\ c.entry[u] \in Entry /\ c.entry[u].size \in Nat /\ c.content \in Int
  BY EntryParts
<1>2. k \in Int /\ k - s >= c.content - c.entry[u].size
  BY <1>1
<1>3. d = Garbage(b)
  BY DEF SetSize, Counted
<1> HIDE DEF d, k
<1>4. /\ Updated(c, b, u) /\ b.name[u] = c.name[u] /\ b.content = k
      /\ EntryIs(b.entry[u], c.entry[u].version, c.entry[u].fresh, c.entry[u].range,
                 s, c.entry[u].hits, c.entry[u].lock)
  <2> HIDE DEF b
  <2>1. b = Counted(c, u, s, k)
    BY DEF b
  <2> QED BY <1>1, <1>2, <2>1, SizeFacts
<1> HIDE DEF b
<1>5. TableOK(b) /\ Has(b, u)
  <2>1. b.name[u] # NoFile => b.name[u][1] = u
    BY <1>4 DEF TableOK, NamesOK
  <2>2. b.content - b.entry[u].size >= c.content - c.entry[u].size
    BY <1>2, <1>4 DEF EntryIs
  <2> QED BY <1>4, <2>1, <2>2, UpdatedOK
<1>6. Shrunk(b, d) /\ FewestHits(b, d)
  BY <1>3, <1>5, GarbageFacts
<1>7. \A w \in Urls \ {u} : b.entry[w] = c.entry[w] /\ b.name[w] = c.name[w]
  BY <1>4 DEF Updated
<1>8. \A w \in Urls \ {u} : Freed(c, d, w) <=> Freed(b, d, w)
  BY <1>7 DEF Freed, Has, HasLock
<1>9. TableOK(d) /\ Others(c, d, u)
  BY <1>6, <1>7, <1>8 DEF Shrunk, Others
<1>10. Has(d, u) => d.entry[u] = b.entry[u] /\ d.name[u] = b.name[u]
  BY <1>6 DEF Shrunk, Freed
<1>11. ~Has(d, u) => ~HasLock(c, u)
  <2>1. ~Has(d, u) => ~HasLock(b, u)
    BY <1>5, <1>6 DEF Shrunk, Freed, Has
  <2> QED BY <1>4, <2>1 DEF EntryIs, HasLock
<1>12. \A w \in Urls \ {u} :
          Freed(c, d, w) /\ c.entry[w].fresh /\ c.entry[w].size <= MaxEntry
              => \A o \in Urls :
                    Has(d, o) => \/ HasLock(d, o)
                                 \/ d.entry[o].fresh /\ d.entry[o].hits >= c.entry[w].hits
  BY <1>6, <1>7, <1>8 DEF FewestHits
<1> QED BY <1>4, <1>9, <1>10, <1>11, <1>12 DEF EntryIs, d

\* The index is read: the same entries without locks, and their sizes.
LEMMA IndexFacts ==
    ASSUME TableOK(cache), NEW d, d = IndexRead
    PROVE  /\ TableOK(d) /\ d.name = cache.name
           /\ \A u \in Urls : Has(d, u) <=> Has(cache, u)
           /\ \A u \in Urls :
                 Has(d, u) => /\ d.entry[u].version = cache.entry[u].version
                              /\ d.entry[u].range = cache.entry[u].range
                              /\ d.entry[u].size = cache.entry[u].size
<1> DEFINE chain == [b \in Range(Buckets) |-> Reverse(cache.chain[b])]
           entry == [u \in Urls |-> IF Has(cache, u) THEN [cache.entry[u] EXCEPT !.lock = NoRequest]
                                    ELSE NoEntry]
<1>1. /\ cache \in CacheRec /\ DOMAIN cache.chain = Range(Buckets)
      /\ DOMAIN cache = {"chain", "entry", "name", "content"}
      /\ cache.name \in [Urls -> Files \cup {NoFile}]
      /\ EntryType(cache)
  BY HasEntry DEF TableOK, CacheRec, EntryType
<1>2. \A b \in Range(Buckets) :
         /\ cache.chain[b] \in Seq(Urls) /\ IsInjective(cache.chain[b])
         /\ Range(cache.chain[b]) = {u \in Urls : Bucket[u] = b /\ cache.entry[u] # NoEntry}
  BY DEF TableOK, CacheRec, ChainsOK
<1>3. \A b \in Range(Buckets) :
         /\ chain[b] \in Seq(Urls) /\ IsInjective(chain[b])
         /\ Range(chain[b]) = {u \in Urls : Bucket[u] = b /\ cache.entry[u] # NoEntry}
  <2> TAKE b \in Range(Buckets)
  <2>1. chain[b] = Reverse(cache.chain[b])
    OBVIOUS
  <2> HIDE DEF chain
  <2> QED BY <1>2, <2>1, ReverseFacts
<1>4. ASSUME NEW u \in Urls, Has(cache, u)
      PROVE  /\ entry[u] \in Entry /\ entry[u].version = cache.entry[u].version
             /\ entry[u].range = cache.entry[u].range /\ entry[u].size = cache.entry[u].size
  <2> DEFINE e == [cache.entry[u] EXCEPT !.lock = NoRequest]
  <2>1. entry[u] = e
    BY <1>4
  <2>2. cache.entry[u] \in Entry
    BY <1>1, <1>4, HasEntry
  <2>3. e \in Entry
    BY <2>2, ZenonT(60) DEF Entry
  <2>4. e.version = cache.entry[u].version /\ e.range = cache.entry[u].range /\ e.size = cache.entry[u].size
    BY <2>2 DEF Entry
  <2> HIDE DEF e, entry
  <2> QED BY <2>1, <2>3, <2>4
<1>5. \A u \in Urls : ~Has(cache, u) => entry[u] = NoEntry
  OBVIOUS
<1>6. /\ d.chain = chain /\ d.entry = entry /\ d.name = cache.name /\ d.content = SumSizes(cache)
      /\ d = [x \in DOMAIN cache |-> d[x]]
  BY <1>1 DEF IndexRead
<1>7. entry \in [Urls -> Entry \cup {NoEntry}]
  <2>1. \A u \in Urls : entry[u] \in Entry \cup {NoEntry}
    <3> HIDE DEF entry
    <3> QED BY <1>4, <1>5
  <2> QED BY <2>1
<1>8. chain \in [Range(Buckets) -> Seq(Urls)]
  BY <1>3
<1>9. SumSizes(cache) \in Nat
  <2>1. \A w \in Urls : SizeOf(cache, w) = SizeOf(cache, w)
    OBVIOUS
  <2> QED BY <1>1, <2>1, SumSame
<1> HIDE DEF chain, entry
<1>10. d = [chain |-> chain, entry |-> entry, name |-> cache.name, content |-> SumSizes(cache)]
  BY <1>1, <1>6
<1>11. d \in CacheRec /\ EntryType(d)
  <2>1. d \in CacheRec
    BY <1>1, <1>7, <1>8, <1>9, <1>10 DEF CacheRec
  <2> QED BY <1>6, <1>7, <2>1 DEF EntryType
<1>12. \A u \in Urls : /\ Has(d, u) <=> Has(cache, u)
                       /\ d.entry[u] # NoEntry <=> cache.entry[u] # NoEntry
  BY <1>4, <1>5, <1>6, CacheAssumption DEF Has
<1>13. ChainsOK(d)
  BY <1>3, <1>6, <1>12 DEF ChainsOK
<1>14. NamesOK(d)
  BY <1>6, <1>12 DEF TableOK, NamesOK
<1>15. \A u \in Urls : SizeOf(d, u) = SizeOf(cache, u)
  BY <1>4, <1>6, <1>12 DEF SizeOf
<1>16. SumSizes(d) = SumSizes(cache)
  BY <1>1, <1>11, <1>15, SumSame
<1>17. d.content >= SumSizes(d)
  BY <1>6, <1>9, <1>16
<1> QED BY <1>4, <1>6, <1>11, <1>12, <1>13, <1>14, <1>17 DEF TableOK

LEMMA SumZero ==
    ASSUME NEW c, EntryType(c), \A u \in Urls : SizeOf(c, u) = 0
    PROVE  SumSizes(c) = 0
<1> DEFINE A == [s \in SUBSET Urls |-> {0}]
<1>1. PICK it : /\ SumSizes(c) = it[Urls]
                /\ it[{}] = 0
                /\ \A s \in SUBSET Urls : it[s] \in Nat
                /\ \A s \in SUBSET Urls :
                      s # {} => it[s] = it[s \ {PickUrl[s]}] + SizeOf(c, PickUrl[s])
  BY SumIsFold
<1>2. \A s \in SUBSET Urls : s # {} => PickUrl[s] \in s
  BY DEF PickUrl
<1>3. it[{}] \in A[{}]
  BY <1>1
<1>4. \A s \in SUBSET Urls :
         s # {} /\ it[s \ {PickUrl[s]}] \in A[s \ {PickUrl[s]}] => it[s] \in A[s]
  <2> TAKE s \in SUBSET Urls
  <2> HAVE s # {} /\ it[s \ {PickUrl[s]}] \in A[s \ {PickUrl[s]}]
  <2>1. PickUrl[s] \in Urls /\ it[s \ {PickUrl[s]}] = 0
    BY <1>2
  <2>2. it[s] = 0 + 0
    BY <1>1, <2>1
  <2> QED BY <2>2
<1>5. IsFiniteSet(Urls)
  BY CacheAssumption
<1>6. \A s \in SUBSET Urls : it[s] \in A[s]
  <2> HIDE DEF A
  <2> QED BY <1>2, <1>3, <1>4, <1>5, FoldInduction
<1> QED BY <1>1, <1>6

(***************************************************************************)
(* The loads, and the invariant.                                           *)
(***************************************************************************)
\* Who has a file open, for what.
LoadOK(q) ==
    /\ q.out # NoFile => q.net = "body" /\ q.out[1] = q.url
    /\ q.file # NoFile => q.read = "open" /\ q.file[1] = q.url
    /\ q.read = "open" => q.file # NoFile
    /\ q.net = "asked" => q.read = "no"

LoadsOK == \A r \in Requests : LoadOK(req[r])

\* No two loads have to do with one document.
Alone == \A r, o \in Requests : Busy(r) /\ Busy(o) /\ r # o => req[r].url # req[o].url

\* The loads that must have the lock.
Holds(q) == q.out # NoFile \/ (q.net = "asked" /\ q.cond # "no")

Active(q) == q.net # "no" \/ q.read # "no"

CacheInv ==
    /\ TableOK(cache)
    /\ disk \in [Files -> Seq(Versions)] /\ doc \in [Urls -> Versions]
    /\ req \in [Requests -> Load]
    /\ LoadsOK /\ Alone /\ LockKeepsOthersOut

\* No other load has to do with u.
Mine(r, u) == \A o \in Requests : o # r /\ Busy(o) => req[o].url # u

LEMMA InvImplies == CacheInv => TypeOK /\ LockKeepsOthersOut /\ ContentCovers
  BY DEF CacheInv, TableOK, CacheRec, ChainsOK, TypeOK, ContentCovers

LEMMA IdleFacts ==
    /\ Idle \in Load /\ LoadOK(Idle) /\ ~Active(Idle) /\ ~Holds(Idle)
    /\ Idle.out = NoFile /\ Idle.file = NoFile /\ Idle.net = "no" /\ Idle.read = "no"
    /\ Idle.cond = "no" /\ Idle.got = <<>> /\ Idle.pipe = <<>> /\ ~Idle.part /\ Idle.sent = 0
    /\ Idle.todo = 0 /\ Idle.from = 0 /\ Idle.at = 0
<1>1. AnyVersion \in Versions /\ (CHOOSE u \in Urls : TRUE) \in Urls
  BY CacheAssumption DEF AnyVersion
<1>2. <<>> \in Seq(Versions)
  BY EmptySeq
<1>3. Idle \in Load
  BY <1>1, <1>2 DEF Idle, Load
<1> QED BY <1>3 DEF Idle, LoadOK, Active, Holds

\* A load with the lock is not disturbed by what happens to another document.
LEMMA OtherLoads ==
    ASSUME CacheInv, NEW u \in Urls, NEW o \in Requests, Holds(req[o]), req[o].url # u,
           NEW d, Others(cache, d, u)
    PROVE  Has(d, req[o].url) /\ d.entry[req[o].url] = cache.entry[req[o].url]
<1>1. req[o].url \in Urls /\ Has(cache, req[o].url) /\ cache.entry[req[o].url].lock = o
  BY DEF CacheInv, Load, LockKeepsOthersOut, Holds
<1>2. HasLock(cache, req[o].url)
  BY <1>1, CacheAssumption DEF HasLock
<1> QED BY <1>1, <1>2 DEF Others, Freed, Has

\* A step of one load, for one document.
LEMMA LoadStep ==
    ASSUME CacheInv, NEW r \in Requests, NEW u \in Urls, Mine(r, u),
           NEW q \in Load, req' = [req EXCEPT ![r] = q],
           LoadOK(q), Active(q) => q.url = u,
           TableOK(cache'), Others(cache, cache', u),
           Holds(q) => Has(cache', u) /\ cache'.entry[u].lock = r,
           disk' \in [Files -> Seq(Versions)], doc' \in [Urls -> Versions]
    PROVE  CacheInv'
<1>1. /\ req \in [Requests -> Load] /\ req' \in [Requests -> Load] /\ req'[r] = q
      /\ \A o \in Requests : o # r => req'[o] = req[o]
  BY DEF CacheInv
<1>2. LoadsOK'
  BY <1>1 DEF CacheInv, LoadsOK
<1>3. Alone'
  <2> SUFFICES ASSUME NEW o \in Requests, NEW p \in Requests, Busy(o)', Busy(p)', o # p
               PROVE  req'[o].url # req'[p].url
    BY DEF Alone
  <2>1. CASE o = r
    BY <1>1, <2>1 DEF Mine, Busy, Active
  <2>2. CASE p = r
    BY <1>1, <2>2 DEF Mine, Busy, Active
  <2>3. CASE o # r /\ p # r
    BY <1>1, <2>3 DEF CacheInv, Alone, Busy
  <2> QED BY <2>1, <2>2, <2>3
<1>4. LockKeepsOthersOut'
  <2> SUFFICES ASSUME NEW o \in Requests, Holds(req'[o])
               PROVE  Has(cache', req'[o].url) /\ cache'.entry[req'[o].url].lock = o
    BY DEF LockKeepsOthersOut, Holds
  <2>1. CASE o = r
    <3>1. Active(q)
      BY <1>1, <2>1 DEF Holds, LoadOK, Active
    <3> QED BY <1>1, <2>1, <3>1
  <2>2. CASE o # r
    <3>1. Holds(req[o]) /\ req'[o] = req[o]
      BY <1>1, <2>2
    <3>2. Busy(o)
      BY <3>1 DEF CacheInv, LoadsOK, LoadOK, Holds, Busy
    <3>3. Has(cache', req[o].url) /\ cache'.entry[req[o].url] = cache.entry[req[o].url]
      BY <2>2, <3>1, <3>2, OtherLoads DEF Mine
    <3>4. cache.entry[req[o].url].lock = o
      BY <3>1 DEF CacheInv, LockKeepsOthersOut, Holds
    <3> QED BY <3>1, <3>3, <3>4
  <2> QED BY <2>1, <2>2
<1> QED BY <1>1, <1>2, <1>3, <1>4 DEF CacheInv

LEMMA MineFacts ==
    ASSUME CacheInv, NEW r \in Requests
    PROVE  /\ req[r] \in Load /\ req[r].url \in Urls /\ LoadOK(req[r])
           /\ Busy(r) => Mine(r, req[r].url)
           /\ \A u \in Urls : "share" \notin Env /\ MayLoad(r, u) => Mine(r, u)
           /\ Holds(req[r]) => /\ Has(cache, req[r].url)
                               /\ cache.entry[req[r].url].lock = r
                               /\ HasLock(cache, req[r].url)
<1>1. req[r] \in Load /\ req[r].url \in Urls /\ LoadOK(req[r])
  BY DEF CacheInv, Load, LoadsOK
<1>2. Busy(r) => Mine(r, req[r].url)
  BY DEF CacheInv, Alone, Mine
<1>3. \A u \in Urls : "share" \notin Env /\ MayLoad(r, u) => Mine(r, u)
  BY DEF MayLoad, Mine
<1>4. Holds(req[r]) => Has(cache, req[r].url) /\ cache.entry[req[r].url].lock = r
  BY DEF CacheInv, LockKeepsOthersOut, Holds
<1> QED BY <1>1, <1>2, <1>3, <1>4, CacheAssumption DEF HasLock

LEMMA DiskFacts ==
    ASSUME NEW d \in [Files -> Seq(Versions)], DiskIs(d)
    PROVE  /\ disk' \in [Files -> Seq(Versions)]
           /\ \A f \in Files : f \in InUse' => disk'[f] = d[f]
<1>1. <<>> \in Seq(Versions)
  BY EmptySeq
<1>2. \A f \in Files : (IF f \in InUse' THEN d[f] ELSE <<>>) \in Seq(Versions)
  BY <1>1
<1>3. disk' = [f \in Files |-> IF f \in InUse' THEN d[f] ELSE <<>>]
  BY DEF DiskIs
<1> QED BY <1>2, <1>3

LEMMA SameOthers ==
    ASSUME NEW c, NEW d, NEW u, d = c \/ Elsewhere(c, d, u)
    PROVE  Others(c, d, u)
  BY DEF Others, Elsewhere

\* The file of an entry is one of its document's, and one that is made is not used.
LEMMA FileFacts ==
    ASSUME CacheInv, NEW r \in Requests, req[r].net = "asked", NEW u, u = req[r].url
    PROVE  /\ FileOf(u) \in Files /\ FileOf(u)[1] = u /\ FileOf(u) # NoFile
           /\ cache.name[u] = NoFile => FileOf(u) \notin InUse
           /\ cache.name[u] # NoFile => FileOf(u) = cache.name[u]
<1>1. /\ u \in Urls /\ Busy(r) /\ Mine(r, u)
      /\ cache.name \in [Urls -> Files \cup {NoFile}]
  BY MineFacts DEF Busy, CacheInv, TableOK, CacheRec
<1>2. 1 \in 1..Inodes
  BY CacheAssumption, FS_CardinalityType
<1>3. NoFile \notin Files
  BY CacheAssumption DEF Files
<1>4. CASE cache.name[u] = NoFile
  <2> DEFINE f == <<u, 1>>
  <2>1. f \in Files /\ f[1] = u /\ f # NoFile
    BY <1>1, <1>2, <1>3 DEF Files
  <2> HIDE DEF f
  <2>2. f \notin Range(cache.name)
    <3>1. \A w \in Urls : cache.name[w] # f
      BY <1>4, <2>1 DEF CacheInv, TableOK, NamesOK
    <3> QED BY <1>1, <3>1 DEF Range
  <2>3. \A o \in Requests : f # req[o].out /\ f # req[o].file
    <3> TAKE o \in Requests
    <3>1. LoadOK(req[o]) /\ LoadOK(req[r])
      BY MineFacts
    <3>2. CASE o = r
      BY <2>1, <3>1, <3>2 DEF LoadOK
    <3>3. CASE o # r
      BY <1>1, <2>1, <3>1, <3>3 DEF LoadOK, Mine, Busy
    <3> QED BY <3>2, <3>3
  <2>4. f \notin InUse
    BY <2>2, <2>3 DEF InUse
  <2>5. FreeFile(u) \in Files /\ FreeFile(u)[1] = u /\ FreeFile(u) \notin InUse
    BY <2>1, <2>4 DEF FreeFile
  <2> QED BY <1>3, <1>4, <2>5 DEF FileOf
<1>5. CASE cache.name[u] # NoFile
  BY <1>1, <1>3, <1>5 DEF FileOf, CacheInv, TableOK, NamesOK
<1> QED BY <1>4, <1>5

\* What the actions make of a load.
FromCache(u) == [Idle EXCEPT !.url = u, !.read = "waits"]
WholeBody(r, f) == [Body(r) EXCEPT !.out = f]
PartBody(r, f) == [Body(r) EXCEPT !.todo = @ - req[r].from, !.part = TRUE, !.out = f, !.read = "waits"]
NotModified(p) == [p EXCEPT !.net = "no", !.read = "waits"]
OneBlock(p, sent, pipe, got) == [p EXCEPT !.todo = @ - 1, !.sent = sent, !.pipe = pipe, !.got = got]
NetOver(p) == [p EXCEPT !.net = "no", !.todo = 0, !.out = NoFile]
Opened(p, f) == [p EXCEPT !.read = "open", !.file = f, !.at = 0]
ReadOne(p, got) == [p EXCEPT !.at = @ + 1, !.got = got]

\* The loads that start.
LEMMA AskedFacts ==
    ASSUME NEW u \in Urls, NEW cond \in {"no", "validate", "range"}, NEW from \in Nat,
           NEW q, q = Asked(u, cond, from)
    PROVE  /\ q \in Load /\ LoadOK(q) /\ q.url = u /\ q.net = "asked" /\ q.cond = cond
           /\ q.from = from /\ q.read = "no" /\ q.out = NoFile /\ q.file = NoFile
           /\ q.sent = 0 /\ ~q.part /\ q.got = <<>> /\ (Holds(q) <=> cond # "no")
<1>1. q \in Load
  BY IdleFacts, ZenonT(60) DEF Load, Asked
<1>2. /\ q.url = u /\ q.net = "asked" /\ q.cond = cond /\ q.from = from
      /\ q.read = "no" /\ q.out = NoFile /\ q.file = NoFile /\ q.sent = 0 /\ ~q.part /\ q.got = <<>>
  BY IdleFacts DEF Load, Asked
<1> QED BY <1>1, <1>2 DEF LoadOK, Holds

LEMMA CachedFacts ==
    ASSUME NEW u \in Urls, NEW q, q = FromCache(u)
    PROVE  /\ q \in Load /\ LoadOK(q) /\ ~Holds(q)
           /\ q.url = u /\ q.net = "no" /\ q.read = "waits" /\ ~q.part
           /\ q.out = NoFile /\ q.file = NoFile /\ q.got = <<>>
<1>1. q \in Load
  BY IdleFacts, ZenonT(60) DEF Load, FromCache
<1>2. /\ q.url = u /\ q.net = "no" /\ q.read = "waits" /\ ~q.part
      /\ q.out = NoFile /\ q.file = NoFile /\ q.got = <<>>
  BY IdleFacts DEF Load, FromCache
<1> QED BY <1>1, <1>2 DEF LoadOK, Holds

\* A load whose answer comes: with a file to copy it to, or one that is not changed.
LEMMA BodyFacts ==
    ASSUME CacheInv, NEW r \in Requests, req[r].net = "asked", NEW f \in Files,
           NEW q, q = WholeBody(r, f)
    PROVE  /\ q \in Load /\ q.url = req[r].url /\ q.net = "body" /\ q.out = f
           /\ q.version = doc[req[r].url] /\ q.todo = Length[req[r].url]
           /\ q.read = req[r].read /\ q.file = req[r].file /\ q.part = req[r].part
           /\ q.sent = req[r].sent
<1> DEFINE u == req[r].url
<1>1. req[r] \in Load /\ u \in Urls /\ doc[u] \in Versions /\ Length[u] \in Nat
  BY MineFacts, CacheAssumption DEF CacheInv
<1> HIDE DEF u
<1>2. q = [req[r] EXCEPT !.net = "body", !.version = doc[u], !.todo = Length[u], !.out = f]
  BY <1>1 DEF Body, Load, WholeBody, u
<1>3. q \in Load
  BY <1>1, <1>2, ZenonT(60) DEF Load
<1> QED BY <1>1, <1>2, <1>3 DEF Load, u

LEMMA PartFacts ==
    ASSUME CacheInv, NEW r \in Requests, req[r].net = "asked", NEW f \in Files,
           req[r].from < Length[req[r].url],
           NEW q, q = PartBody(r, f)
    PROVE  /\ q \in Load /\ q.url = req[r].url /\ q.net = "body" /\ q.out = f
           /\ q.version = doc[req[r].url] /\ q.todo = Length[req[r].url] - req[r].from
           /\ q.read = "waits" /\ q.file = req[r].file /\ q.part
           /\ q.sent = req[r].sent /\ q.got = req[r].got
<1> DEFINE u == req[r].url
           k == Length[u] - req[r].from
<1>1. /\ req[r] \in Load /\ u \in Urls /\ doc[u] \in Versions /\ Length[u] \in Nat
      /\ req[r].from \in Nat
  BY MineFacts, CacheAssumption DEF CacheInv, Load
<1>2. k \in Nat
  BY <1>1
<1>3. q = [req[r] EXCEPT !.net = "body", !.version = doc[u], !.todo = k,
                         !.part = TRUE, !.out = f, !.read = "waits"]
  BY <1>1 DEF Body, Load, PartBody
<1> HIDE DEF u, k
<1>4. q \in Load
  BY <1>1, <1>2, <1>3, ZenonT(60) DEF Load
<1>5. /\ q.url = req[r].url /\ q.net = "body" /\ q.out = f /\ q.version = doc[u] /\ q.todo = k
      /\ q.read = "waits" /\ q.file = req[r].file /\ q.part
      /\ q.sent = req[r].sent /\ q.got = req[r].got
  BY <1>1, <1>3 DEF Load
<1> QED BY <1>4, <1>5 DEF u, k

LEMMA NotModifiedFacts ==
    ASSUME NEW p \in Load, p.net = "asked", LoadOK(p),
           NEW q, q = NotModified(p)
    PROVE  /\ q \in Load /\ LoadOK(q) /\ ~Holds(q) /\ q.url = p.url
           /\ q.net = "no" /\ q.read = "waits" /\ q.out = NoFile /\ q.file = NoFile
           /\ q.part = p.part /\ q.got = p.got
<1>1. q \in Load
  BY ZenonT(60) DEF Load, NotModified
<1>2. /\ q.url = p.url /\ q.net = "no" /\ q.read = "waits" /\ q.out = p.out /\ q.file = p.file
      /\ q.part = p.part /\ q.got = p.got
  BY DEF Load, NotModified
<1> QED BY <1>1, <1>2 DEF LoadOK, Holds

LEMMA BlockFacts ==
    ASSUME NEW p \in Load, p.net = "body", p.todo > 0, LoadOK(p),
           NEW sent \in Nat, NEW pipe \in Seq(Versions), NEW got \in Seq(Versions),
           NEW q, q = OneBlock(p, sent, pipe, got)
    PROVE  /\ q \in Load /\ LoadOK(q) /\ q.url = p.url /\ q.net = "body"
           /\ q.out = p.out /\ q.file = p.file /\ q.read = p.read /\ q.part = p.part
           /\ q.version = p.version /\ q.todo = p.todo - 1 /\ q.sent = sent
           /\ q.at = p.at /\ q.got = got
<1>1. p.todo \in Nat
  BY DEF Load
<1>2. p.todo - 1 \in Nat
  BY <1>1
<1>3. q \in Load
  BY <1>2, ZenonT(60) DEF Load, OneBlock
<1>4. /\ q.url = p.url /\ q.net = p.net
      /\ q.out = p.out /\ q.file = p.file /\ q.read = p.read /\ q.part = p.part
      /\ q.version = p.version /\ q.todo = p.todo - 1 /\ q.sent = sent
      /\ q.at = p.at /\ q.got = got
  BY DEF Load, OneBlock
<1> QED BY <1>3, <1>4 DEF LoadOK

LEMMA NetOverFacts ==
    ASSUME NEW p \in Load, p.read # "no", LoadOK(p),
           NEW q, q = NetOver(p)
    PROVE  /\ q \in Load /\ LoadOK(q) /\ ~Holds(q) /\ q.url = p.url /\ q.net = "no"
           /\ q.out = NoFile /\ q.file = p.file /\ q.read = p.read /\ q.part = p.part /\ q.got = p.got
<1>1. q \in Load
  BY ZenonT(60) DEF Load, NetOver
<1>2. /\ q.url = p.url /\ q.net = "no" /\ q.out = NoFile
      /\ q.file = p.file /\ q.read = p.read /\ q.part = p.part /\ q.got = p.got
  BY DEF Load, NetOver
<1> QED BY <1>1, <1>2 DEF LoadOK, Holds

LEMMA ReadOverFacts ==
    ASSUME NEW p \in Load, p.read # "no", LoadOK(p), NEW q, q = ReadOver(p)
    PROVE  /\ q \in Load /\ LoadOK(q) /\ q.read = "no" /\ q.file = NoFile
           /\ Active(q) => p.net # "no" /\ q.url = p.url
           /\ Holds(q) <=> Holds(p)
           /\ p.net = "no" => q = Idle
           /\ p.net # "no" => /\ q.net = p.net /\ q.out = p.out /\ q.url = p.url
                              /\ q.version = p.version /\ q.todo = p.todo
                              /\ q.sent = p.sent /\ q.part = p.part
<1>1. CASE p.net = "no"
  <2>1. q = Idle
    BY <1>1 DEF ReadOver
  <2>2. ~Holds(p)
    BY <1>1 DEF Holds, LoadOK
  <2> QED BY <1>1, <2>1, <2>2, IdleFacts
<1>2. CASE p.net # "no"
  <2> DEFINE got == p.got \o p.pipe
  <2>1. p.got \in Seq(Versions) /\ p.pipe \in Seq(Versions)
    BY DEF Load
  <2>2. got \in Seq(Versions)
    BY <2>1, ConcatProperties
  <2>3. q = [p EXCEPT !.read = "no", !.file = NoFile, !.at = 0, !.pipe = <<>>, !.got = got]
    BY <1>2 DEF ReadOver
  <2>4. <<>> \in Seq(Versions) /\ 0 \in Nat
    BY EmptySeq
  <2> HIDE DEF got
  <2>5. q \in Load
    BY <2>2, <2>3, <2>4, ZenonT(60) DEF Load
  <2>6. /\ q.read = "no" /\ q.file = NoFile /\ q.net = p.net /\ q.out = p.out /\ q.url = p.url
        /\ q.version = p.version /\ q.todo = p.todo /\ q.cond = p.cond
        /\ q.sent = p.sent /\ q.part = p.part
    BY <2>3 DEF Load
  <2> QED BY <1>2, <2>5, <2>6 DEF LoadOK, Holds, Active
<1> QED BY <1>1, <1>2

LEMMA OpenFacts ==
    ASSUME NEW p \in Load, p.read = "waits", LoadOK(p), NEW f \in Files, f # NoFile, f[1] = p.url,
           NEW q, q = Opened(p, f)
    PROVE  /\ q \in Load /\ LoadOK(q) /\ (Holds(q) <=> Holds(p))
           /\ q.url = p.url /\ q.net = p.net /\ q.out = p.out /\ q.part = p.part
           /\ q.version = p.version /\ q.todo = p.todo /\ q.sent = p.sent
           /\ q.read = "open" /\ q.file = f /\ q.at = 0 /\ q.got = p.got
<1>1. 0 \in Nat
  OBVIOUS
<1>2. q \in Load
  BY <1>1, ZenonT(60) DEF Load, Opened
<1>3. /\ q.url = p.url /\ q.net = p.net /\ q.out = p.out /\ q.part = p.part /\ q.cond = p.cond
      /\ q.version = p.version /\ q.todo = p.todo /\ q.sent = p.sent
      /\ q.read = "open" /\ q.file = f /\ q.at = 0 /\ q.got = p.got
  BY DEF Load, Opened
<1> QED BY <1>2, <1>3 DEF LoadOK, Holds

LEMMA ReadFacts ==
    ASSUME NEW p \in Load, p.read = "open", LoadOK(p), NEW got \in Seq(Versions),
           NEW q, q = ReadOne(p, got)
    PROVE  /\ q \in Load /\ LoadOK(q) /\ (Holds(q) <=> Holds(p))
           /\ q.url = p.url /\ q.net = p.net /\ q.out = p.out /\ q.part = p.part
           /\ q.version = p.version /\ q.todo = p.todo /\ q.sent = p.sent
           /\ q.read = "open" /\ q.file = p.file /\ q.at = p.at + 1 /\ q.got = got
<1>1. p.at + 1 \in Nat
  BY DEF Load, ReadOne
<1>2. q \in Load
  BY <1>1, ZenonT(60) DEF Load, ReadOne
<1>3. /\ q.url = p.url /\ q.net = p.net /\ q.out = p.out /\ q.part = p.part /\ q.cond = p.cond
      /\ q.version = p.version /\ q.todo = p.todo /\ q.sent = p.sent
      /\ q.read = "open" /\ q.file = p.file /\ q.at = p.at + 1 /\ q.got = got
  BY DEF Load, ReadOne
<1> QED BY <1>2, <1>3 DEF LoadOK, Holds

\* The file a load reads is one of the document's.
LEMMA OpenFileFacts ==
    ASSUME CacheInv, NEW r \in Requests, req[r].read = "open"
    PROVE  req[r].file \in Files /\ req[r].file[1] = req[r].url
  BY MineFacts, CacheAssumption DEF LoadOK, Load

(***************************************************************************)
(* The actions keep the invariant.                                         *)
(***************************************************************************)
\* The entry an answer is written to.
LEMMA WrittenTable ==
    ASSUME CacheInv, NEW r \in Requests, req[r].net = "asked", NEW u, u = req[r].url,
           ~LockedOut(cache, u, r), NEW v \in Versions,
           NEW b, b = NewEntry(cache, u, r, v),
           NEW d, d = Named(b, u, FileOf(u)) \/ d = NamedHit(b, u, FileOf(u))
    PROVE  /\ TableOK(d) /\ Has(d, u) /\ Elsewhere(cache, d, u) /\ d.name[u] = FileOf(u)
           /\ d.entry[u].lock = r /\ d.entry[u].version = v
           /\ Has(cache, u) => /\ d.entry[u].size = cache.entry[u].size
                               /\ d.entry[u].range = cache.entry[u].range
           /\ ~Has(cache, u) => d.entry[u].size = 0 /\ ~d.entry[u].range
<1>1. u \in Urls /\ TableOK(cache)
  BY MineFacts DEF CacheInv
<1>2. /\ TableOK(b) /\ Has(b, u) /\ Elsewhere(cache, b, u)
      /\ b.entry[u].lock = r /\ b.entry[u].version = v
      /\ Has(cache, u) => /\ b.entry[u].size = cache.entry[u].size
                          /\ b.entry[u].range = cache.entry[u].range
      /\ ~Has(cache, u) => b.entry[u].size = 0 /\ ~b.entry[u].range
  BY <1>1, NewEntryFacts
<1>3. FileOf(u) \in Files /\ FileOf(u)[1] = u
  BY FileFacts
<1>4. /\ TableOK(d) /\ Has(d, u) /\ Elsewhere(b, d, u) /\ d.name[u] = FileOf(u)
      /\ d.entry[u].version = b.entry[u].version /\ d.entry[u].range = b.entry[u].range
      /\ d.entry[u].size = b.entry[u].size /\ d.entry[u].lock = b.entry[u].lock
  BY <1>1, <1>2, <1>3, NamedTable, SMTT(20)
<1>5. Elsewhere(cache, d, u)
  BY <1>2, <1>4 DEF Elsewhere
<1> QED BY <1>2, <1>4, <1>5

\* HTCacheCheckFilter.
LEMMA ModifiedTable ==
    ASSUME NEW c, TableOK(c), NEW r \in Requests, NEW u \in Urls, NEW v \in Versions,
           NEW noContent \in BOOLEAN,
           NEW d, d = Touch(Invalidate(c, u, v, noContent), u, r, v)
    PROVE  /\ TableOK(d) /\ Has(d, u) /\ Elsewhere(c, d, u)
           /\ d.entry[u].range /\ d.entry[u].size = 0
           /\ (Has(c, u) /\ HasLock(c, u) => noContent) => d.name[u] = NoFile
<1> DEFINE b == Invalidate(c, u, v, noContent)
           e == NewEntry(b, u, r, v)
<1>1. /\ TableOK(b) /\ Elsewhere(c, b, u)
      /\ (Has(c, u) /\ HasLock(c, u) => noContent) => b.name[u] = NoFile
  <2>1. CASE ~Has(c, u)
    <3>1. b = c
      BY <2>1 DEF Invalidate
    <3>2. c.name[u] = NoFile
      BY <2>1 DEF TableOK, NamesOK
    <3> QED BY <3>1, <3>2 DEF Elsewhere
  <2>2. CASE Has(c, u) /\ noContent
    <3> DEFINE m == UpdateMeta(c, u, v)
    <3>1. TableOK(m) /\ Has(m, u) /\ Elsewhere(c, m, u)
      BY <2>2, MetaTable
    <3> HIDE DEF m
    <3>2. \E g \in BOOLEAN : g /\ b = Bodiless(m, u, 0, g)
      BY <2>2 DEF Invalidate, Bodiless, m
    <3>3. PICK g \in BOOLEAN : g /\ b = Bodiless(m, u, 0, g)
      BY <3>2
    <3>4. TableOK(b) /\ Elsewhere(m, b, u) /\ b.name[u] = NoFile
      <4> HIDE DEF b
      <4> QED BY <3>1, <3>3, BodilessTable
    <3> QED BY <3>1, <3>4 DEF Elsewhere
  <2>3. CASE Has(c, u) /\ ~noContent
    <3>1. b = RemoveEntry(c, u)
      BY <2>3 DEF Invalidate
    <3>2. /\ Shrunk(c, b)
          /\ \A w \in Urls \ {u} : b.entry[w] = c.entry[w]
          /\ Has(b, u) => b = c /\ HasLock(c, u)
      BY <2>3, <3>1, RemoveFacts
    <3> HIDE DEF b
    <3>3. Elsewhere(c, b, u)
      BY <3>2 DEF Shrunk, Elsewhere, Freed, Has
    <3>4. ~Has(b, u) => b.name[u] = NoFile
      BY <3>2 DEF Shrunk, TableOK, NamesOK
    <3> QED BY <2>3, <3>2, <3>3, <3>4 DEF Shrunk
  <2> QED BY <2>1, <2>2, <2>3
<1> HIDE DEF b
<1>2. TableOK(e) /\ Has(e, u) /\ Elsewhere(b, e, u) /\ e.name = b.name
  BY <1>1, NewEntryFacts
<1>3. \E g \in BOOLEAN : g /\ d = Sized(e, u, 0, g)
  BY DEF Touch, Sized, b, e
<1>4. PICK g \in BOOLEAN : g /\ d = Sized(e, u, 0, g)
  BY <1>3
<1> HIDE DEF e
<1>5. /\ TableOK(d) /\ Has(d, u) /\ Elsewhere(e, d, u) /\ d.name[u] = e.name[u]
      /\ EntryIs(d.entry[u], e.entry[u].version, e.entry[u].fresh, g,
                 0, e.entry[u].hits, e.entry[u].lock)
  BY <1>2, <1>4, SizedTable
<1>6. d.entry[u].range /\ d.entry[u].size = 0
  BY <1>4, <1>5 DEF EntryIs
<1>7. Elsewhere(c, d, u)
  BY <1>1, <1>2, <1>5 DEF Elsewhere
<1> QED BY <1>1, <1>2, <1>5, <1>6, <1>7

\* free_stream.
LEMMA StreamTable ==
    ASSUME CacheInv, NEW r \in Requests, req[r].net = "body", NEW u, u = req[r].url,
           NEW abort \in BOOLEAN, NEW d, d = FreeStream(r, abort)
    PROVE  /\ TableOK(d) /\ Others(cache, d, u) /\ FewestHits(cache, d)
           /\ req[r].out = NoFile => d = cache
           /\ req[r].out # NoFile /\ Has(d, u) =>
                 /\ d.entry[u].size = req[r].sent /\ d.entry[u].range = abort
                 /\ d.entry[u].version = cache.entry[u].version /\ d.name[u] = cache.name[u]
<1>1. u \in Urls /\ TableOK(cache) /\ req[r].sent \in Nat /\ req[r].part \in BOOLEAN
  BY MineFacts DEF CacheInv, Load
<1>2. CASE req[r].out = NoFile
  <2>1. d = cache
    BY <1>2 DEF FreeStream
  <2> QED BY <1>1, <1>2, <2>1, ShrunkItself DEF Others, FewestHits
<1>3. CASE req[r].out # NoFile
  <2> DEFINE b == Locked(cache, u, NoRequest)
             e == Ranged(b, u, abort)
  <2>1. d = SetSize(e, u, req[r].sent, req[r].part)
    BY <1>3 DEF FreeStream, Unlock, Locked, Ranged
  <2>2. Has(cache, u) /\ HasLock(cache, u)
    BY <1>3, MineFacts DEF Holds
  <2>3. /\ TableOK(b) /\ Has(b, u) /\ Elsewhere(cache, b, u) /\ b.name[u] = cache.name[u]
        /\ b.entry[u].version = cache.entry[u].version
    <3> HIDE DEF b
    <3>1. b = Locked(cache, u, NoRequest)
      BY DEF b
    <3>2. /\ TableOK(b) /\ Has(b, u) /\ Elsewhere(cache, b, u) /\ b.name[u] = cache.name[u]
          /\ EntryIs(b.entry[u], cache.entry[u].version, cache.entry[u].fresh, cache.entry[u].range,
                     cache.entry[u].size, cache.entry[u].hits, NoRequest)
      BY <1>1, <2>2, <3>1, LockedTable
    <3> QED BY <3>2 DEF EntryIs
  <2> HIDE DEF b
  <2>4. /\ TableOK(e) /\ Has(e, u) /\ Elsewhere(b, e, u) /\ e.name[u] = b.name[u]
        /\ e.entry[u].version = b.entry[u].version /\ e.entry[u].range = abort
    <3> HIDE DEF e
    <3>1. e = Ranged(b, u, abort)
      BY DEF e
    <3>2. /\ TableOK(e) /\ Has(e, u) /\ Elsewhere(b, e, u) /\ e.name[u] = b.name[u]
          /\ EntryIs(e.entry[u], b.entry[u].version, b.entry[u].fresh, abort,
                     b.entry[u].size, b.entry[u].hits, b.entry[u].lock)
      BY <1>1, <2>3, <3>1, RangedTable
    <3> QED BY <3>2 DEF EntryIs
  <2> HIDE DEF e
  <2>5. \A w \in Urls \ {u} : e.entry[w] = cache.entry[w] /\ e.name[w] = cache.name[w]
    BY <2>3, <2>4 DEF Elsewhere
  <2>6. /\ TableOK(d) /\ Others(e, d, u)
        /\ Has(d, u) => /\ d.entry[u].size = req[r].sent /\ d.name[u] = e.name[u]
                        /\ d.entry[u].version = e.entry[u].version
                        /\ d.entry[u].range = e.entry[u].range
        /\ \A w \in Urls \ {u} :
              Freed(e, d, w) /\ e.entry[w].fresh /\ e.entry[w].size <= MaxEntry
                  => \A o \in Urls :
                        Has(d, o) => \/ HasLock(d, o)
                                     \/ d.entry[o].fresh /\ d.entry[o].hits >= e.entry[w].hits
    <3> DEFINE n == req[r].sent
               p == req[r].part
    <3>1. n \in Nat /\ p \in BOOLEAN /\ d = SetSize(e, u, n, p)
      BY <1>1, <2>1
    <3>2. TableOK(e) /\ Has(e, u) /\ u \in Urls
      BY <1>1, <2>4
    <3> HIDE DEF n, p
    <3>3. /\ TableOK(d) /\ Others(e, d, u)
          /\ Has(d, u) => /\ d.entry[u].size = n /\ d.name[u] = e.name[u]
                          /\ d.entry[u].version = e.entry[u].version
                          /\ d.entry[u].range = e.entry[u].range
      BY <3>1, <3>2, SetSizeFacts, SMTT(60)
    <3>4. \A w \in Urls \ {u} :
             Freed(e, d, w) /\ e.entry[w].fresh /\ e.entry[w].size <= MaxEntry
                 => \A o \in Urls :
                       Has(d, o) => \/ HasLock(d, o)
                                    \/ d.entry[o].fresh /\ d.entry[o].hits >= e.entry[w].hits
      BY <3>1, <3>2, SetSizeFacts, SMTT(60)
    <3> QED BY <3>3, <3>4 DEF n
  <2>7. \A w \in Urls \ {u} : Freed(e, d, w) <=> Freed(cache, d, w)
    BY <2>5 DEF Freed, Has, HasLock
  <2>8. ~Freed(cache, d, u)
    BY <2>2 DEF Freed
  <2>9. Others(cache, d, u)
    BY <2>5, <2>6, <2>7 DEF Others
  <2>10. FewestHits(cache, d)
    BY <2>5, <2>6, <2>7, <2>8 DEF FewestHits
  <2> QED BY <1>3, <2>3, <2>4, <2>6, <2>9, <2>10
<1> QED BY <1>2, <1>3

LEMMA NoneFreed ==
    ASSUME NEW c, NEW d, NEW u, d = c \/ (Elsewhere(c, d, u) /\ Has(d, u))
    PROVE  FewestHits(c, d)
  BY DEF FewestHits, Freed, Elsewhere, Has

\* What an action may do to the table, for the theorem on the collector.
LEMMA NetLoadStep ==
    ASSUME CacheInv, "share" \notin Env, NEW r \in Requests, NEW u \in Urls, NEW flag \in BOOLEAN,
           LoadFromNet(r, u, flag)
    PROVE  CacheInv' /\ FewestHits(cache, cache')
<1> DEFINE q == Asked(u, "no", 0)
<1>1. /\ q \in Load /\ LoadOK(q) /\ q.url = u /\ ~Holds(q)
  BY AskedFacts
<1> HIDE DEF q
<1>2. Mine(r, u) /\ req' = [req EXCEPT ![r] = q] /\ cache' = cache /\ disk' = disk /\ doc' = doc
  BY MineFacts DEF LoadFromNet, q
<1>3. Others(cache, cache', u) /\ FewestHits(cache, cache')
  BY <1>2, SameOthers, NoneFreed
<1>4. TableOK(cache') /\ disk' \in [Files -> Seq(Versions)] /\ doc' \in [Urls -> Versions]
  BY <1>2 DEF CacheInv
<1> QED BY <1>1, <1>2, <1>3, <1>4, LoadStep

LEMMA LockingLoadStep ==
    ASSUME CacheInv, "share" \notin Env, NEW r \in Requests, NEW u \in Urls,
           LoadRange(r, u) \/ \E flag \in BOOLEAN : LoadValidate(r, u, flag)
    PROVE  CacheInv' /\ FewestHits(cache, cache')
<1>1. PICK q : /\ req' = [req EXCEPT ![r] = q]
               /\ q \in Load /\ LoadOK(q) /\ q.url = u
  <2>1. CASE LoadRange(r, u)
    <3> DEFINE q == Asked(u, "range", cache.entry[u].size)
    <3>1. cache.entry[u].size \in Nat
      BY <2>1, EntryParts DEF LoadRange, CacheInv
    <3>2. q \in Load /\ LoadOK(q) /\ q.url = u
      BY <3>1, AskedFacts
    <3> QED BY <2>1, <3>2 DEF LoadRange
  <2>2. CASE \E flag \in BOOLEAN : LoadValidate(r, u, flag)
    <3> DEFINE q == Asked(u, "validate", 0)
    <3>1. q \in Load /\ LoadOK(q) /\ q.url = u
      BY AskedFacts
    <3> QED BY <2>2, <3>1 DEF LoadValidate
  <2> QED BY <2>1, <2>2
<1>2. /\ Mine(r, u) /\ Has(cache, u) /\ cache' = Locked(cache, u, r) /\ disk' = disk /\ doc' = doc
  BY MineFacts DEF LoadRange, LoadValidate, Locked
<1>3. /\ TableOK(cache') /\ Has(cache', u) /\ Elsewhere(cache, cache', u)
      /\ EntryIs(cache'.entry[u], cache.entry[u].version, cache.entry[u].fresh, cache.entry[u].range,
                 cache.entry[u].size, cache.entry[u].hits, r)
  BY <1>2, LockedTable DEF CacheInv
<1>4. Others(cache, cache', u) /\ FewestHits(cache, cache')
  BY <1>3, SameOthers, NoneFreed
<1>5. cache'.entry[u].lock = r
  BY <1>3 DEF EntryIs
<1>6. disk' \in [Files -> Seq(Versions)] /\ doc' \in [Urls -> Versions]
  BY <1>2 DEF CacheInv
<1> QED BY <1>1, <1>2, <1>3, <1>4, <1>5, <1>6, LoadStep

LEMMA CacheLoadStep ==
    ASSUME CacheInv, "share" \notin Env, NEW r \in Requests, NEW u \in Urls,
           LoadFromCache(r, u)
    PROVE  CacheInv' /\ FewestHits(cache, cache')
<1> DEFINE q == FromCache(u)
<1>1. q \in Load /\ LoadOK(q) /\ q.url = u /\ ~Holds(q)
  BY CachedFacts
<1> HIDE DEF q
<1>2. /\ Mine(r, u) /\ req' = [req EXCEPT ![r] = q] /\ Has(cache, u)
      /\ cache' = Hit(cache, u) /\ disk' = disk /\ doc' = doc
  BY MineFacts DEF LoadFromCache, Hit, FromCache, q
<1>3. TableOK(cache') /\ Has(cache', u) /\ Elsewhere(cache, cache', u)
  BY <1>2, HitTable DEF CacheInv
<1>4. Others(cache, cache', u) /\ FewestHits(cache, cache')
  BY <1>3, SameOthers, NoneFreed
<1>5. disk' \in [Files -> Seq(Versions)] /\ doc' \in [Urls -> Versions]
  BY <1>2 DEF CacheInv
<1> QED BY <1>1, <1>2, <1>3, <1>4, <1>5, LoadStep

LEMMA UncachedStep ==
    ASSUME CacheInv, NEW r \in Requests, AnswerUncached(r)
    PROVE  CacheInv' /\ FewestHits(cache, cache')
<1> DEFINE u == req[r].url
<1>1. /\ u \in Urls /\ Mine(r, u) /\ req' = [req EXCEPT ![r] = Idle]
      /\ cache' = cache /\ disk' = disk /\ doc' = doc
  BY MineFacts DEF AnswerUncached, Busy
<1> HIDE DEF u
<1>2. Others(cache, cache', u) /\ FewestHits(cache, cache')
  BY <1>1, SameOthers, NoneFreed
<1>3. TableOK(cache') /\ disk' \in [Files -> Seq(Versions)] /\ doc' \in [Urls -> Versions]
  BY <1>1 DEF CacheInv
<1> QED BY <1>1, <1>2, <1>3, IdleFacts, LoadStep

LEMMA WholeStep ==
    ASSUME CacheInv, NEW r \in Requests, AnswerWhole(r)
    PROVE  CacheInv' /\ FewestHits(cache, cache')
<1> DEFINE u == req[r].url
           f == FileOf(u)
           q == WholeBody(r, f)
           b == NewEntry(cache, u, r, doc[u])
<1>1. /\ u \in Urls /\ Mine(r, u) /\ req[r].net = "asked" /\ ~LockedOut(cache, u, r)
      /\ req' = [req EXCEPT ![r] = q] /\ doc' = doc /\ doc[u] \in Versions
      /\ cache' = Named(b, u, f) /\ DiskIs([disk EXCEPT ![f] = <<>>])
  BY MineFacts DEF AnswerWhole, Busy, Named, WholeBody, CacheInv
<1>2. f \in Files /\ f[1] = u /\ f # NoFile
  BY <1>1, FileFacts
<1>3. /\ TableOK(cache') /\ Has(cache', u) /\ Elsewhere(cache, cache', u)
      /\ cache'.entry[u].lock = r
  BY <1>1, WrittenTable
<1> HIDE DEF b, f, q
<1>4. /\ q \in Load /\ q.url = u /\ q.net = "body" /\ q.out = f
      /\ q.read = req[r].read /\ q.file = req[r].file
  <2>1. q = WholeBody(r, f)
    BY DEF q
  <2> QED BY <1>1, <1>2, <2>1, BodyFacts
<1>5. LoadOK(q)
  BY <1>1, <1>2, <1>4, MineFacts DEF LoadOK
<1>6. disk' \in [Files -> Seq(Versions)]
  <2> DEFINE k == [disk EXCEPT ![f] = <<>>]
  <2>1. <<>> \in Seq(Versions)
    BY EmptySeq
  <2>2. k \in [Files -> Seq(Versions)]
    BY <2>1 DEF CacheInv
  <2>3. DiskIs(k)
    BY <1>1
  <2> HIDE DEF k
  <2> QED BY <2>2, <2>3, DiskFacts
<1>7. Others(cache, cache', u) /\ FewestHits(cache, cache')
  BY <1>3, SameOthers, NoneFreed
<1>8. doc' \in [Urls -> Versions]
  BY <1>1 DEF CacheInv
<1> HIDE DEF u
<1> QED BY <1>1, <1>3, <1>4, <1>5, <1>6, <1>7, <1>8, LoadStep

LEMMA PartStep ==
    ASSUME CacheInv, NEW r \in Requests, AnswerPart(r)
    PROVE  CacheInv' /\ FewestHits(cache, cache')
<1> DEFINE u == req[r].url
           f == FileOf(u)
           q == PartBody(r, f)
           b == NewEntry(cache, u, r, doc[u])
<1>1. /\ u \in Urls /\ Mine(r, u) /\ req[r].net = "asked" /\ ~LockedOut(cache, u, r)
      /\ req[r].from < Length[req[r].url]
      /\ req' = [req EXCEPT ![r] = q] /\ doc' = doc /\ doc[u] \in Versions
      /\ cache' = NamedHit(b, u, f) /\ DiskIs(disk)
  BY MineFacts DEF AnswerPart, Busy, NamedHit, PartBody, CacheInv
<1>2. f \in Files /\ f[1] = u /\ f # NoFile
  BY <1>1, FileFacts
<1>3. /\ TableOK(cache') /\ Has(cache', u) /\ Elsewhere(cache, cache', u)
      /\ cache'.entry[u].lock = r
  BY <1>1, WrittenTable
<1> HIDE DEF b, f, q
<1>4. /\ q \in Load /\ q.url = u /\ q.net = "body" /\ q.out = f
      /\ q.read = "waits" /\ q.file = req[r].file
  <2>1. q = PartBody(r, f)
    BY DEF q
  <2> QED BY <1>1, <1>2, <2>1, PartFacts
<1>5. LoadOK(q)
  BY <1>1, <1>2, <1>4, MineFacts DEF LoadOK
<1>6. disk' \in [Files -> Seq(Versions)]
  BY <1>1, DiskFacts DEF CacheInv
<1>7. Others(cache, cache', u) /\ FewestHits(cache, cache')
  BY <1>3, SameOthers, NoneFreed
<1>8. doc' \in [Urls -> Versions]
  BY <1>1 DEF CacheInv
<1> HIDE DEF u
<1> QED BY <1>1, <1>3, <1>4, <1>5, <1>6, <1>7, <1>8, LoadStep

\* HTCacheUpdateFilter.
LEMMA UpdatedTable ==
    ASSUME NEW c, TableOK(c), NEW u \in Urls, Has(c, u), NEW v \in Versions,
           NEW d, d = Hit(UpdateMeta(c, u, v), u)
    PROVE  /\ TableOK(d) /\ Has(d, u) /\ Elsewhere(c, d, u) /\ d.name[u] = c.name[u]
           /\ d.entry[u].version = v /\ d.entry[u].range = c.entry[u].range
           /\ d.entry[u].size = c.entry[u].size /\ d.entry[u].lock = c.entry[u].lock
<1> DEFINE b == UpdateMeta(c, u, v)
<1>1. /\ TableOK(b) /\ Has(b, u) /\ Elsewhere(c, b, u) /\ b.name[u] = c.name[u]
      /\ b.entry[u].version = v /\ b.entry[u].range = c.entry[u].range
      /\ b.entry[u].size = c.entry[u].size /\ b.entry[u].lock = c.entry[u].lock
  <2> HIDE DEF b
  <2>1. b = UpdateMeta(c, u, v)
    BY DEF b
  <2> QED BY <2>1, MetaTable
<1>2. d = Hit(b, u)
  OBVIOUS
<1> HIDE DEF b
<1>3. /\ TableOK(d) /\ Has(d, u) /\ Elsewhere(b, d, u) /\ d.name[u] = b.name[u]
      /\ d.entry[u].version = b.entry[u].version /\ d.entry[u].range = b.entry[u].range
      /\ d.entry[u].size = b.entry[u].size /\ d.entry[u].lock = b.entry[u].lock
  <2>1. /\ TableOK(d) /\ Has(d, u) /\ Elsewhere(b, d, u) /\ d.name[u] = b.name[u]
        /\ EntryIs(d.entry[u], b.entry[u].version, b.entry[u].fresh, b.entry[u].range,
                   b.entry[u].size, b.entry[u].hits + 1, b.entry[u].lock)
    BY <1>1, <1>2, HitTable
  <2> QED BY <2>1 DEF EntryIs
<1> QED BY <1>1, <1>3 DEF Elsewhere

LEMMA NotModifiedStep ==
    ASSUME CacheInv, NEW r \in Requests, AnswerNotModified(r)
    PROVE  CacheInv' /\ FewestHits(cache, cache')
<1> DEFINE u == req[r].url
           q == NotModified(req[r])
<1>1. /\ u \in Urls /\ Mine(r, u) /\ req[r].net = "asked" /\ req[r] \in Load /\ LoadOK(req[r])
      /\ req' = [req EXCEPT ![r] = q] /\ doc' = doc /\ disk' = disk /\ doc[u] \in Versions
      /\ Has(cache, u)
      /\ cache' = Hit(UpdateMeta(cache, u, doc[u]), u)
  BY MineFacts DEF AnswerNotModified, NotModified, Hit, Busy, CacheInv
<1>2. TableOK(cache') /\ Has(cache', u) /\ Elsewhere(cache, cache', u)
  BY <1>1, UpdatedTable DEF CacheInv
<1> HIDE DEF q
<1>3. q \in Load /\ LoadOK(q) /\ ~Holds(q) /\ q.url = u
  <2>1. q = NotModified(req[r])
    BY DEF q
  <2> QED BY <1>1, <2>1, NotModifiedFacts
<1>4. Others(cache, cache', u) /\ FewestHits(cache, cache')
  BY <1>2, SameOthers, NoneFreed
<1>5. doc' \in [Urls -> Versions] /\ disk' \in [Files -> Seq(Versions)]
  BY <1>1 DEF CacheInv
<1> HIDE DEF u
<1> QED BY <1>1, <1>2, <1>3, <1>4, <1>5, LoadStep

\* A block that comes is a record update of the load.
LEMMA BlockLoad ==
    ASSUME CacheInv, NEW r \in Requests, Block(r)
    PROVE  \E sent \in Nat, pipe \in Seq(Versions), got \in Seq(Versions) :
              /\ req' = [req EXCEPT ![r] = OneBlock(req[r], sent, pipe, got)]
              /\ req[r].read # "no" => got = req[r].got
              /\ req[r].url \notin Fragile => sent = req[r].sent + 1
<1> DEFINE p == req[r]
           pipe == IF p.part /\ p.read # "no" THEN Append(p.pipe, p.version) ELSE p.pipe
           got == IF p.part /\ p.read = "no" THEN Append(p.got, p.version) ELSE p.got
<1>1. p \in Load
  BY MineFacts
<1>2. p.pipe \in Seq(Versions) /\ p.got \in Seq(Versions) /\ p.version \in Versions
  BY <1>1 DEF Load
<1>3. Append(p.pipe, p.version) \in Seq(Versions) /\ Append(p.got, p.version) \in Seq(Versions)
  BY <1>2, AppendProperties
<1>4. pipe \in Seq(Versions) /\ got \in Seq(Versions) /\ (p.read # "no" => got = p.got)
  BY <1>2, <1>3
<1>5. p.sent \in Nat /\ p.sent + 1 \in Nat
  BY <1>1 DEF Load
<1>6. PICK bytewise \in BOOLEAN : (bytewise => req[r].url \in Fragile) /\ PutBlock(r, bytewise)
  BY DEF Block
<1> DEFINE sent == IF bytewise THEN p.sent ELSE p.sent + 1
<1>7. req' = [req EXCEPT ![r] = OneBlock(req[r], sent, pipe, got)]
  BY <1>1, <1>6 DEF PutBlock, Load, OneBlock, CacheInv
<1>8. sent \in Nat /\ (p.url \notin Fragile => sent = p.sent + 1)
  BY <1>5, <1>6
<1> QED BY <1>4, <1>7, <1>8

LEMMA BlockStep ==
    ASSUME CacheInv, NEW r \in Requests, Block(r)
    PROVE  CacheInv' /\ FewestHits(cache, cache')
<1> DEFINE u == req[r].url
<1>1. PICK sent \in Nat, pipe \in Seq(Versions), got \in Seq(Versions) :
         req' = [req EXCEPT ![r] = OneBlock(req[r], sent, pipe, got)]
  BY BlockLoad
<1> DEFINE q == OneBlock(req[r], sent, pipe, got)
<1>2. /\ u \in Urls /\ Mine(r, u) /\ req[r].net = "body" /\ req[r].todo > 0
      /\ req[r] \in Load /\ LoadOK(req[r]) /\ req' = [req EXCEPT ![r] = q]
      /\ cache' = cache /\ doc' = doc
  BY <1>1, MineFacts DEF Block, PutBlock, Busy
<1> HIDE DEF q
<1>3. q \in Load /\ LoadOK(q) /\ q.url = u /\ q.net = "body" /\ q.out = req[r].out
  <2>1. q = OneBlock(req[r], sent, pipe, got)
    BY DEF q
  <2> QED BY <1>2, <2>1, BlockFacts
<1>4. disk' \in [Files -> Seq(Versions)]
  <2>1. CASE req[r].out = NoFile
    BY <2>1 DEF Block, PutBlock, CacheInv
  <2>2. CASE req[r].out # NoFile
    <3>1. req[r].out \in Files /\ req[r].version \in Versions
      BY <1>2, <2>2 DEF Load
    <3>2. disk[req[r].out] \in Seq(Versions)
      BY <3>1 DEF CacheInv
    <3> DEFINE s == Append(disk[req[r].out], req[r].version)
    <3>3. s \in Seq(Versions)
      BY <3>1, <3>2, AppendProperties
    <3>4. disk' = [disk EXCEPT ![req[r].out] = s]
      BY <2>2 DEF Block, PutBlock
    <3> HIDE DEF s
    <3> QED BY <3>1, <3>3, <3>4 DEF CacheInv
  <2> QED BY <2>1, <2>2
<1>5. Others(cache, cache', u) /\ FewestHits(cache, cache')
  BY <1>2, SameOthers, NoneFreed
<1>6. TableOK(cache') /\ doc' \in [Urls -> Versions]
  BY <1>2 DEF CacheInv
<1>7. Holds(q) => Has(cache', u) /\ cache'.entry[u].lock = r
  BY <1>2, <1>3, MineFacts DEF Holds
<1> HIDE DEF u
<1> QED BY <1>2, <1>3, <1>4, <1>5, <1>6, <1>7, LoadStep

LEMMA StreamOverStep ==
    ASSUME CacheInv, NEW r \in Requests, Complete(r) \/ CutShort(r) \/ Interrupt(r)
    PROVE  CacheInv' /\ FewestHits(cache, cache')
<1> DEFINE u == req[r].url
<1>1. /\ u \in Urls /\ Mine(r, u) /\ req[r].net = "body" /\ req[r] \in Load /\ LoadOK(req[r])
      /\ doc' = doc /\ DiskIs(disk)
  BY MineFacts DEF Complete, CutShort, Loaded, Interrupt, Busy
<1>2. PICK abort \in BOOLEAN : cache' = FreeStream(r, abort)
  BY DEF Complete, CutShort, Loaded, Interrupt
<1>3. PICK q : /\ req' = [req EXCEPT ![r] = q]
               /\ q \in Load /\ LoadOK(q) /\ ~Holds(q) /\ (Active(q) => q.url = u)
  <2>1. req' = [req EXCEPT ![r] = Idle] \/ (req[r].read # "no" /\ req' = [req EXCEPT ![r] = NetOver(req[r])])
    BY DEF Complete, CutShort, Loaded, Interrupt, NetOver
  <2>2. CASE req' = [req EXCEPT ![r] = Idle]
    BY <2>2, IdleFacts
  <2>3. CASE req[r].read # "no" /\ req' = [req EXCEPT ![r] = NetOver(req[r])]
    <3> DEFINE q == NetOver(req[r])
    <3>1. q \in Load /\ LoadOK(q) /\ ~Holds(q) /\ q.url = u
      BY <1>1, <2>3, NetOverFacts
    <3> QED BY <2>3, <3>1
  <2> QED BY <2>1, <2>2, <2>3
<1>4. TableOK(cache') /\ Others(cache, cache', u) /\ FewestHits(cache, cache')
  BY <1>1, <1>2, StreamTable
<1>5. disk' \in [Files -> Seq(Versions)]
  BY <1>1, DiskFacts DEF CacheInv
<1>6. doc' \in [Urls -> Versions]
  BY <1>1 DEF CacheInv
<1> HIDE DEF u
<1> QED BY <1>1, <1>3, <1>4, <1>5, <1>6, LoadStep

\* The steps of a load that only reads.
LEMMA ReaderStep ==
    ASSUME CacheInv, NEW r \in Requests, Busy(r), cache' = cache, doc' = doc,
           disk' \in [Files -> Seq(Versions)],
           NEW q \in Load, req' = [req EXCEPT ![r] = q], LoadOK(q),
           Active(q) => q.url = req[r].url, Holds(q) <=> Holds(req[r])
    PROVE  CacheInv' /\ FewestHits(cache, cache')
<1> DEFINE u == req[r].url
<1>1. u \in Urls /\ Mine(r, u)
  BY MineFacts
<1>2. Others(cache, cache', u) /\ FewestHits(cache, cache')
  BY SameOthers, NoneFreed
<1>3. TableOK(cache') /\ doc' \in [Urls -> Versions]
  BY DEF CacheInv
<1>4. Holds(q) => Has(cache', u) /\ cache'.entry[u].lock = r
  BY MineFacts
<1>5. Active(q) => q.url = u
  OBVIOUS
<1> HIDE DEF u
<1> QED BY <1>1, <1>2, <1>3, <1>4, <1>5, LoadStep

LEMMA OpenStep ==
    ASSUME CacheInv, NEW r \in Requests, OpenCached(r)
    PROVE  CacheInv' /\ FewestHits(cache, cache')
<1> DEFINE f == cache.name[req[r].url]
<1>1. /\ req[r] \in Load /\ LoadOK(req[r]) /\ req[r].url \in Urls /\ req[r].read = "waits" /\ Busy(r)
      /\ cache' = cache /\ doc' = doc /\ disk' = disk /\ disk' \in [Files -> Seq(Versions)]
  BY MineFacts DEF OpenCached, Busy, CacheInv
<1>2. PICK q : /\ req' = [req EXCEPT ![r] = q] /\ q \in Load /\ LoadOK(q)
               /\ (Active(q) => q.url = req[r].url) /\ (Holds(q) <=> Holds(req[r]))
  <2>1. \/ req' = [req EXCEPT ![r] = ReadOver(req[r])]
        \/ f # NoFile /\ req' = [req EXCEPT ![r] = Opened(req[r], f)]
    BY <1>1 DEF OpenCached, Opened, CacheInv
  <2>2. CASE req' = [req EXCEPT ![r] = ReadOver(req[r])]
    <3> DEFINE q == ReadOver(req[r])
    <3>1. q \in Load /\ LoadOK(q) /\ (Active(q) => q.url = req[r].url) /\ (Holds(q) <=> Holds(req[r]))
      BY <1>1, ReadOverFacts
    <3> QED BY <2>2, <3>1
  <2>3. CASE f # NoFile /\ req' = [req EXCEPT ![r] = Opened(req[r], f)]
    <3> DEFINE q == Opened(req[r], f)
    <3>1. f \in Files /\ f[1] = req[r].url
      BY <1>1, <2>3 DEF CacheInv, TableOK, CacheRec, NamesOK
    <3> HIDE DEF f
    <3>2. q \in Load /\ LoadOK(q) /\ q.url = req[r].url /\ (Holds(q) <=> Holds(req[r]))
      BY <1>1, <2>3, <3>1, OpenFacts
    <3> QED BY <2>3, <3>2
  <2> QED BY <2>1, <2>2, <2>3
<1> QED BY <1>1, <1>2, ReaderStep

LEMMA ReadStep ==
    ASSUME CacheInv, NEW r \in Requests, ReadCached(r)
    PROVE  CacheInv' /\ FewestHits(cache, cache')
<1> DEFINE s == disk[req[r].file]
           got == Append(req[r].got, s[req[r].at + 1])
<1>1. /\ req[r] \in Load /\ LoadOK(req[r]) /\ req[r].read = "open" /\ Busy(r)
      /\ cache' = cache /\ doc' = doc /\ DiskIs(disk) /\ disk \in [Files -> Seq(Versions)]
  BY MineFacts DEF ReadCached, Busy, CacheInv
<1>2. disk' \in [Files -> Seq(Versions)]
  BY <1>1, DiskFacts
<1>3. s \in Seq(Versions) /\ req[r].at \in Nat /\ req[r].got \in Seq(Versions)
  BY <1>1, OpenFileFacts DEF Load
<1>4. PICK q : /\ req' = [req EXCEPT ![r] = q] /\ q \in Load /\ LoadOK(q)
               /\ (Active(q) => q.url = req[r].url) /\ (Holds(q) <=> Holds(req[r]))
  <2>1. CASE req[r].at >= Len(s)
    <3>1. req' = [req EXCEPT ![r] = ReadOver(req[r])]
      BY <2>1 DEF ReadCached
    <3> DEFINE q == ReadOver(req[r])
    <3>2. q \in Load /\ LoadOK(q) /\ (Active(q) => q.url = req[r].url) /\ (Holds(q) <=> Holds(req[r]))
      BY <1>1, ReadOverFacts
    <3> QED BY <3>1, <3>2
  <2>2. CASE ~(req[r].at >= Len(s))
    <3>1. req' = [req EXCEPT ![r] = ReadOne(req[r], got)]
      BY <1>1, <2>2 DEF ReadCached, ReadOne, Load
    <3>2. got \in Seq(Versions)
      <4>1. Len(s) \in Nat /\ req[r].at + 1 \in 1..Len(s)
        <5>1. Len(s) \in Nat
          BY <1>3, LenProperties
        <5> QED BY <1>3, <2>2, <5>1
      <4>2. s[req[r].at + 1] \in Versions
        BY <1>3, <4>1, ElementOfSeq
      <4> QED BY <1>3, <4>2, AppendProperties
    <3> HIDE DEF got
    <3> DEFINE q == ReadOne(req[r], got)
    <3>3. q \in Load /\ LoadOK(q) /\ q.url = req[r].url /\ (Holds(q) <=> Holds(req[r]))
      BY <1>1, <3>2, ReadFacts
    <3> QED BY <3>1, <3>3
  <2> QED BY <2>1, <2>2
<1> QED BY <1>1, <1>2, <1>4, ReaderStep

LEMMA ModifyStep ==
    ASSUME CacheInv, "share" \notin Env, NEW r \in Requests, NEW u \in Urls, NEW v \in Versions,
           NEW noContent \in BOOLEAN, Modify(r, u, v, noContent)
    PROVE  CacheInv' /\ FewestHits(cache, cache')
<1> DEFINE q == req[r]
<1>1. /\ Mine(r, u) /\ q \in Load /\ LoadOK(q) /\ ~Active(q)
      /\ req' = [req EXCEPT ![r] = q]
  BY MineFacts DEF Modify, MayLoad, Busy, Active, CacheInv
<1>2. /\ cache' = Touch(Invalidate(cache, u, v, noContent), u, r, v)
      /\ doc' = [doc EXCEPT ![u] = v] /\ DiskIs(disk)
  BY DEF Modify
<1> HIDE DEF q
<1>3. ~Holds(q)
  BY <1>1 DEF Holds, LoadOK, Active
<1>4. TableOK(cache') /\ Has(cache', u) /\ Elsewhere(cache, cache', u)
  BY <1>2, ModifiedTable DEF CacheInv
<1>5. Others(cache, cache', u) /\ FewestHits(cache, cache')
  BY <1>4, SameOthers, NoneFreed
<1>6. disk' \in [Files -> Seq(Versions)] /\ doc' \in [Urls -> Versions]
  BY <1>2, DiskFacts DEF CacheInv
<1> QED BY <1>1, <1>3, <1>4, <1>5, <1>6, LoadStep

\* The steps of nobody.
LEMMA OtherSteps ==
    ASSUME CacheInv,
           \/ Restart
           \/ \E u \in Urls, v \in Versions : Change(u, v)
           \/ \E u \in Urls : Expire(u)
    PROVE  CacheInv' /\ FewestHits(cache, cache')
<1>1. CASE Restart
  <2>1. TableOK(cache') /\ \A u \in Urls : Has(cache', u) <=> Has(cache, u)
    BY <1>1, IndexFacts DEF Restart, CacheInv
  <2>2. \A r \in Requests : ~Busy(r) /\ ~Holds(req[r])
    BY <1>1 DEF Restart, Busy, Holds, CacheInv, LoadsOK, LoadOK
  <2>3. disk' = disk /\ doc' = doc /\ req' = req
    BY <1>1 DEF Restart
  <2>4. LockKeepsOthersOut'
    BY <2>2, <2>3 DEF LockKeepsOthersOut, Holds
  <2>5. FewestHits(cache, cache')
    BY <2>1 DEF FewestHits, Freed
  <2> QED BY <2>1, <2>3, <2>4, <2>5 DEF CacheInv, LoadsOK, Alone, Busy
<1>2. CASE \E u \in Urls, v \in Versions : Change(u, v)
  <2>1. PICK u \in Urls, v \in Versions : Change(u, v)
    BY <1>2
  <2>2. cache' = cache /\ disk' = disk /\ req' = req /\ doc' \in [Urls -> Versions]
    BY <2>1 DEF Change, CacheInv
  <2>3. FewestHits(cache, cache')
    BY <2>2, NoneFreed
  <2> QED BY <2>2, <2>3 DEF CacheInv, LoadsOK, Alone, Busy, LockKeepsOthersOut
<1>3. CASE \E u \in Urls : Expire(u)
  <2>1. PICK u \in Urls : Expire(u)
    BY <1>3
  <2>2. PICK f \in BOOLEAN : cache' = Aged(cache, u, f)
    BY <2>1 DEF Expire, Aged
  <2>3. Has(cache, u) /\ disk' = disk /\ doc' = doc /\ req' = req
    BY <2>1 DEF Expire
  <2>4. /\ TableOK(cache') /\ Has(cache', u) /\ Elsewhere(cache, cache', u)
        /\ EntryIs(cache'.entry[u], cache.entry[u].version, f, cache.entry[u].range,
                   cache.entry[u].size, cache.entry[u].hits, cache.entry[u].lock)
    BY <2>2, <2>3, AgedTable DEF CacheInv
  <2>5. cache'.entry[u].lock = cache.entry[u].lock
    BY <2>4 DEF EntryIs
  <2>6. LockKeepsOthersOut'
    <3> SUFFICES ASSUME NEW o \in Requests, Holds(req[o])
                 PROVE  Has(cache', req[o].url) /\ cache'.entry[req[o].url].lock = o
      BY <2>3 DEF LockKeepsOthersOut, Holds
    <3>1. req[o].url \in Urls /\ Has(cache, req[o].url) /\ cache.entry[req[o].url].lock = o
      BY MineFacts
    <3> QED BY <2>4, <2>5, <3>1 DEF Elsewhere, Has
  <2>7. FewestHits(cache, cache')
    BY <2>4, NoneFreed
  <2> QED BY <2>3, <2>4, <2>6, <2>7 DEF CacheInv, LoadsOK, Alone, Busy
<1> QED BY <1>1, <1>2, <1>3

LEMMA InitInv == Init => CacheInv
<1> SUFFICES ASSUME Init PROVE CacheInv
  OBVIOUS
<1>1. /\ cache.chain = [b \in Range(Buckets) |-> <<>>] /\ cache.entry = [u \in Urls |-> NoEntry]
      /\ cache.name = [u \in Urls |-> NoFile] /\ cache.content = 0
  BY DEF Init
<1>2. <<>> \in Seq(Urls) /\ <<>> \in Seq(Versions) /\ AnyVersion \in Versions
  BY EmptySeq, CacheAssumption DEF AnyVersion
<1>3. cache \in CacheRec
  BY <1>2 DEF Init, CacheRec
<1>4. \A u \in Urls : ~Has(cache, u) /\ SizeOf(cache, u) = 0
  BY <1>1 DEF Has, SizeOf
<1>5. ChainsOK(cache)
  <2>1. IsInjective(<<>>) /\ Range(<<>>) = {}
    BY DEF IsInjective, Range
  <2> QED BY <1>1, <2>1 DEF ChainsOK
<1>6. TableOK(cache)
  <2>1. EntryType(cache)
    BY <1>3, <1>1 DEF EntryType
  <2>2. SumSizes(cache) = 0
    BY <1>4, <2>1, SumZero
  <2>3. cache.content >= SumSizes(cache)
    BY <1>1, <2>2
  <2>4. NamesOK(cache)
    BY <1>1 DEF NamesOK
  <2> QED BY <1>3, <1>5, <2>3, <2>4 DEF TableOK
<1>7. \A r \in Requests : req[r] = Idle
  BY DEF Init
<1>8. req \in [Requests -> Load] /\ LoadsOK
  BY <1>7, IdleFacts DEF Init, LoadsOK
<1>9. Alone /\ LockKeepsOthersOut
  BY <1>7, IdleFacts DEF Alone, Busy, LockKeepsOthersOut
<1>10. disk \in [Files -> Seq(Versions)] /\ doc \in [Urls -> Versions]
  BY <1>2 DEF Init
<1> QED BY <1>6, <1>8, <1>9, <1>10 DEF CacheInv

LEMMA NextInv ==
    ASSUME CacheInv, [Next]_vars, "share" \notin Env
    PROVE  CacheInv' /\ FewestHits(cache, cache')
<1>1. CASE UNCHANGED vars
  <2>1. cache' = cache /\ disk' = disk /\ doc' = doc /\ req' = req
    BY <1>1 DEF vars
  <2>2. FewestHits(cache, cache')
    BY <2>1, NoneFreed
  <2> QED BY <2>1, <2>2 DEF CacheInv, LoadsOK, Alone, Busy, LockKeepsOthersOut
<1>2. CASE Restart
  BY <1>2, OtherSteps
<1>3. CASE \E u \in Urls : Expire(u) \/ \E v \in Versions : Change(u, v)
  BY <1>3, OtherSteps
<1>4. ASSUME NEW r \in Requests, NEW u \in Urls,
             \/ \E flag \in BOOLEAN : LoadFromNet(r, u, flag) \/ LoadValidate(r, u, flag)
             \/ LoadRange(r, u) \/ LoadFromCache(r, u)
             \/ \E v \in Versions, noContent \in BOOLEAN : Modify(r, u, v, noContent)
      PROVE  CacheInv' /\ FewestHits(cache, cache')
  BY <1>4, NetLoadStep, LockingLoadStep, CacheLoadStep, ModifyStep
<1>5. ASSUME NEW r \in Requests,
             \/ AnswerUncached(r) \/ AnswerWhole(r) \/ AnswerPart(r) \/ AnswerNotModified(r)
             \/ Block(r) \/ Complete(r) \/ CutShort(r) \/ Interrupt(r) \/ OpenCached(r) \/ ReadCached(r)
      PROVE  CacheInv' /\ FewestHits(cache, cache')
  BY <1>5, UncachedStep, WholeStep, PartStep, NotModifiedStep, BlockStep, StreamOverStep,
     OpenStep, ReadStep
<1> QED BY <1>1, <1>2, <1>3, <1>4, <1>5 DEF Next

LEMMA CacheInvariance ==
    ASSUME "share" \notin Env
    PROVE  Spec => []CacheInv
<1>1. CacheInv /\ [Next]_vars => CacheInv'
  BY NextInv
<1> QED BY InitInv, <1>1, PTL DEF Spec

\* The table is what it should be: every entry is in the list of its bucket, once,
\* and nothing else is, through deletions, collections and the index.
THEOREM ListsAreTheEntries ==
    ASSUME "share" \notin Env
    PROVE  Spec => []TypeOK
<1>1. CacheInv => TypeOK
  BY InvImplies
<1> QED BY <1>1, CacheInvariance, PTL

\* A load that validates or writes an entry has it, and the lock on it, to the end.
THEOREM LockIsKept ==
    ASSUME "share" \notin Env
    PROVE  Spec => []LockKeepsOthersOut
<1>1. CacheInv => LockKeepsOthersOut
  BY InvImplies
<1> QED BY <1>1, CacheInvariance, PTL

\* The collector never goes by less than what the entries take.
THEOREM SizesAreCounted ==
    ASSUME "share" \notin Env
    PROVE  Spec => []ContentCovers
<1>1. CacheInv => ContentCovers
  BY InvImplies
<1> QED BY <1>1, CacheInvariance, PTL

\* The collector takes stale entries first and then those with the fewest hits.
THEOREM CollectorIsFair ==
    ASSUME "share" \notin Env
    PROVE  Spec => LeastUsedFirst
<1>1. CacheInv /\ [Next]_vars =>
         [\A u \in Urls :
             Collected(u) /\ cache.entry[u].fresh /\ cache.entry[u].size <= MaxEntry =>
                 \A w \in Urls :
                     Has(cache', w) => \/ HasLock(cache', w)
                                       \/ /\ cache'.entry[w].fresh
                                          /\ cache'.entry[w].hits >= cache.entry[u].hits]_vars
  BY NextInv DEF FewestHits, Collected, Freed
<1> QED BY <1>1, CacheInvariance, PTL DEF Spec, LeastUsedFirst

(***************************************************************************)
(* What is in the files: a hit is complete.                                *)
(***************************************************************************)
\* The file of an entry holds the document, or the start of it that the entry
\* says it has.
EntryWhole(u, c, d) ==
    LET e == c.entry[u]
        f == c.name[u]
    IN
    /\ ~e.range /\ f # NoFile => Whole(u, d[f])
    /\ e.range /\ f = NoFile => e.size = 0
    /\ e.range /\ f # NoFile => e.size = Len(d[f]) /\ \A i \in DOMAIN d[f] : d[f][i] = e.version

\* The file of a load that writes holds what has come, and what was there before.
WrittenWhole(q, c, d) ==
    /\ q.out # NoFile /\ q.out = c.name[q.url] /\ q.version = c.entry[q.url].version
    /\ Len(d[q.out]) + q.todo = Length[q.url]
    /\ \A i \in DOMAIN d[q.out] : d[q.out][i] = q.version
    /\ ~q.part => q.sent = Len(d[q.out])

ReadWhole(q, d) ==
    Whole(q.url, d[q.file]) /\ q.at <= Len(d[q.file]) /\ q.got = SubSeq(d[q.file], 1, q.at)

LoadWhole(q, c, d) ==
    /\ q.net = "asked" /\ q.cond = "range" => c.entry[q.url].range /\ q.from = c.entry[q.url].size
    /\ q.net = "asked" /\ q.cond = "validate" => ~c.entry[q.url].range
    /\ q.net = "asked" => ~q.part /\ q.sent = 0 /\ q.got = <<>>
    /\ q.net = "body" => WrittenWhole(q, c, d)
    /\ q.read # "no" /\ ~q.part => q.net = "no"
    /\ q.read = "waits" => q.got = <<>>
    /\ q.read = "waits" /\ ~q.part /\ Has(c, q.url) => ~c.entry[q.url].range
    /\ q.read = "open" /\ ~q.part => ReadWhole(q, d)

Writing(u) == \E r \in Requests : req[r].net = "body" /\ req[r].url = u

EntriesWhole == \A u \in Urls : Has(cache, u) /\ ~Writing(u) => EntryWhole(u, cache, disk)
LoadsWhole == \A r \in Requests : LoadWhole(req[r], cache, disk)
UnusedEmpty == \A f \in Files : f \notin InUse => disk[f] = <<>>

HitInv == CacheInv /\ EntriesWhole /\ LoadsWhole /\ UnusedEmpty

\* What is read to its end was whole.
Served ==
    \A r \in Requests :
        req[r].read = "open" /\ ~req[r].part /\ req'[r].read = "no"
            => Whole(req[r].url, req[r].got)

\* A load of another document sees none of it.
LEMMA OtherLoadsWhole ==
    ASSUME CacheInv, LoadsWhole, NEW u \in Urls, Others(cache, cache', u),
           NEW o \in Requests, Active(req[o]) => req[o].url # u,
           \A f \in Files : f \in {req[o].out, req[o].file} /\ f[1] # u => disk'[f] = disk[f]
    PROVE  LoadWhole(req[o], cache', disk')
<1> DEFINE q == req[o]
           w == q.url
<1>1. LoadWhole(q, cache, disk) /\ LoadOK(q) /\ q \in Load /\ w \in Urls
  BY MineFacts DEF LoadsWhole
<1>2. CASE ~Active(q)
  BY <1>2 DEF Active, LoadWhole
<1>3. CASE Active(q)
  <2>1. w # u
    BY <1>3
  <2>2. Holds(q) => Has(cache', w) /\ cache'.entry[w] = cache.entry[w]
    BY <2>1, OtherLoads
  <2>3. Holds(q) => cache'.name[w] = cache.name[w]
    BY <1>1, <2>1, <2>2, MineFacts DEF Others, Freed
  <2>4. Has(cache', w) => Has(cache, w) /\ cache'.entry[w] = cache.entry[w]
    BY <1>1, <2>1 DEF Others, Freed, Has
  <2>5. q.net = "body" => Holds(q) /\ q.out \in Files /\ disk'[q.out] = disk[q.out]
    BY <1>1, <2>1 DEF LoadWhole, WrittenWhole, Holds, LoadOK, Load
  <2>6. q.read = "open" => disk'[q.file] = disk[q.file]
    BY <1>1, <2>1, OpenFileFacts
  <2>7. q.net = "body" => WrittenWhole(q, cache', disk')
    BY <1>1, <2>2, <2>3, <2>5 DEF LoadWhole, WrittenWhole
  <2>8. q.read = "open" /\ ~q.part => ReadWhole(q, disk')
    BY <1>1, <2>6 DEF LoadWhole, ReadWhole
  <2>9. /\ q.net = "asked" /\ q.cond = "range" => cache'.entry[w].range /\ q.from = cache'.entry[w].size
        /\ q.net = "asked" /\ q.cond = "validate" => ~cache'.entry[w].range
    BY <1>1, <2>2 DEF LoadWhole, Holds
  <2>10. /\ q.net = "asked" => ~q.part /\ q.sent = 0 /\ q.got = <<>>
         /\ q.read # "no" /\ ~q.part => q.net = "no"
         /\ q.read = "waits" => q.got = <<>>
         /\ q.read = "waits" /\ ~q.part /\ Has(cache', w) => ~cache'.entry[w].range
    BY <1>1, <2>4 DEF LoadWhole
  <2> QED BY <2>7, <2>8, <2>9, <2>10 DEF LoadWhole
<1> QED BY <1>2, <1>3

\* Files with a name or a reader keep what they have.
FilesKept(u) == \A f \in Files : f \in InUse' /\ f[1] # u => disk'[f] = disk[f]

\* A step of one load, for one document.
LEMMA WholeLoadStep ==
    ASSUME HitInv, CacheInv', NEW r \in Requests, NEW u \in Urls, Mine(r, u),
           Busy(r) => req[r].url = u,
           NEW q \in Load, req' = [req EXCEPT ![r] = q], Active(q) => q.url = u,
           Others(cache, cache', u), FilesKept(u), UnusedEmpty',
           LoadWhole(q, cache', disk'),
           q.net # "body" /\ Has(cache', u) => EntryWhole(u, cache', disk'),
           req[r].read = "open" /\ ~req[r].part /\ q.read = "no" => Whole(u, req[r].got)
    PROVE  HitInv' /\ Served
<1>1. /\ req \in [Requests -> Load] /\ req'[r] = q /\ \A o \in Requests : o # r => req'[o] = req[o]
      /\ cache'.name \in [Urls -> Files \cup {NoFile}]
      /\ \A o \in Requests : o # r /\ Active(req[o]) => req[o].url # u
  BY DEF HitInv, CacheInv, TableOK, CacheRec, Mine, Active, Busy
<1>2. \A o \in Requests : \A f \in Files : f \in {req'[o].out, req'[o].file} => f \in InUse'
  BY DEF InUse
<1>3. LoadsWhole'
  <2> SUFFICES ASSUME NEW o \in Requests PROVE LoadWhole(req'[o], cache', disk')
    BY DEF LoadsWhole
  <2>1. CASE o = r
    BY <1>1, <2>1
  <2>2. CASE o # r
    <3>1. req'[o] = req[o] /\ (Active(req[o]) => req[o].url # u)
      BY <1>1, <2>2
    <3>2. \A f \in Files : f \in {req[o].out, req[o].file} /\ f[1] # u => disk'[f] = disk[f]
      BY <1>2, <3>1 DEF FilesKept
    <3> QED BY <3>1, <3>2, OtherLoadsWhole DEF HitInv
  <2> QED BY <2>1, <2>2
<1>4. EntriesWhole'
  <2> SUFFICES ASSUME NEW w \in Urls, Has(cache', w), ~Writing(w)'
               PROVE  EntryWhole(w, cache', disk')
    BY DEF EntriesWhole
  <2>1. CASE w = u
    <3>1. q.net # "body"
      BY <1>1, <2>1 DEF Writing, Active
    <3> QED BY <2>1, <3>1
  <2>2. CASE w # u
    <3>1. Has(cache, w) /\ cache'.entry[w] = cache.entry[w] /\ cache'.name[w] = cache.name[w]
      BY <2>2 DEF Others, Freed, Has
    <3>2. ~Writing(w)
      BY <1>1, <2>2 DEF Writing, Busy
    <3>3. EntryWhole(w, cache, disk)
      BY <3>1, <3>2 DEF HitInv, EntriesWhole
    <3>4. cache'.name[w] # NoFile => disk'[cache'.name[w]] = disk[cache'.name[w]]
      <4> SUFFICES ASSUME cache'.name[w] # NoFile PROVE disk'[cache'.name[w]] = disk[cache'.name[w]]
        OBVIOUS
      <4>1. cache'.name[w] \in Files /\ cache'.name[w][1] = w
        BY <1>1 DEF CacheInv, TableOK, NamesOK
      <4>2. cache'.name[w] \in InUse'
        BY <1>1 DEF InUse, Range
      <4> QED BY <2>2, <4>1, <4>2 DEF FilesKept
    <3> QED BY <3>1, <3>3, <3>4 DEF EntryWhole
  <2> QED BY <2>1, <2>2
<1>5. Served
  <2> SUFFICES ASSUME NEW o \in Requests, req[o].read = "open", ~req[o].part, req'[o].read = "no"
               PROVE  Whole(req[o].url, req[o].got)
    BY DEF Served
  <2>1. o = r
    BY <1>1
  <2> QED BY <1>1, <2>1 DEF Busy
<1> QED BY <1>3, <1>4, <1>5 DEF HitInv

LEMMA NotWritten ==
    ASSUME HitInv, NEW r \in Requests, NEW u \in Urls, Mine(r, u), req[r].net # "body",
           Has(cache, u)
    PROVE  EntryWhole(u, cache, disk)
<1>1. ~Writing(u)
  BY DEF Writing, Mine, Busy
<1> QED BY <1>1 DEF HitInv, EntriesWhole

LEMMA SameEntry ==
    ASSUME NEW u, NEW c, NEW d, NEW k, NEW j, EntryWhole(u, c, k), d.name[u] = c.name[u],
           d.entry[u].version = c.entry[u].version, d.entry[u].range = c.entry[u].range,
           d.entry[u].size = c.entry[u].size, d.name[u] # NoFile => j[d.name[u]] = k[d.name[u]]
    PROVE  EntryWhole(u, d, j)
<1>1. CASE d.name[u] = NoFile
  BY <1>1 DEF EntryWhole
<1>2. CASE d.name[u] # NoFile
  BY <1>2 DEF EntryWhole
<1> QED BY <1>1, <1>2

\* No file loses its last name or reader.
LEMMA StillUsed ==
    ASSUME CacheInv, UnusedEmpty, NEW r \in Requests, NEW q \in Load, req' = [req EXCEPT ![r] = q],
           cache' \in CacheRec, \A w \in Urls : cache.name[w] = NoFile \/ cache'.name[w] = cache.name[w],
           req[r].out = NoFile \/ q.out = req[r].out,
           req[r].file = NoFile \/ q.file = req[r].file,
           \A f \in Files : f \notin InUse => disk'[f] = disk[f]
    PROVE  UnusedEmpty'
<1>1. /\ req'[r] = q /\ \A o \in Requests : o # r => req'[o] = req[o]
      /\ DOMAIN cache.name = Urls /\ DOMAIN cache'.name = Urls
  BY DEF CacheInv, TableOK, CacheRec
<1>2. NoFile \notin Files
  BY CacheAssumption DEF Files
<1> SUFFICES ASSUME NEW f \in Files, f \in InUse PROVE f \in InUse'
  BY DEF UnusedEmpty
<1>3. CASE f \in Range(cache.name)
  <2>1. PICK w \in Urls : cache.name[w] = f
    BY <1>1, <1>3 DEF Range
  <2>2. cache'.name[w] = f
    BY <1>2, <2>1
  <2> QED BY <1>1, <2>2 DEF InUse, Range
<1>4. CASE \E o \in Requests : f \in {req[o].out, req[o].file}
  <2>1. PICK o \in Requests : f \in {req[o].out, req[o].file}
    BY <1>4
  <2>2. f \in {req'[o].out, req'[o].file}
    BY <1>1, <1>2, <2>1
  <2> QED BY <2>2 DEF InUse
<1> QED BY <1>3, <1>4 DEF InUse

LEMMA SameFiles ==
    ASSUME NEW u, disk' = disk
    PROVE  FilesKept(u)
  BY DEF FilesKept

\* The files after a step that may close some.
LEMMA ClosedFiles ==
    ASSUME NEW u, NEW d \in [Files -> Seq(Versions)], DiskIs(d),
           \A f \in Files : f[1] # u => d[f] = disk[f]
    PROVE  FilesKept(u) /\ UnusedEmpty'
<1>1. \A f \in Files : disk'[f] = IF f \in InUse' THEN d[f] ELSE <<>>
  BY DEF DiskIs
<1> QED BY <1>1 DEF FilesKept, UnusedEmpty

LEMMA IdleWhole ==
    ASSUME NEW c, NEW d
    PROVE  LoadWhole(Idle, c, d)
  BY IdleFacts DEF LoadWhole

\* The environment of the theorem: what breaks a hit is left out.
Quiet == Env \cap {"share", "breakAppend", "overwrite"} = {} /\ Fragile = {}

LEMMA NetLoadWhole ==
    ASSUME HitInv, Quiet, NEW r \in Requests, NEW u \in Urls, NEW flag \in BOOLEAN,
           LoadFromNet(r, u, flag)
    PROVE  HitInv' /\ Served
<1> DEFINE q == Asked(u, "no", 0)
<1>0. CacheInv /\ CacheInv' /\ req[r] \in Load /\ LoadOK(req[r]) /\ ~Busy(r)
  BY NetLoadStep, MineFacts DEF HitInv, Quiet, LoadFromNet, MayLoad
<1>1. /\ q \in Load /\ LoadOK(q) /\ q.url = u /\ q.net = "asked" /\ q.cond = "no" /\ q.read = "no"
      /\ q.out = NoFile /\ q.file = NoFile /\ q.sent = 0 /\ ~q.part /\ q.got = <<>>
  <2>1. "no" \in {"no", "validate", "range"} /\ 0 \in Nat
    OBVIOUS
  <2> QED BY <2>1, AskedFacts
<1> HIDE DEF q
<1>2. Mine(r, u) /\ req' = [req EXCEPT ![r] = q] /\ cache' = cache /\ disk' = disk
  BY <1>0, MineFacts DEF LoadFromNet, Quiet, q
<1>3. Others(cache, cache', u) /\ FilesKept(u)
  BY <1>2, SameOthers, SameFiles
<1>4. req[r].out = NoFile /\ req[r].file = NoFile /\ req[r].net # "body" /\ req[r].read = "no"
  BY <1>0 DEF LoadOK, Busy
<1>5. UnusedEmpty'
  BY <1>0, <1>1, <1>2, <1>4, StillUsed DEF HitInv, CacheInv, TableOK
<1>6. LoadWhole(q, cache', disk')
  BY <1>1 DEF LoadWhole
<1>7. Has(cache', u) => EntryWhole(u, cache', disk')
  BY <1>2, <1>4, NotWritten
<1> QED BY <1>0, <1>1, <1>2, <1>3, <1>4, <1>5, <1>6, <1>7, WholeLoadStep

LEMMA LockingLoadWhole ==
    ASSUME HitInv, Quiet, NEW r \in Requests, NEW u \in Urls,
           LoadRange(r, u) \/ \E flag \in BOOLEAN : LoadValidate(r, u, flag)
    PROVE  HitInv' /\ Served
<1>0. CacheInv /\ CacheInv' /\ req[r] \in Load /\ LoadOK(req[r]) /\ ~Busy(r)
  BY LockingLoadStep, MineFacts DEF HitInv, Quiet, LoadRange, LoadValidate, MayLoad
<1>1. PICK q : /\ req' = [req EXCEPT ![r] = q]
               /\ q \in Load /\ LoadOK(q) /\ q.url = u /\ q.net = "asked" /\ q.read = "no"
               /\ q.out = NoFile /\ q.file = NoFile /\ q.sent = 0 /\ ~q.part /\ q.got = <<>>
               /\ q.cond = "range" => cache.entry[u].range /\ q.from = cache.entry[u].size
               /\ q.cond = "validate" => ~cache.entry[u].range
  <2>1. CASE LoadRange(r, u)
    <3> DEFINE q == Asked(u, "range", cache.entry[u].size)
    <3>1. cache.entry[u].size \in Nat
      BY <2>1, EntryParts DEF LoadRange, HitInv, CacheInv
    <3>2. /\ q \in Load /\ LoadOK(q) /\ q.url = u /\ q.net = "asked" /\ q.read = "no"
          /\ q.out = NoFile /\ q.file = NoFile /\ q.sent = 0 /\ ~q.part /\ q.got = <<>>
          /\ q.cond = "range" /\ q.from = cache.entry[u].size
      BY <3>1, AskedFacts
    <3> QED BY <2>1, <3>2 DEF LoadRange
  <2>2. CASE \E flag \in BOOLEAN : LoadValidate(r, u, flag)
    <3> DEFINE q == Asked(u, "validate", 0)
    <3>1. /\ q \in Load /\ LoadOK(q) /\ q.url = u /\ q.net = "asked" /\ q.read = "no"
          /\ q.out = NoFile /\ q.file = NoFile /\ q.sent = 0 /\ ~q.part /\ q.got = <<>>
          /\ q.cond = "validate"
      BY AskedFacts
    <3> QED BY <2>2, <3>1 DEF LoadValidate
  <2> QED BY <2>1, <2>2
<1>2. /\ Mine(r, u) /\ Has(cache, u) /\ cache' = Locked(cache, u, r) /\ disk' = disk
  BY <1>0, MineFacts DEF LoadRange, LoadValidate, Locked, Quiet
<1>3. /\ TableOK(cache') /\ Has(cache', u) /\ Elsewhere(cache, cache', u)
      /\ cache'.name[u] = cache.name[u] /\ cache'.entry[u].version = cache.entry[u].version
      /\ cache'.entry[u].range = cache.entry[u].range /\ cache'.entry[u].size = cache.entry[u].size
  <2>1. /\ TableOK(cache') /\ Has(cache', u) /\ Elsewhere(cache, cache', u)
        /\ cache'.name[u] = cache.name[u]
        /\ EntryIs(cache'.entry[u], cache.entry[u].version, cache.entry[u].fresh, cache.entry[u].range,
                   cache.entry[u].size, cache.entry[u].hits, r)
    BY <1>0, <1>2, LockedTable DEF CacheInv
  <2> QED BY <2>1 DEF EntryIs
<1>4. req[r].out = NoFile /\ req[r].file = NoFile /\ req[r].net # "body" /\ req[r].read = "no"
  BY <1>0 DEF LoadOK, Busy
<1>5. Others(cache, cache', u) /\ FilesKept(u)
  BY <1>2, <1>3, SameOthers, SameFiles
<1>6. UnusedEmpty'
  <2>1. cache' \in CacheRec /\ \A w \in Urls : cache'.name[w] = cache.name[w]
    BY <1>3 DEF TableOK, Elsewhere
  <2> QED BY <1>0, <1>1, <1>2, <1>4, <2>1, StillUsed DEF HitInv
<1>7. LoadWhole(q, cache', disk')
  BY <1>1, <1>3 DEF LoadWhole
<1>8. EntryWhole(u, cache', disk')
  <2>1. EntryWhole(u, cache, disk)
    BY <1>2, <1>4, NotWritten
  <2> QED BY <1>2, <1>3, <2>1, SameEntry
<1> QED BY <1>0, <1>1, <1>2, <1>4, <1>5, <1>6, <1>7, <1>8, WholeLoadStep

LEMMA CacheLoadWhole ==
    ASSUME HitInv, Quiet, NEW r \in Requests, NEW u \in Urls, LoadFromCache(r, u)
    PROVE  HitInv' /\ Served
<1> DEFINE q == FromCache(u)
<1>0. CacheInv /\ CacheInv' /\ req[r] \in Load /\ LoadOK(req[r]) /\ ~Busy(r)
  BY CacheLoadStep, MineFacts DEF HitInv, Quiet, LoadFromCache, MayLoad
<1>1. /\ q \in Load /\ LoadOK(q) /\ q.url = u /\ q.net = "no" /\ q.read = "waits" /\ ~q.part
      /\ q.out = NoFile /\ q.file = NoFile /\ q.got = <<>>
  BY CachedFacts
<1> HIDE DEF q
<1>2. /\ Mine(r, u) /\ req' = [req EXCEPT ![r] = q] /\ Has(cache, u) /\ ~cache.entry[u].range
      /\ cache' = Hit(cache, u) /\ disk' = disk
  BY <1>0, MineFacts DEF LoadFromCache, Hit, FromCache, Quiet, q
<1>3. /\ TableOK(cache') /\ Has(cache', u) /\ Elsewhere(cache, cache', u)
      /\ cache'.name[u] = cache.name[u] /\ cache'.entry[u].version = cache.entry[u].version
      /\ cache'.entry[u].range = cache.entry[u].range /\ cache'.entry[u].size = cache.entry[u].size
  <2>1. /\ TableOK(cache') /\ Has(cache', u) /\ Elsewhere(cache, cache', u)
        /\ cache'.name[u] = cache.name[u]
        /\ EntryIs(cache'.entry[u], cache.entry[u].version, cache.entry[u].fresh, cache.entry[u].range,
                   cache.entry[u].size, cache.entry[u].hits + 1, cache.entry[u].lock)
    BY <1>0, <1>2, HitTable DEF CacheInv
  <2> QED BY <2>1 DEF EntryIs
<1>4. req[r].out = NoFile /\ req[r].file = NoFile /\ req[r].net # "body" /\ req[r].read = "no"
  BY <1>0 DEF LoadOK, Busy
<1>5. Others(cache, cache', u) /\ FilesKept(u)
  BY <1>2, <1>3, SameOthers, SameFiles
<1>6. UnusedEmpty'
  <2>1. cache' \in CacheRec /\ \A w \in Urls : cache'.name[w] = cache.name[w]
    BY <1>3 DEF TableOK, Elsewhere
  <2> QED BY <1>0, <1>1, <1>2, <1>4, <2>1, StillUsed DEF HitInv
<1>7. LoadWhole(q, cache', disk')
  BY <1>1, <1>2, <1>3 DEF LoadWhole
<1>8. EntryWhole(u, cache', disk')
  <2>1. EntryWhole(u, cache, disk)
    BY <1>2, <1>4, NotWritten
  <2> QED BY <1>2, <1>3, <2>1, SameEntry
<1> QED BY <1>0, <1>1, <1>2, <1>4, <1>5, <1>6, <1>7, <1>8, WholeLoadStep

LEMMA UncachedWhole ==
    ASSUME HitInv, NEW r \in Requests, AnswerUncached(r)
    PROVE  HitInv' /\ Served
<1> DEFINE u == req[r].url
<1>0. CacheInv /\ CacheInv' /\ LoadOK(req[r])
  BY UncachedStep, MineFacts DEF HitInv
<1>1. /\ u \in Urls /\ Mine(r, u) /\ req[r].net = "asked" /\ req' = [req EXCEPT ![r] = Idle]
      /\ cache' = cache /\ disk' = disk
  BY <1>0, MineFacts DEF AnswerUncached, Busy
<1>2. req[r].out = NoFile /\ req[r].file = NoFile /\ req[r].net # "body" /\ req[r].read = "no"
  BY <1>0, <1>1 DEF LoadOK
<1>3. Others(cache, cache', u) /\ FilesKept(u)
  BY <1>1, SameOthers, SameFiles
<1>4. UnusedEmpty'
  BY <1>0, <1>1, <1>2, IdleFacts, StillUsed DEF HitInv, CacheInv, TableOK
<1>5. Has(cache', u) => EntryWhole(u, cache', disk')
  BY <1>1, <1>2, NotWritten
<1>6. Busy(r) => req[r].url = u
  OBVIOUS
<1> HIDE DEF u
<1> QED BY <1>0, <1>1, <1>2, <1>3, <1>4, <1>5, <1>6, IdleFacts, IdleWhole, WholeLoadStep

LEMMA WholeWhole ==
    ASSUME HitInv, NEW r \in Requests, AnswerWhole(r)
    PROVE  HitInv' /\ Served
<1> DEFINE u == req[r].url
           f == FileOf(u)
           q == WholeBody(r, f)
           b == NewEntry(cache, u, r, doc[u])
           k == [disk EXCEPT ![f] = <<>>]
<1>0. CacheInv /\ CacheInv' /\ req[r] \in Load /\ LoadOK(req[r]) /\ LoadWhole(req[r], cache, disk)
  BY WholeStep, MineFacts DEF HitInv, LoadsWhole
<1>1. /\ u \in Urls /\ Mine(r, u) /\ req[r].net = "asked" /\ ~LockedOut(cache, u, r)
      /\ req' = [req EXCEPT ![r] = q] /\ doc[u] \in Versions
      /\ cache' = Named(b, u, f) /\ DiskIs(k)
  <2>1. /\ req[r].net = "asked" /\ ~LockedOut(cache, u, r)
        /\ req' = [req EXCEPT ![r] = q] /\ cache' = Named(b, u, f) /\ DiskIs(k)
    BY DEF AnswerWhole, Named, WholeBody
  <2>2. u \in Urls /\ (Busy(r) => Mine(r, u))
    BY <1>0, MineFacts
  <2>3. Busy(r) /\ doc[u] \in Versions
    BY <1>0, <2>1, <2>2 DEF Busy, CacheInv
  <2> QED BY <2>1, <2>2, <2>3
<1>2. f \in Files /\ f[1] = u /\ f # NoFile
  BY <1>0, <1>1, FileFacts
<1>3. /\ TableOK(cache') /\ Has(cache', u) /\ Elsewhere(cache, cache', u) /\ cache'.name[u] = f
      /\ cache'.entry[u].version = doc[u]
  BY <1>0, <1>1, WrittenTable
<1> HIDE DEF b, f, q
<1>4. /\ q \in Load /\ q.url = u /\ q.net = "body" /\ q.out = f /\ q.version = doc[u]
      /\ q.todo = Length[u] /\ q.read = req[r].read /\ q.part = req[r].part /\ q.sent = req[r].sent
  <2>1. q = WholeBody(r, f)
    BY DEF q
  <2> QED BY <1>0, <1>1, <1>2, <2>1, BodyFacts
<1>5. req[r].read = "no" /\ q.read = "no" /\ ~q.part /\ q.sent = 0
  BY <1>0, <1>1, <1>4 DEF LoadOK, LoadWhole
<1>6. k \in [Files -> Seq(Versions)] /\ k[f] = <<>> /\ \A g \in Files : g[1] # u => k[g] = disk[g]
  <2>1. <<>> \in Seq(Versions)
    BY EmptySeq
  <2> QED BY <1>0, <1>2, <2>1 DEF CacheInv
<1> HIDE DEF k
<1>7. FilesKept(u) /\ UnusedEmpty'
  BY <1>1, <1>6, ClosedFiles
<1>8. disk'[f] = <<>>
  <2>1. f \in InUse'
    <3>1. req'[r].out = f
      BY <1>0, <1>1, <1>4 DEF CacheInv
    <3> QED BY <3>1 DEF InUse
  <2> QED BY <1>1, <1>2, <1>6, <2>1, DiskFacts
<1>9. WrittenWhole(q, cache', disk')
  <2>1. Len(disk'[f]) = 0 /\ DOMAIN disk'[f] = {} /\ Length[u] \in Nat
    BY <1>1, <1>8, EmptySeq, CacheAssumption
  <2>2. Len(disk'[f]) + q.todo = Length[u]
    BY <1>4, <2>1
  <2> QED BY <1>2, <1>3, <1>4, <1>5, <2>1, <2>2 DEF WrittenWhole
<1>10. LoadWhole(q, cache', disk')
  BY <1>4, <1>5, <1>9 DEF LoadWhole
<1>11. Others(cache, cache', u) /\ (Busy(r) => req[r].url = u)
  BY <1>3, SameOthers
<1> HIDE DEF u
<1> QED BY <1>0, <1>1, <1>4, <1>5, <1>7, <1>10, <1>11, WholeLoadStep

LEMMA PartWhole ==
    ASSUME HitInv, NEW r \in Requests, AnswerPart(r)
    PROVE  HitInv' /\ Served
<1> DEFINE u == req[r].url
           f == FileOf(u)
           q == PartBody(r, f)
           b == NewEntry(cache, u, r, doc[u])
<1>0. CacheInv /\ CacheInv' /\ req[r] \in Load /\ LoadOK(req[r]) /\ LoadWhole(req[r], cache, disk)
  BY PartStep, MineFacts DEF HitInv, LoadsWhole
<1>1. /\ u \in Urls /\ Mine(r, u) /\ req[r].net = "asked" /\ req[r].cond = "range"
      /\ ~LockedOut(cache, u, r) /\ Has(cache, u) /\ cache.entry[u].version = doc[u]
      /\ req[r].from < Length[req[r].url]
      /\ req' = [req EXCEPT ![r] = q] /\ doc[u] \in Versions
      /\ cache' = NamedHit(b, u, f) /\ DiskIs(disk)
  BY <1>0, MineFacts DEF AnswerPart, Busy, NamedHit, PartBody, CacheInv
<1>2. /\ f \in Files /\ f[1] = u /\ f # NoFile
      /\ cache.name[u] = NoFile => f \notin InUse
      /\ cache.name[u] # NoFile => f = cache.name[u]
  BY <1>0, <1>1, FileFacts
<1>3. /\ TableOK(cache') /\ Has(cache', u) /\ Elsewhere(cache, cache', u) /\ cache'.name[u] = f
      /\ cache'.entry[u].version = doc[u]
  BY <1>0, <1>1, WrittenTable
<1> HIDE DEF b, f, q
<1>4. /\ q \in Load /\ q.url = u /\ q.net = "body" /\ q.out = f /\ q.version = doc[u]
      /\ q.todo = Length[u] - req[r].from /\ q.read = "waits" /\ q.part /\ q.got = req[r].got
  <2>1. q = PartBody(r, f)
    BY DEF q
  <2> QED BY <1>0, <1>1, <1>2, <2>1, PartFacts
<1>5. req[r].read = "no" /\ q.got = <<>> /\ cache.entry[u].range /\ req[r].from = cache.entry[u].size
  BY <1>0, <1>1, <1>4 DEF LoadOK, LoadWhole
<1>6. /\ Len(disk[f]) = req[r].from /\ \A i \in DOMAIN disk[f] : disk[f][i] = doc[u]
  <2>1. EntryWhole(u, cache, disk)
    BY <1>1, NotWritten
  <2>2. CASE cache.name[u] = NoFile
    <3>1. disk[f] = <<>> /\ req[r].from = 0
      BY <1>2, <1>5, <2>1, <2>2 DEF HitInv, UnusedEmpty, EntryWhole
    <3> QED BY <3>1, EmptySeq
  <2>3. CASE cache.name[u] # NoFile
    BY <1>1, <1>2, <1>5, <2>1, <2>3 DEF EntryWhole
  <2> QED BY <2>2, <2>3
<1>7. FilesKept(u) /\ UnusedEmpty'
  BY <1>0, <1>1, ClosedFiles DEF CacheInv
<1>8. disk'[f] = disk[f]
  <2>1. f \in InUse'
    <3>1. req'[r].out = f
      BY <1>0, <1>1, <1>4 DEF CacheInv
    <3> QED BY <3>1 DEF InUse
  <2> QED BY <1>0, <1>1, <1>2, <2>1, DiskFacts DEF CacheInv
<1>9. WrittenWhole(q, cache', disk')
  <2>1. Len(disk'[f]) + q.todo = Length[u]
    <3>1. Length[u] \in Nat /\ req[r].from \in Nat
      BY <1>0, <1>1, CacheAssumption DEF Load
    <3> QED BY <1>4, <1>6, <1>8, <3>1
  <2> QED BY <1>2, <1>3, <1>4, <1>6, <1>8, <2>1 DEF WrittenWhole
<1>10. LoadWhole(q, cache', disk')
  BY <1>4, <1>5, <1>9 DEF LoadWhole
<1>11. Others(cache, cache', u) /\ (Busy(r) => req[r].url = u)
  BY <1>3, SameOthers
<1> HIDE DEF u
<1> QED BY <1>0, <1>1, <1>4, <1>5, <1>7, <1>10, <1>11, WholeLoadStep

LEMMA NotModifiedWhole ==
    ASSUME HitInv, NEW r \in Requests, AnswerNotModified(r)
    PROVE  HitInv' /\ Served
<1> DEFINE u == req[r].url
           q == NotModified(req[r])
<1>0. CacheInv /\ CacheInv' /\ req[r] \in Load /\ LoadOK(req[r]) /\ LoadWhole(req[r], cache, disk)
  BY NotModifiedStep, MineFacts DEF HitInv, LoadsWhole
<1>1. /\ u \in Urls /\ Mine(r, u) /\ req[r].net = "asked" /\ req[r].cond = "validate"
      /\ req' = [req EXCEPT ![r] = q] /\ disk' = disk /\ doc[u] \in Versions
      /\ Has(cache, u)
      /\ cache' = Hit(UpdateMeta(cache, u, doc[u]), u)
      /\ cache.entry[u].version = doc[u]
  <2>1. /\ req[r].net = "asked" /\ req[r].cond = "validate"
        /\ req' = [req EXCEPT ![r] = q] /\ disk' = disk /\ Has(cache, u)
        /\ cache' = Hit(UpdateMeta(cache, u, doc[u]), u)
        /\ cache.entry[u].version = doc[u]
    BY DEF AnswerNotModified, NotModified, Hit
  <2>2. u \in Urls /\ (Busy(r) => Mine(r, u))
    BY <1>0, MineFacts
  <2>3. Busy(r) /\ doc[u] \in Versions
    BY <1>0, <2>1, <2>2 DEF Busy, CacheInv
  <2> QED BY <2>1, <2>2, <2>3
<1>2. /\ TableOK(cache') /\ Has(cache', u) /\ Elsewhere(cache, cache', u)
      /\ cache'.name[u] = cache.name[u] /\ cache'.entry[u].version = cache.entry[u].version
      /\ cache'.entry[u].range = cache.entry[u].range /\ cache'.entry[u].size = cache.entry[u].size
  BY <1>0, <1>1, UpdatedTable DEF CacheInv
<1> HIDE DEF q
<1>3. /\ q \in Load /\ q.url = u /\ q.net = "no" /\ q.read = "waits" /\ q.out = NoFile
      /\ q.file = NoFile /\ q.part = req[r].part /\ q.got = req[r].got
  <2>1. q = NotModified(req[r])
    BY DEF q
  <2> QED BY <1>0, <1>1, <2>1, NotModifiedFacts
<1>4. /\ req[r].read = "no" /\ req[r].out = NoFile /\ req[r].file = NoFile /\ ~q.part /\ q.got = <<>>
      /\ ~cache.entry[u].range
  BY <1>0, <1>1, <1>3 DEF LoadOK, LoadWhole
<1>5. Others(cache, cache', u) /\ FilesKept(u)
  BY <1>1, <1>2, SameOthers, SameFiles
<1>6. UnusedEmpty'
  <2>1. cache' \in CacheRec /\ \A w \in Urls : cache'.name[w] = cache.name[w]
    BY <1>2 DEF TableOK, Elsewhere
  <2> HIDE DEF u
  <2> QED BY <1>0, <1>1, <1>3, <1>4, <2>1, StillUsed DEF HitInv
<1>7. LoadWhole(q, cache', disk')
  BY <1>2, <1>3, <1>4 DEF LoadWhole
<1>8. EntryWhole(u, cache', disk')
  <2>1. EntryWhole(u, cache, disk)
    BY <1>1, NotWritten
  <2> HIDE DEF u
  <2> QED BY <1>1, <1>2, <2>1, SameEntry
<1>9. Busy(r) => req[r].url = u
  OBVIOUS
<1> HIDE DEF u
<1> QED BY <1>0, <1>1, <1>3, <1>4, <1>5, <1>6, <1>7, <1>8, <1>9, WholeLoadStep

LEMMA BlockWhole ==
    ASSUME HitInv, Quiet, NEW r \in Requests, Block(r)
    PROVE  HitInv' /\ Served
<1> DEFINE u == req[r].url
           f == req[r].out
           v == req[r].version
<1>0. CacheInv /\ CacheInv' /\ req[r] \in Load /\ LoadOK(req[r]) /\ LoadWhole(req[r], cache, disk)
  BY BlockStep, MineFacts DEF HitInv, LoadsWhole
<1>1. PICK sent \in Nat, pipe \in Seq(Versions), got \in Seq(Versions) :
         /\ req' = [req EXCEPT ![r] = OneBlock(req[r], sent, pipe, got)]
         /\ req[r].read # "no" => got = req[r].got
         /\ sent = req[r].sent + 1
  BY <1>0, BlockLoad DEF Quiet
<1> DEFINE q == OneBlock(req[r], sent, pipe, got)
<1>2. /\ u \in Urls /\ Mine(r, u) /\ req[r].net = "body" /\ req[r].todo > 0
      /\ req' = [req EXCEPT ![r] = q] /\ cache' = cache
  BY <1>0, <1>1, MineFacts DEF Block, PutBlock, Busy
<1> HIDE DEF q
<1>3. /\ q \in Load /\ q.url = u /\ q.net = "body"
      /\ q.out = f /\ q.file = req[r].file /\ q.read = req[r].read /\ q.part = req[r].part
      /\ q.version = v /\ q.todo = req[r].todo - 1 /\ q.sent = req[r].sent + 1 /\ q.got = got
  <2>1. q = OneBlock(req[r], sent, pipe, got)
    BY DEF q
  <2>2. /\ q \in Load /\ q.url = req[r].url /\ q.net = "body"
        /\ q.out = req[r].out /\ q.file = req[r].file /\ q.read = req[r].read
        /\ q.part = req[r].part /\ q.version = req[r].version
        /\ q.todo = req[r].todo - 1 /\ q.sent = sent /\ q.got = got
    BY <1>0, <1>2, <2>1, BlockFacts
  <2> QED BY <1>1, <2>2
<1>4. WrittenWhole(req[r], cache, disk) /\ f # NoFile /\ f \in Files /\ f[1] = u /\ v \in Versions
  BY <1>0, <1>2 DEF LoadWhole, WrittenWhole, LoadOK, Load
<1>5. disk[f] \in Seq(Versions)
  BY <1>0, <1>4 DEF CacheInv
<1> DEFINE s == Append(disk[f], v)
<1>6. /\ s \in Seq(Versions) /\ Len(s) = Len(disk[f]) + 1 /\ Len(disk[f]) \in Nat
      /\ \A i \in 1..Len(disk[f]) : s[i] = disk[f][i]
      /\ s[Len(disk[f]) + 1] = v
      /\ DOMAIN s = 1..(Len(disk[f]) + 1) /\ DOMAIN disk[f] = 1..Len(disk[f])
  BY <1>4, <1>5, AppendProperties, LenProperties
<1>7. disk' = [disk EXCEPT ![f] = s]
  BY <1>4 DEF Block, PutBlock
<1> HIDE DEF s
<1>8. disk'[f] = s /\ \A g \in Files : g # f => disk'[g] = disk[g]
  BY <1>0, <1>4, <1>7 DEF CacheInv
<1>9. FilesKept(u)
  BY <1>4, <1>8 DEF FilesKept
<1>10. UnusedEmpty'
  <2>1. f \in InUse
    BY DEF InUse
  <2>2. \A g \in Files : g \notin InUse => disk'[g] = disk[g]
    BY <1>8, <2>1
  <2>3. cache' \in CacheRec /\ \A w \in Urls : cache.name[w] = NoFile \/ cache'.name[w] = cache.name[w]
    BY <1>0, <1>2 DEF CacheInv, TableOK
  <2>4. CacheInv /\ UnusedEmpty
    BY DEF HitInv
  <2>5. (req[r].out = NoFile \/ q.out = req[r].out) /\ (req[r].file = NoFile \/ q.file = req[r].file)
    BY <1>3
  <2>6. q \in Load /\ req' = [req EXCEPT ![r] = q]
    BY <1>2, <1>3
  <2> HIDE DEF u, f
  <2> QED BY <2>2, <2>3, <2>4, <2>5, <2>6, StillUsed, ZenonT(60)
<1>11. WrittenWhole(q, cache', disk')
  <2>1. \A i \in DOMAIN s : s[i] = v
    <3>1. \A i \in 1..Len(disk[f]) : disk[f][i] = v
      BY <1>4, <1>6 DEF WrittenWhole
    <3>2. \A i \in DOMAIN s : i = Len(disk[f]) + 1 \/ i \in 1..Len(disk[f])
      BY <1>6
    <3> QED BY <1>6, <3>1, <3>2
  <2>2. Len(s) + q.todo = Length[u]
    <3>1. req[r].todo \in Nat /\ Len(disk[f]) + req[r].todo = Length[u]
      BY <1>0, <1>4 DEF Load, WrittenWhole
    <3>2. Len(s) = Len(disk[f]) + 1 /\ q.todo = req[r].todo - 1 /\ Len(disk[f]) \in Nat
      BY <1>3, <1>6
    <3> DEFINE n == Len(disk[f])
               k == req[r].todo
    <3>3. (n + 1) + (k - 1) = n + k
      <4>1. n \in Nat /\ k \in Nat
        BY <3>1, <3>2
      <4> HIDE DEF n, k
      <4> QED BY <4>1
    <3> QED BY <3>1, <3>2, <3>3
  <2>3. ~q.part => q.sent = Len(s)
    BY <1>3, <1>4, <1>6 DEF WrittenWhole
  <2> QED BY <1>2, <1>3, <1>4, <1>8, <2>1, <2>2, <2>3 DEF WrittenWhole
<1>12. LoadWhole(q, cache', disk')
  BY <1>0, <1>1, <1>2, <1>3, <1>11 DEF LoadWhole
<1>13. Others(cache, cache', u) /\ (Busy(r) => req[r].url = u)
  BY <1>2, SameOthers
<1> HIDE DEF u
<1> QED BY <1>0, <1>2, <1>3, <1>9, <1>10, <1>12, <1>13, WholeLoadStep

LEMMA StreamOverWhole ==
    ASSUME HitInv, Quiet, NEW r \in Requests, Complete(r) \/ CutShort(r) \/ Interrupt(r)
    PROVE  HitInv' /\ Served
<1> DEFINE u == req[r].url
           f == req[r].out
<1>0. CacheInv /\ CacheInv' /\ req[r] \in Load /\ LoadOK(req[r]) /\ LoadWhole(req[r], cache, disk)
  BY StreamOverStep, MineFacts DEF HitInv, LoadsWhole
<1>1. u \in Urls /\ Mine(r, u) /\ req[r].net = "body" /\ DiskIs(disk)
  BY <1>0, MineFacts DEF Complete, CutShort, Loaded, Interrupt, Busy
<1>2. PICK abort \in BOOLEAN : /\ cache' = FreeStream(r, abort)
                               /\ ~abort => req[r].todo = 0
                               /\ abort => ~req[r].part
  BY DEF Complete, CutShort, Loaded, Interrupt, Quiet
<1>3. WrittenWhole(req[r], cache, disk) /\ f # NoFile /\ f \in Files
  BY <1>0, <1>1 DEF LoadWhole, WrittenWhole, Load
<1>4. /\ TableOK(cache') /\ Others(cache, cache', u)
      /\ Has(cache', u) => /\ cache'.entry[u].size = req[r].sent /\ cache'.entry[u].range = abort
                           /\ cache'.entry[u].version = cache.entry[u].version
                           /\ cache'.name[u] = cache.name[u]
  BY <1>0, <1>1, <1>2, <1>3, StreamTable
<1>5. PICK q : /\ req' = [req EXCEPT ![r] = q] /\ q \in Load /\ q.net = "no"
               /\ (Active(q) => q.url = u)
               /\ LoadWhole(q, cache', disk')
               /\ req[r].read = "open" /\ ~req[r].part => q.read # "no"
  <2>1. \/ req[r].read # "no" /\ req[r].part /\ req' = [req EXCEPT ![r] = NetOver(req[r])]
        \/ (req[r].read # "no" => req[r].part) /\ req' = [req EXCEPT ![r] = Idle]
    BY <1>0, <1>1 DEF Complete, CutShort, Loaded, Interrupt, NetOver, LoadWhole
  <2>2. CASE (req[r].read # "no" => req[r].part) /\ req' = [req EXCEPT ![r] = Idle]
    BY <2>2, IdleFacts, IdleWhole
  <2>3. CASE req[r].read # "no" /\ req[r].part /\ req' = [req EXCEPT ![r] = NetOver(req[r])]
    <3> DEFINE q == NetOver(req[r])
    <3>1. /\ q \in Load /\ q.url = u /\ q.net = "no" /\ q.read = req[r].read /\ q.part = req[r].part
          /\ q.got = req[r].got
      BY <1>0, <2>3, NetOverFacts
    <3> HIDE DEF q
    <3>2. LoadWhole(q, cache', disk')
      BY <1>0, <2>3, <3>1 DEF LoadWhole
    <3> QED BY <2>3, <3>1, <3>2 DEF q
  <2> QED BY <2>1, <2>2, <2>3
<1>6. FilesKept(u) /\ UnusedEmpty'
  BY <1>0, <1>1, ClosedFiles DEF CacheInv
<1>7. ASSUME Has(cache', u) PROVE EntryWhole(u, cache', disk')
  <2>1. cache'.name[u] = f
    BY <1>3, <1>4, <1>7 DEF WrittenWhole
  <2>2. disk'[f] = disk[f]
    <3>1. DOMAIN cache'.name = Urls
      BY <1>4 DEF TableOK, CacheRec
    <3>2. f \in InUse'
      BY <1>1, <2>1, <3>1 DEF InUse, Range
    <3> QED BY <1>0, <1>1, <1>3, <3>2, DiskFacts DEF CacheInv
  <2>3. CASE abort
    BY <1>2, <1>3, <1>4, <1>7, <2>1, <2>2, <2>3 DEF WrittenWhole, EntryWhole
  <2>4. CASE ~abort
    <3>1. disk[f] \in Seq(Versions) /\ Length[u] \in Nat \ {0}
      BY <1>0, <1>1, <1>3, CacheAssumption DEF CacheInv
    <3>2. Len(disk[f]) = Length[u]
      <4>1. Len(disk[f]) + 0 = Length[u] /\ Len(disk[f]) \in Nat
        BY <1>2, <1>3, <2>4, <3>1, LenProperties DEF WrittenWhole
      <4> QED BY <4>1
    <3>3. 1 \in DOMAIN disk[f]
      BY <3>1, <3>2, LenProperties
    <3>4. Whole(u, disk[f])
      BY <1>3, <3>2, <3>3 DEF Whole, WrittenWhole
    <3> QED BY <1>4, <1>7, <2>1, <2>2, <2>4, <3>4 DEF EntryWhole
  <2> QED BY <2>3, <2>4
<1>8. Busy(r) => req[r].url = u
  OBVIOUS
<1> HIDE DEF u
<1> QED BY <1>0, <1>1, <1>4, <1>5, <1>6, <1>7, <1>8, WholeLoadStep

\* A step of the reader.
LEMMA ReaderWhole ==
    ASSUME HitInv, CacheInv', NEW r \in Requests, req[r].read # "no",
           NEW q \in Load, req' = [req EXCEPT ![r] = q], q.net = req[r].net,
           Active(q) => q.url = req[r].url, LoadWhole(q, cache', disk'),
           cache' = cache, FilesKept(req[r].url), UnusedEmpty',
           \A f \in Files : f \in Range(cache.name) => disk'[f] = disk[f],
           req[r].read = "open" /\ ~req[r].part /\ q.read = "no" => Whole(req[r].url, req[r].got)
    PROVE  HitInv' /\ Served
<1> DEFINE u == req[r].url
<1>1. u \in Urls /\ Mine(r, u) /\ Others(cache, cache', u) /\ (Busy(r) => req[r].url = u)
  BY MineFacts, SameOthers DEF HitInv, Busy
<1>2. ASSUME q.net # "body", Has(cache', u) PROVE EntryWhole(u, cache', disk')
  <2>1. EntryWhole(u, cache, disk)
    BY <1>1, <1>2, NotWritten
  <2>2. cache.name \in [Urls -> Files \cup {NoFile}]
    BY DEF HitInv, CacheInv, TableOK, CacheRec
  <2>3. cache.name[u] # NoFile => disk'[cache.name[u]] = disk[cache.name[u]]
    BY <1>1, <2>2 DEF Range
  <2> HIDE DEF u
  <2> QED BY <2>1, <2>3, SameEntry
<1> HIDE DEF u
<1>3. Active(q) => q.url = u
  BY DEF u
<1>4. FilesKept(u) /\ (req[r].read = "open" /\ ~req[r].part /\ q.read = "no" => Whole(u, req[r].got))
  BY DEF u
<1> QED BY <1>1, <1>2, <1>3, <1>4, WholeLoadStep

\* The end of the reader: what the net still brings is written as before.
LEMMA OverWhole ==
    ASSUME HitInv, NEW r \in Requests, req[r].read # "no", cache' = cache,
           req[r].out # NoFile => disk'[req[r].out] = disk[req[r].out],
           NEW q, q = ReadOver(req[r])
    PROVE  /\ q \in Load /\ q.net = req[r].net /\ (Active(q) => q.url = req[r].url)
           /\ q.read = "no" /\ LoadWhole(q, cache', disk')
           /\ req[r].out = NoFile \/ q.out = req[r].out
<1>1. req[r] \in Load /\ LoadOK(req[r]) /\ LoadWhole(req[r], cache, disk)
  BY MineFacts DEF HitInv, LoadsWhole
<1>2. CASE req[r].net = "no"
  <2>1. q = Idle
    BY <1>1, <1>2, ReadOverFacts
  <2> QED BY <1>1, <1>2, <2>1, IdleFacts, IdleWhole DEF LoadOK
<1>3. CASE req[r].net # "no"
  <2>1. req[r].net = "body"
    BY <1>1, <1>3 DEF Load, LoadOK
  <2>2. /\ q \in Load /\ q.read = "no" /\ q.net = "body" /\ q.out = req[r].out /\ q.url = req[r].url
        /\ q.version = req[r].version /\ q.todo = req[r].todo /\ q.sent = req[r].sent
        /\ q.part = req[r].part
    BY <1>1, <2>1, ReadOverFacts
  <2>3. WrittenWhole(q, cache', disk')
    BY <1>1, <2>1, <2>2 DEF LoadWhole, WrittenWhole
  <2> QED BY <2>1, <2>2, <2>3 DEF LoadWhole
<1> QED BY <1>2, <1>3

LEMMA OpenWhole ==
    ASSUME HitInv, NEW r \in Requests, OpenCached(r)
    PROVE  HitInv' /\ Served
<1> DEFINE u == req[r].url
           f == cache.name[u]
<1>0. /\ CacheInv /\ CacheInv' /\ req[r] \in Load /\ LoadOK(req[r]) /\ u \in Urls
      /\ LoadWhole(req[r], cache, disk)
  BY OpenStep, MineFacts DEF HitInv, LoadsWhole
<1>1. req[r].read = "waits" /\ cache' = cache /\ disk' = disk /\ Mine(r, u)
  BY <1>0, MineFacts DEF OpenCached, Busy
<1>2. PICK q : /\ req' = [req EXCEPT ![r] = q] /\ q \in Load /\ q.net = req[r].net
               /\ (Active(q) => q.url = u) /\ LoadWhole(q, cache', disk')
               /\ (req[r].out = NoFile \/ q.out = req[r].out)
  <2>1. \/ req' = [req EXCEPT ![r] = ReadOver(req[r])]
        \/ /\ f # NoFile /\ disk[f] # <<>>
           /\ req' = [req EXCEPT ![r] = Opened(req[r], f)]
    BY <1>0 DEF OpenCached, Opened, CacheInv
  <2>2. CASE req' = [req EXCEPT ![r] = ReadOver(req[r])]
    <3> DEFINE q == ReadOver(req[r])
    <3>1. /\ q \in Load /\ q.net = req[r].net /\ (Active(q) => q.url = u)
          /\ LoadWhole(q, cache', disk') /\ (req[r].out = NoFile \/ q.out = req[r].out)
      BY <1>1, OverWhole
    <3> QED BY <2>2, <3>1
  <2>3. CASE f # NoFile /\ disk[f] # <<>> /\ req' = [req EXCEPT ![r] = Opened(req[r], f)]
    <3> DEFINE q == Opened(req[r], f)
    <3>1. f \in Files /\ f[1] = u /\ Has(cache, u)
      BY <1>0, <2>3 DEF CacheInv, TableOK, CacheRec, NamesOK
    <3> HIDE DEF f
    <3>2. /\ q \in Load /\ q.url = u /\ q.net = req[r].net /\ q.out = req[r].out
          /\ q.part = req[r].part /\ q.version = req[r].version /\ q.todo = req[r].todo
          /\ q.sent = req[r].sent /\ q.read = "open" /\ q.file = f /\ q.at = 0 /\ q.got = req[r].got
      BY <1>0, <1>1, <2>3, <3>1, OpenFacts
    <3> HIDE DEF q
    <3>3. q.net # "asked" /\ req[r].got = <<>>
      BY <1>0, <1>1, <3>2 DEF LoadOK, LoadWhole
    <3>4. q.net = "body" => WrittenWhole(q, cache', disk')
      BY <1>0, <1>1, <3>2 DEF LoadWhole, WrittenWhole
    <3>5. ASSUME ~q.part PROVE ReadWhole(q, disk') /\ q.net = "no"
      <4>1. req[r].net = "no" /\ ~cache.entry[u].range
        BY <1>0, <1>1, <3>1, <3>2, <3>5 DEF LoadWhole
      <4>2. EntryWhole(u, cache, disk)
        BY <1>1, <3>1, <4>1, <1>0, NotWritten
      <4>3. Whole(u, disk[f])
        BY <2>3, <4>1, <4>2 DEF EntryWhole, f
      <4>4. Len(disk[f]) \in Nat /\ disk[f] \in Seq(Versions)
        BY <1>0, <3>1, LenProperties DEF CacheInv
      <4>5. <<>> = SubSeq(disk[f], 1, 0)
        BY <4>4
      <4> QED BY <1>1, <3>2, <3>3, <4>1, <4>3, <4>4, <4>5 DEF ReadWhole
    <3>6. LoadWhole(q, cache', disk')
      BY <3>2, <3>3, <3>4, <3>5 DEF LoadWhole
    <3> QED BY <2>3, <3>2, <3>6 DEF q
  <2> QED BY <2>1, <2>2, <2>3
<1>3. FilesKept(u)
  BY <1>1, SameFiles
<1>4. UnusedEmpty'
  <2>1. req[r].file = NoFile
    BY <1>0, <1>1 DEF LoadOK
  <2> QED BY <1>0, <1>1, <1>2, <2>1, StillUsed DEF HitInv, CacheInv, TableOK
<1> QED BY <1>0, <1>1, <1>2, <1>3, <1>4, ReaderWhole

LEMMA SubSeqOneMore ==
    ASSUME NEW S, NEW s \in Seq(S), NEW i \in Nat, i + 1 \in 1..Len(s)
    PROVE  Append(SubSeq(s, 1, i), s[i + 1]) = SubSeq(s, 1, i + 1)
<1>1. Len(s) \in Nat
  BY LenProperties
<1>2. 1 \in 1..Len(s) /\ i + 1 \in 1..Len(s) /\ (i + 1) - 1 = i
  BY <1>1
<1>3. SubSeq(s, 1, i + 1) = SubSeq(s, 1, (i + 1) - 1) \o <<s[i + 1]>>
  BY <1>2, SubSeqRecursiveSecond
<1>4. SubSeq(s, 1, i) \in Seq(S)
  <2>1. \A j \in 1..i : s[j] \in S
    BY <1>1, <1>2, ElementOfSeq
  <2> QED BY <2>1, SubSeqProperties
<1>5. s[i + 1] \in S
  BY <1>2, ElementOfSeq
<1> QED BY <1>2, <1>3, <1>4, <1>5, AppendIsConcat

LEMMA KeptNames ==
    ASSUME CacheInv, cache' = cache, DiskIs(disk)
    PROVE  \A f \in Files : f \in Range(cache.name) => disk'[f] = disk[f]
<1>1. cache.name \in [Urls -> Files \cup {NoFile}] /\ disk \in [Files -> Seq(Versions)]
  BY DEF CacheInv, TableOK, CacheRec
<1>2. \A f \in Files : f \in Range(cache.name) => f \in InUse'
  BY DEF InUse
<1> QED BY <1>1, <1>2, DiskFacts

LEMMA ReadCachedWhole ==
    ASSUME HitInv, NEW r \in Requests, ReadCached(r)
    PROVE  HitInv' /\ Served
<1> DEFINE u == req[r].url
           s == disk[req[r].file]
           n == Len(s)
           got == Append(req[r].got, s[req[r].at + 1])
<1>0. /\ CacheInv /\ CacheInv' /\ req[r] \in Load /\ LoadOK(req[r]) /\ u \in Urls
      /\ LoadWhole(req[r], cache, disk)
  BY ReadStep, MineFacts DEF HitInv, LoadsWhole
<1>1. /\ req[r].read = "open" /\ cache' = cache /\ DiskIs(disk) /\ disk \in [Files -> Seq(Versions)]
  BY <1>0 DEF ReadCached, CacheInv
<1>2. FilesKept(u) /\ UnusedEmpty'
  BY <1>1, ClosedFiles
<1>3. \A f \in Files : f \in InUse' => disk'[f] = disk[f]
  BY <1>1, DiskFacts
<1>4. s \in Seq(Versions) /\ n \in Nat /\ req[r].at \in Nat /\ req[r].got \in Seq(Versions)
  BY <1>0, <1>1, OpenFileFacts, LenProperties DEF Load
<1>5. ~req[r].part => /\ Whole(u, s) /\ req[r].at <= n /\ req[r].got = SubSeq(s, 1, req[r].at)
                      /\ req[r].net = "no"
  BY <1>0, <1>1 DEF LoadWhole, ReadWhole
<1>6. CASE req[r].at >= n
  <2> DEFINE q == ReadOver(req[r])
  <2>1. req' = [req EXCEPT ![r] = q]
    BY <1>6 DEF ReadCached
  <2>2. q.out = req[r].out \/ req[r].out = NoFile
    BY <1>0, <1>1, ReadOverFacts DEF LoadOK
  <2>3. req[r].out # NoFile => disk'[req[r].out] = disk[req[r].out]
    <3>1. ASSUME req[r].out # NoFile PROVE req[r].out \in InUse' /\ req[r].out \in Files
      <4>1. req'[r].out = req[r].out
        BY <1>0, <2>1, <2>2, <3>1 DEF CacheInv
      <4> QED BY <1>0, <3>1, <4>1 DEF InUse, Load
    <3> QED BY <1>3, <3>1
  <2>4. /\ q \in Load /\ q.net = req[r].net /\ (Active(q) => q.url = u)
        /\ q.read = "no" /\ LoadWhole(q, cache', disk')
    BY <1>1, <2>3, OverWhole
  <2> HIDE DEF q
  <2>5. ~req[r].part => Whole(u, req[r].got)
    <3> SUFFICES ASSUME ~req[r].part PROVE Whole(u, req[r].got)
      OBVIOUS
    <3>1. req[r].at = n
      BY <1>4, <1>5, <1>6
    <3>2. SubSeq(s, 1, n) = s
      BY <1>4
    <3> QED BY <1>5, <3>1, <3>2
  <2> QED BY <1>0, <1>1, <1>2, <2>1, <2>4, <2>5, KeptNames, ReaderWhole
<1>7. CASE ~(req[r].at >= n)
  <2>1. req' = [req EXCEPT ![r] = ReadOne(req[r], got)]
    BY <1>1, <1>7 DEF ReadCached, ReadOne
  <2>2. req[r].at + 1 \in 1..n /\ req[r].at + 1 <= n
    BY <1>4, <1>7
  <2>3. got \in Seq(Versions)
    <3>1. s[req[r].at + 1] \in Versions
      BY <1>4, <2>2, ElementOfSeq
    <3> QED BY <1>4, <3>1, AppendProperties
  <2>4. ~req[r].part => got = SubSeq(s, 1, req[r].at + 1)
    BY <1>4, <1>5, <2>2, SubSeqOneMore
  <2> HIDE DEF got
  <2> DEFINE q == ReadOne(req[r], got)
  <2>5. /\ q \in Load /\ q.url = u /\ q.net = req[r].net /\ q.out = req[r].out
        /\ q.part = req[r].part /\ q.version = req[r].version /\ q.todo = req[r].todo
        /\ q.sent = req[r].sent /\ q.read = "open" /\ q.file = req[r].file
        /\ q.at = req[r].at + 1 /\ q.got = got
    BY <1>0, <1>1, <2>3, ReadFacts
  <2> HIDE DEF q
  <2>6. req' = [req EXCEPT ![r] = q]
    BY <2>1 DEF q
  <2>7. req'[r] = q
    BY <1>0, <2>6 DEF CacheInv
  <2>8. /\ disk'[q.file] = s
        /\ q.out # NoFile => disk'[q.out] = disk[q.out]
    <3>1. q.file \in InUse' /\ q.out \in InUse'
      BY <2>7 DEF InUse
    <3> QED BY <1>0, <1>1, <1>3, <2>5, <3>1, OpenFileFacts DEF Load
  <2>9. q.net # "asked" /\ (q.net = "body" => WrittenWhole(q, cache', disk'))
    BY <1>0, <1>1, <2>5, <2>8 DEF LoadOK, LoadWhole, WrittenWhole
  <2>10. ~q.part => ReadWhole(q, disk') /\ q.net = "no"
    BY <1>5, <2>2, <2>4, <2>5, <2>8 DEF ReadWhole
  <2>11. LoadWhole(q, cache', disk')
    BY <2>5, <2>9, <2>10 DEF LoadWhole
  <2> QED BY <1>0, <1>1, <1>2, <2>5, <2>6, <2>11, KeptNames, ReaderWhole
<1> QED BY <1>6, <1>7

\* A modified document is known by its header only.
LEMMA ModifyWhole ==
    ASSUME HitInv, Quiet, NEW r \in Requests, NEW u \in Urls, NEW v \in Versions,
           NEW noContent \in BOOLEAN, Modify(r, u, v, noContent)
    PROVE  HitInv' /\ Served
<1> DEFINE q == req[r]
<1>1. /\ CacheInv /\ CacheInv' /\ Mine(r, u) /\ q \in Load /\ LoadOK(q) /\ ~Active(q)
      /\ req' = [req EXCEPT ![r] = q] /\ DiskIs(disk) /\ disk \in [Files -> Seq(Versions)]
  BY ModifyStep, MineFacts DEF HitInv, Quiet, Modify, MayLoad, Busy, Active, CacheInv
<1>2. /\ cache' = Touch(Invalidate(cache, u, v, noContent), u, r, v)
      /\ Has(cache, u) /\ HasLock(cache, u) => noContent
  BY DEF Modify, Quiet
<1>3. /\ Has(cache', u) /\ Elsewhere(cache, cache', u)
      /\ cache'.entry[u].range /\ cache'.entry[u].size = 0 /\ cache'.name[u] = NoFile
  BY <1>1, <1>2, ModifiedTable DEF CacheInv
<1>4. Others(cache, cache', u) /\ (Busy(r) => req[r].url = u)
  BY <1>1, <1>3, SameOthers DEF Busy, Active
<1>5. FilesKept(u) /\ UnusedEmpty'
  BY <1>1, ClosedFiles
<1>6. q.net = "no" /\ q.read = "no" /\ req[r].read = "no"
  BY <1>1 DEF Active
<1> HIDE DEF q
<1>7. LoadWhole(q, cache', disk')
  BY <1>6 DEF LoadWhole
<1>8. EntryWhole(u, cache', disk')
  BY <1>3 DEF EntryWhole
<1> QED BY <1>1, <1>4, <1>5, <1>6, <1>7, <1>8, WholeLoadStep

\* The steps of nobody leave the files, and what the entries say of them.
LEMMA SameWhole ==
    ASSUME HitInv, CacheInv', disk' = disk, req' = req,
           \A u \in Urls : cache'.name[u] = cache.name[u] /\ (Has(cache', u) <=> Has(cache, u)),
           \A u \in Urls :
              Has(cache, u) => /\ cache'.entry[u].version = cache.entry[u].version
                               /\ cache'.entry[u].range = cache.entry[u].range
                               /\ cache'.entry[u].size = cache.entry[u].size
    PROVE  HitInv' /\ Served
<1>1. EntriesWhole'
  <2> SUFFICES ASSUME NEW u \in Urls, Has(cache', u), ~Writing(u)'
               PROVE  EntryWhole(u, cache', disk')
    BY DEF EntriesWhole
  <2>1. EntryWhole(u, cache, disk)
    BY DEF HitInv, EntriesWhole, Writing
  <2> QED BY <2>1, SameEntry
<1>2. LoadsWhole'
  <2> SUFFICES ASSUME NEW r \in Requests PROVE LoadWhole(req[r], cache', disk')
    BY DEF LoadsWhole
  <2> DEFINE q == req[r]
             u == q.url
  <2>1. LoadWhole(q, cache, disk) /\ LoadOK(q) /\ u \in Urls
    BY MineFacts DEF HitInv, LoadsWhole
  <2>2. Holds(q) => Has(cache, u)
    BY MineFacts DEF HitInv
  <2>3. q.net = "body" => WrittenWhole(q, cache', disk')
    BY <2>1, <2>2 DEF LoadWhole, WrittenWhole, Holds
  <2> QED BY <2>1, <2>2, <2>3 DEF LoadWhole, ReadWhole, Holds
<1>3. UnusedEmpty'
  <2>1. /\ DOMAIN cache.name = Urls /\ DOMAIN cache'.name = Urls
    BY DEF HitInv, CacheInv, TableOK, CacheRec
  <2>2. Range(cache'.name) = Range(cache.name)
    BY <2>1 DEF Range
  <2> QED BY <2>2 DEF HitInv, UnusedEmpty, InUse
<1> QED BY <1>1, <1>2, <1>3 DEF HitInv, Served

LEMMA OtherWhole ==
    ASSUME HitInv,
           \/ Restart
           \/ \E u \in Urls, v \in Versions : Change(u, v)
           \/ \E u \in Urls : Expire(u)
    PROVE  HitInv' /\ Served
<1>0. CacheInv /\ CacheInv'
  BY OtherSteps DEF HitInv
<1>1. CASE Restart
  <2>1. disk' = disk /\ req' = req /\ cache' = IndexRead
    BY <1>1 DEF Restart
  <2> QED BY <1>0, <2>1, IndexFacts, SameWhole DEF CacheInv
<1>2. CASE \E u \in Urls, v \in Versions : Change(u, v)
  <2>1. disk' = disk /\ req' = req /\ cache' = cache
    BY <1>2 DEF Change
  <2> QED BY <1>0, <2>1, SameWhole
<1>3. CASE \E u \in Urls : Expire(u)
  <2>1. PICK u \in Urls : Expire(u)
    BY <1>3
  <2>2. PICK f \in BOOLEAN : cache' = Aged(cache, u, f)
    BY <2>1 DEF Expire, Aged
  <2>3. Has(cache, u) /\ disk' = disk /\ req' = req
    BY <2>1 DEF Expire
  <2>4. /\ Has(cache', u) /\ Elsewhere(cache, cache', u) /\ cache'.name[u] = cache.name[u]
        /\ EntryIs(cache'.entry[u], cache.entry[u].version, f, cache.entry[u].range,
                   cache.entry[u].size, cache.entry[u].hits, cache.entry[u].lock)
    BY <1>0, <2>2, <2>3, AgedTable DEF CacheInv
  <2>5. \A w \in Urls :
           /\ cache'.name[w] = cache.name[w] /\ (Has(cache', w) <=> Has(cache, w))
           /\ cache'.entry[w].version = cache.entry[w].version
           /\ cache'.entry[w].range = cache.entry[w].range
           /\ cache'.entry[w].size = cache.entry[w].size
    BY <2>3, <2>4 DEF Elsewhere, EntryIs, Has
  <2> QED BY <1>0, <2>3, <2>5, SameWhole
<1> QED BY <1>1, <1>2, <1>3

LEMMA InitWhole == Init => HitInv
<1> SUFFICES ASSUME Init PROVE HitInv
  OBVIOUS
<1>1. /\ cache.entry = [u \in Urls |-> NoEntry]
      /\ disk = [f \in Files |-> <<>>] /\ req = [r \in Requests |-> Idle]
  BY DEF Init
<1>2. EntriesWhole /\ UnusedEmpty
  BY <1>1 DEF EntriesWhole, Has, UnusedEmpty
<1>3. LoadsWhole
  BY <1>1, IdleWhole DEF LoadsWhole
<1> QED BY <1>2, <1>3, InitInv DEF HitInv

LEMMA NextWhole ==
    ASSUME HitInv, [Next]_vars, Quiet
    PROVE  HitInv' /\ (Served \/ UNCHANGED vars)
<1>1. CASE UNCHANGED vars
  <2>1. cache' = cache /\ disk' = disk /\ req' = req /\ CacheInv'
    BY <1>1, NextInv DEF vars, HitInv, Quiet
  <2> QED BY <2>1, SameWhole
<1>2. CASE Restart
  BY <1>2, OtherWhole
<1>3. CASE \E u \in Urls : Expire(u) \/ \E v \in Versions : Change(u, v)
  BY <1>3, OtherWhole
<1>4. ASSUME NEW r \in Requests, NEW u \in Urls,
             \/ \E flag \in BOOLEAN : LoadFromNet(r, u, flag) \/ LoadValidate(r, u, flag)
             \/ LoadRange(r, u) \/ LoadFromCache(r, u)
             \/ \E v \in Versions, noContent \in BOOLEAN : Modify(r, u, v, noContent)
      PROVE  HitInv' /\ Served
  BY <1>4, NetLoadWhole, LockingLoadWhole, CacheLoadWhole, ModifyWhole
<1>5. ASSUME NEW r \in Requests,
             \/ AnswerUncached(r) \/ AnswerWhole(r) \/ AnswerPart(r) \/ AnswerNotModified(r)
             \/ Block(r) \/ Complete(r) \/ CutShort(r) \/ Interrupt(r) \/ OpenCached(r) \/ ReadCached(r)
      PROVE  HitInv' /\ Served
  BY <1>5, UncachedWhole, WholeWhole, PartWhole, NotModifiedWhole, BlockWhole, StreamOverWhole,
     OpenWhole, ReadCachedWhole
<1> QED BY <1>1, <1>2, <1>3, <1>4, <1>5 DEF Next

\* A hit is a whole document, all of one version, when ranges continue whole files,
\* entries are removed before they are touched, what is broken off is known to be, and
\* what is written is counted: aborted loads, collections, validations,
\* modifications and restarts leave no entry that says more than its file has.
THEOREM HitsAreComplete ==
    ASSUME Quiet
    PROVE  Spec => HitIsComplete
<1>1. HitInv /\ [Next]_vars => HitInv'
  BY NextWhole
<1>2. HitInv /\ [Next]_vars =>
         [\A r \in Requests :
             req[r].read = "open" /\ ~req[r].part /\ req'[r].read = "no"
                 => Whole(req[r].url, req[r].got)]_vars
  BY NextWhole DEF Served
<1> QED BY InitWhole, <1>1, <1>2, PTL DEF Spec, HitIsComplete

\* The range asked for starts behind the last byte the file has, in the same
\* environment: the size of a partial entry is what its file has.
THEOREM RangesAreWritten ==
    ASSUME Quiet
    PROVE  Spec => []RangeIsWritten
<1>1. HitInv /\ [Next]_vars => HitInv'
  BY NextWhole
<1>2. HitInv => RangeIsWritten
  BY DEF HitInv, EntriesWhole, EntryWhole, RangeIsWritten, Writing
<1> QED BY InitWhole, <1>1, <1>2, PTL DEF Spec
==============================================================================
