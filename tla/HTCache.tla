------------------------------- MODULE HTCache -------------------------------
(***************************************************************************)
(* The persistent cache (HTCache.c): entries in a hash table, the files    *)
(* they describe, the BEFORE and AFTER filters, the stream that writes an  *)
(* entry while its document is loaded, the loader that reads it again, the *)
(* garbage collector, and the index that survives the process.             *)
(*                                                                         *)
(* A document is a sequence of blocks, of which only the version is known. *)
(* Time is left out: an entry is fresh until it expires.                   *)
(***************************************************************************)
EXTENDS Integers, Sequences, FiniteSets, SequencesExt

CONSTANTS Requests,
          NoRequest,
          Urls,
          Versions,     \* of a document on its server
          Length,       \* of a document, in blocks
          Announced,    \* documents that come with their length
          Bucket,       \* where a URL hashes to
          Modifiable,   \* documents that change
          Fragile,      \* documents that may break off and come in blocks of one byte
          Buckets,      \* a sequence: the table in the order it is walked
          Inodes,       \* a file of a document is one of so many inodes
          NoFile,
          NoEntry,
          Total,        \* HTCacheTotalSize
          Folder,       \* HTCacheFolderSize
          Buffer,       \* HTCacheGCBuffer
          MaxEntry,     \* HTCacheMaxEntrySize
          MaxHits,      \* bound on hit counts
          MaxContent,   \* bound on the size counted, which may run away
          Env           \* what else happens in this instance

EnvKinds == {"break", "breakAppend", "partial", "overwrite",
             "restart", "share"}

\* struct _HTCache.
Entry == [version : Versions, fresh : BOOLEAN, range : BOOLEAN, size : Nat,
          hits : Nat, lock : Requests \cup {NoRequest}]

ASSUME CacheAssumption ==
    /\ IsFiniteSet(Requests) /\ NoRequest \notin Requests
    /\ IsFiniteSet(Urls) /\ Urls # {} /\ NoFile \notin Urls \X Nat
    /\ Versions # {} /\ NoEntry \notin Entry
    /\ Inodes \in Nat /\ Inodes > Cardinality(Requests)
    /\ Length \in [Urls -> Nat \ {0}] /\ Announced \subseteq Urls
    /\ Modifiable \subseteq Urls /\ Fragile \subseteq Urls
    /\ Buckets \in Seq(Range(Buckets)) /\ IsInjective(Buckets)
    /\ Bucket \in [Urls -> Range(Buckets)]
    /\ {Total, Folder, Buffer, MaxEntry, MaxHits, MaxContent} \subseteq Nat
    /\ Env \subseteq EnvKinds

Files == Urls \X (1..Inodes)

VARIABLES cache,        \* the table, the names of the files, and the total size
          disk,         \* the inodes
          doc,          \* what the servers have
          req           \* the loads

vars == <<cache, disk, doc, req>>

\* A load.  From the net: the conditions and the start of the range it asks for;
\* the blocks to come and come, whether they are but a part of the document, and
\* the file a copy of them goes to.  From the cache: the file and the place it is
\* read at.  The pipe holds back a part from the net until the cache is read.
Load == [url : Urls, net : {"no", "asked", "body"}, cond : {"no", "validate", "range"},
         from : Nat, version : Versions, todo : Nat, sent : Nat, part : BOOLEAN,
         out : Files \cup {NoFile},
         read : {"no", "waits", "open"}, file : Files \cup {NoFile}, at : Nat,
         pipe : Seq(Versions), got : Seq(Versions)]

TypeOK ==
    /\ cache.chain \in [Range(Buckets) -> Seq(Urls)]
    /\ cache.entry \in [Urls -> Entry \cup {NoEntry}]
    /\ cache.name \in [Urls -> Files \cup {NoFile}]
    /\ cache.content \in Int
    /\ \A b \in Range(Buckets) :
          /\ IsInjective(cache.chain[b])
          /\ Range(cache.chain[b]) = {u \in Urls : Bucket[u] = b /\ cache.entry[u] # NoEntry}
    /\ disk \in [Files -> Seq(Versions)]
    /\ doc \in [Urls -> Versions]
    /\ req \in [Requests -> Load]

AnyVersion == CHOOSE v \in Versions : TRUE
Idle == [url |-> CHOOSE u \in Urls : TRUE, net |-> "no", cond |-> "no", from |-> 0,
         version |-> AnyVersion, todo |-> 0, sent |-> 0, part |-> FALSE, out |-> NoFile,
         read |-> "no", file |-> NoFile, at |-> 0, pipe |-> <<>>, got |-> <<>>]

Init ==
    /\ cache = [chain   |-> [b \in Range(Buckets) |-> <<>>],
                entry   |-> [u \in Urls |-> NoEntry],
                name    |-> [u \in Urls |-> NoFile],
                content |-> 0]
    /\ disk = [f \in Files |-> <<>>]
    /\ doc = [u \in Urls |-> AnyVersion]
    /\ req = [r \in Requests |-> Idle]

(***************************************************************************)
(* Entries.                                                                *)
(***************************************************************************)
Has(c, u) == c.entry[u] # NoEntry
HasLock(c, u) == c.entry[u].lock # NoRequest

\* HTCache_new: a new entry goes to the head of its list; one that is there and
\* locked by another request is left as it is.
LockedOut(c, u, r) == Has(c, u) /\ c.entry[u].lock \notin {NoRequest, r}

NewEntry(c, u, r, v) ==
    IF Has(c, u)
    THEN IF LockedOut(c, u, r) THEN c
         ELSE [c EXCEPT !.entry[u].lock = r, !.entry[u].version = v, !.entry[u].fresh = TRUE]
    ELSE [c EXCEPT !.chain[Bucket[u]] = <<u>> \o @,
                   !.entry[u] = [version |-> v, fresh |-> TRUE, range |-> FALSE,
                                 size |-> 0, hits |-> 0, lock |-> r]]

\* HTCache_touch: only what the header says is known.
Touch(c, u, r, v) ==
    [NewEntry(c, u, r, v) EXCEPT !.entry[u].size = 0, !.entry[u].range = TRUE]

\* Mutant: the entry is freed and its list is left alone.
DeleteFreed(c, u) ==
    [c EXCEPT !.entry[u] = NoEntry, !.name[u] = NoFile, !.content = @ - c.entry[u].size]

\* The files of an entry go, and delete_object takes it out of the table.
DeleteObject(c, u) ==
    [c EXCEPT !.chain[Bucket[u]] = RemoveFirst(@, u),
              !.entry[u] = NoEntry, !.name[u] = NoFile, !.content = @ - c.entry[u].size]

\* Mutant: an entry goes although somebody has a lock on it.
RemoveLocked(c, u) == DeleteObject(c, u)

\* HTCache_remove: "You must explicitly remove a lock before this operation can
\* succeed".
RemoveEntry(c, u) == IF HasLock(c, u) THEN c ELSE DeleteObject(c, u)

\* HTCache_updateMeta, after the hit is counted too.
UpdateMeta(c, u, v) ==
    [c EXCEPT !.entry[u].version = v, !.entry[u].fresh = TRUE, !.entry[u].hits = @ + 1]

SizeOf(c, u) == IF Has(c, u) THEN c.entry[u].size ELSE 0
SumSizes(c)  == FoldSet(LAMBDA u, n : n + SizeOf(c, u), 0, Urls)

(***************************************************************************)
(* HTCacheGarbage.                                                         *)
(***************************************************************************)
StopGC(c)  == c.content + Folder < Total - Buffer
StartGC(c) == c.content + Folder > Total

\* A round of the collector is for the stale entries or for a number of hits.
StaleRound == -1

Doomed(e, round) ==
    IF round = StaleRound THEN ~e.fresh ELSE e.size > MaxEntry \/ e.hits <= round

\* One list of the table is left when there is enough room; the next one is tried
\* all the same.
CollectList(c, list, round) ==
    FoldLeft(LAMBDA acc, u :
                IF acc.stop THEN acc
                ELSE LET d == IF Doomed(acc.c.entry[u], round) THEN RemoveEntry(acc.c, u)
                              ELSE acc.c
                     IN [c |-> d, stop |-> StopGC(d)],
             [c |-> c, stop |-> FALSE], list).c

CollectTable(c, round) ==
    FoldLeft(LAMBDA d, b : CollectList(d, d.chain[b], round), c, Buckets)

\* "taking all the documents with 0 hits, 1 hits, 2 hits, etc." until a round
\* removes nothing.
CollectLeastUsed(c) ==
    FoldLeft(LAMBDA acc, hits :
                IF ~acc.removed \/ ~StartGC(acc.c) THEN acc
                ELSE LET d == CollectTable(acc.c, hits)
                     IN [c |-> d, removed |-> d # acc.c],
             [c |-> c, removed |-> TRUE], [i \in 1..(MaxHits + 1) |-> i - 1]).c

\* Mutant: stale entries are like others.
GarbageLeastUsed(c) == IF StartGC(c) THEN CollectLeastUsed(c) ELSE c

Garbage(c) ==
    IF StartGC(c) THEN CollectLeastUsed(CollectTable(c, StaleRound)) ELSE c

\* HTCache_setSize, which starts the collector when the cache is too big.
SetSize(c, u, written, append) ==
    Garbage([c EXCEPT !.entry[u].size = written,
                      !.content = @ + written - (IF append THEN 0 ELSE c.entry[u].size)])

(***************************************************************************)
(* Loads.                                                                  *)
(***************************************************************************)
Busy(r) == req[r].net # "no" \/ req[r].read # "no"

\* No other load has to do with the document, unless this instance allows it.
MayLoad(r, u) ==
    /\ ~Busy(r)
    /\ "share" \notin Env => \A o \in Requests : Busy(o) => req[o].url # u

Asked(u, cond, from) == [Idle EXCEPT !.url = u, !.net = "asked", !.cond = cond, !.from = from]

\* HTCacheFilter lets a load go out to the net: HT_CACHE_FLUSH or no entry.
LoadFromNet(r, u, flush) ==
    /\ MayLoad(r, u)
    /\ flush \/ ~Has(cache, u)
    /\ req' = [req EXCEPT ![r] = Asked(u, "no", 0)]
    /\ UNCHANGED <<cache, disk, doc>>

\* HTCacheFilter, HTCache_isFresh: there is only a part; ask for the rest.
LoadRange(r, u) ==
    /\ MayLoad(r, u)
    /\ Has(cache, u) /\ cache.entry[u].range
    /\ cache' = [cache EXCEPT !.entry[u].lock = r]
    /\ req' = [req EXCEPT ![r] = Asked(u, "range", cache.entry[u].size)]
    /\ UNCHANGED <<disk, doc>>

\* The entry has expired, or the application wants it validated.
LoadValidate(r, u, validate) ==
    /\ MayLoad(r, u)
    /\ Has(cache, u) /\ ~cache.entry[u].range
    /\ validate \/ ~cache.entry[u].fresh
    /\ cache' = [cache EXCEPT !.entry[u].lock = r]
    /\ req' = [req EXCEPT ![r] = Asked(u, "validate", 0)]
    /\ UNCHANGED <<disk, doc>>

\* A hit.
LoadFromCache(r, u) ==
    /\ MayLoad(r, u)
    /\ Has(cache, u) /\ ~cache.entry[u].range /\ cache.entry[u].fresh
    /\ cache.entry[u].hits < MaxHits
    /\ cache' = [cache EXCEPT !.entry[u].hits = @ + 1]
    /\ req' = [req EXCEPT ![r] = [Idle EXCEPT !.url = u, !.read = "waits"]]
    /\ UNCHANGED <<disk, doc>>

(***************************************************************************)
(* Answers.                                                                *)
(***************************************************************************)
InUse == Range(cache.name) \cup UNION {{req[r].out, req[r].file} : r \in Requests}
FreeFile(u) == CHOOSE f \in Files : f[1] = u /\ f \notin InUse

\* What is on the disk next: inodes without a name that nobody has open are gone.
DiskIs(d) == disk' = [f \in Files |-> IF f \in InUse' THEN d[f] ELSE <<>>]

\* fopen of the file of an entry: there is one, or it is made.
FileOf(u) == IF cache.name[u] = NoFile THEN FreeFile(u) ELSE cache.name[u]

TooBig(u) == u \in Announced /\ Length[u] > MaxEntry

Body(r) == [req[r] EXCEPT !.net = "body", !.version = doc[req[r].url],
                          !.todo = Length[req[r].url]]

\* An error, no answer at all, or a 200 that has no stream to the cache as it may
\* not be cached, is too big, or another request has the lock.
AnswerUncached(r) ==
    /\ req[r].net = "asked"
    /\ req' = [req EXCEPT ![r] = Idle]
    /\ UNCHANGED <<cache, disk, doc>>

\* 200, and HTCacheWriter: "If the entry already existed then it will be
\* overridden with the new data."
AnswerWhole(r) ==
    LET u == req[r].url IN
    /\ req[r].net = "asked"
    /\ ~TooBig(u) /\ ~LockedOut(cache, u, r)
    /\ cache.content + Length[u] <= MaxContent
    /\ cache' = [NewEntry(cache, u, r, doc[u]) EXCEPT !.name[u] = FileOf(u)]
    /\ req' = [req EXCEPT ![r] = [Body(r) EXCEPT !.out = FileOf(u)]]
    /\ DiskIs([disk EXCEPT ![FileOf(u)] = <<>>])
    /\ UNCHANGED doc

\* 206: HTMIMEPartial starts the load of what is in the cache, and HTCacheAppend
\* writes the rest behind it.
AnswerPart(r) ==
    LET u == req[r].url IN
    /\ "partial" \in Env
    /\ req[r].net = "asked" /\ req[r].cond = "range"
    /\ Has(cache, u) /\ ~LockedOut(cache, u, r)
    /\ cache.entry[u].version = doc[u] /\ req[r].from < Length[u]
    /\ cache.entry[u].hits < MaxHits /\ cache.content + Length[u] - req[r].from <= MaxContent
    /\ cache' = [NewEntry(cache, u, r, doc[u])
                    EXCEPT !.name[u] = FileOf(u), !.entry[u].hits = @ + 1]
    /\ req' = [req EXCEPT ![r] = [Body(r) EXCEPT !.todo = @ - req[r].from, !.part = TRUE,
                                      !.out = FileOf(u), !.read = "waits"]]
    /\ DiskIs(disk)
    /\ UNCHANGED doc

\* 304, HTCacheUpdateFilter: the request is loaded again, from the cache.
AnswerNotModified(r) ==
    LET u == req[r].url IN
    /\ req[r].net = "asked" /\ req[r].cond = "validate"
    /\ Has(cache, u) /\ cache.entry[u].version = doc[u]
    /\ cache.entry[u].hits + 2 <= MaxHits
    /\ cache' = [UpdateMeta(cache, u, doc[u]) EXCEPT !.entry[u].hits = @ + 1]
    /\ req' = [req EXCEPT ![r].net = "no", ![r].read = "waits"]
    /\ UNCHANGED <<disk, doc>>

(***************************************************************************)
(* The body, and the stream to the cache.                                  *)
(***************************************************************************)
\* HTCache_putBlock, and beside it HTPipeBuffer for a part.  What comes in blocks of
\* one byte is written, but bytes_written leaves it out.
PutBlock(r, bytewise) ==
    LET q == req[r] IN
    /\ q.net = "body" /\ q.todo > 0
    /\ req' = [req EXCEPT ![r].todo = @ - 1, ![r].sent = IF bytewise THEN @ ELSE @ + 1,
                   ![r].pipe = IF q.part /\ q.read # "no" THEN Append(@, q.version) ELSE @,
                   ![r].got  = IF q.part /\ q.read = "no" THEN Append(@, q.version) ELSE @]
    /\ disk' = IF q.out = NoFile THEN disk
               ELSE [disk EXCEPT ![q.out] = Append(@, q.version)]
    /\ UNCHANGED <<cache, doc>>

Block(r) == \E bytewise \in BOOLEAN : (bytewise => req[r].url \in Fragile) /\ PutBlock(r, bytewise)

Unlock(c, u) == [c EXCEPT !.entry[u].lock = NoRequest]

\* Mutant: an aborted stream leaves an entry that is taken for the whole document.
FreeStreamAsWhole(r, abort) ==
    IF req[r].out = NoFile THEN cache
    ELSE SetSize([Unlock(cache, req[r].url) EXCEPT !.entry[req[r].url].range = FALSE],
                 req[r].url, req[r].sent, req[r].part)

\* free_stream.
FreeStream(r, abort) ==
    IF req[r].out = NoFile THEN cache
    ELSE SetSize([Unlock(cache, req[r].url) EXCEPT !.entry[req[r].url].range = abort],
                 req[r].url, req[r].sent, req[r].part)

\* HTCache_free: the load ends with HT_LOADED; that of a part when the cache is
\* read, too.
Loaded(r) ==
    /\ cache' = FreeStream(r, FALSE)
    /\ req' = [req EXCEPT ![r] = IF @.read = "no" THEN Idle
                                 ELSE [@ EXCEPT !.net = "no", !.todo = 0, !.out = NoFile]]
    /\ DiskIs(disk)
    /\ UNCHANGED doc

Complete(r) == req[r].net = "body" /\ req[r].todo = 0 /\ Loaded(r)

\* The server closes a connection that is not to persist, or that has a close
\* notification as one with a body of unknown length has: HTTPEvent goes to HTTP_OK
\* however much has come.
CutShort(r) ==
    req[r].url \in Fragile /\ req[r].net = "body" /\ req[r].todo > 0 /\ Loaded(r)

\* The request times out or is killed while others are in its pipeline, or the pipe
\* is killed: HTCache_abort.
Interrupt(r) ==
    /\ "break" \in Env
    /\ req[r].part => "breakAppend" \in Env
    /\ req[r].net = "body"
    /\ cache' = FreeStream(r, TRUE)
    /\ req' = [req EXCEPT ![r] = Idle]
    /\ DiskIs(disk)
    /\ UNCHANGED doc

(***************************************************************************)
(* The reader, HTLoadCache.                                                *)
(***************************************************************************)
\* The cache is read: HTCacheFlushFilter lets the pipe go, "so that we can get the
\* rest of the data through".
ReadOver(q) ==
    IF q.net = "no" THEN Idle
    ELSE [q EXCEPT !.read = "no", !.file = NoFile, !.at = 0, !.pipe = <<>>, !.got = @ \o q.pipe]

\* HTHost_addNet may have the reader wait; the file may be gone, or empty.
OpenCached(r) ==
    LET f == cache.name[req[r].url] IN
    /\ req[r].read = "waits"
    /\ req' = [req EXCEPT ![r] = IF f = NoFile \/ disk[f] = <<>> THEN ReadOver(@)
                                 ELSE [@ EXCEPT !.read = "open", !.file = f, !.at = 0]]
    /\ UNCHANGED <<cache, disk, doc>>

\* As much as there is now, or the end of the file.
ReadCached(r) ==
    LET q == req[r]
        s == disk[q.file]
    IN
    /\ q.read = "open"
    /\ req' = [req EXCEPT ![r] = IF q.at >= Len(s) THEN ReadOver(q)
                   ELSE [q EXCEPT !.at = @ + 1, !.got = Append(@, s[q.at + 1])]]
    /\ UNCHANGED <<cache, doc>>
    /\ DiskIs(disk)

(***************************************************************************)
(* Unsafe methods, time, and the process.                                  *)
(***************************************************************************)
\* Mutant: the body of the entry stays where it is.
InvalidateSize(c, u, v, noContent) ==
    IF ~Has(c, u) THEN c
    ELSE IF noContent THEN [UpdateMeta(c, u, v) EXCEPT !.entry[u].size = 0, !.entry[u].range = TRUE]
    ELSE RemoveEntry(c, u)

\* HTCacheCheckFilter after a PUT or POST: 204 keeps the entry without its body,
\* other codes remove it; then HTCache_touch.
Invalidate(c, u, v, noContent) ==
    IF ~Has(c, u) THEN c
    ELSE IF noContent THEN [UpdateMeta(c, u, v) EXCEPT !.name[u] = NoFile,
                                !.entry[u].size = 0, !.entry[u].range = TRUE]
    ELSE RemoveEntry(c, u)

Modify(r, u, v, noContent) ==
    /\ u \in Modifiable
    /\ MayLoad(r, u)
    /\ v # doc[u]
    /\ Has(cache, u) => cache.entry[u].hits < MaxHits
    /\ Has(cache, u) /\ HasLock(cache, u) /\ ~noContent => "overwrite" \in Env
    /\ cache' = Touch(Invalidate(cache, u, v, noContent), u, r, v)
    /\ doc' = [doc EXCEPT ![u] = v]
    /\ UNCHANGED req
    /\ DiskIs(disk)

\* Somebody else changes the document.
Change(u, v) ==
    /\ u \in Modifiable /\ v # doc[u]
    /\ doc' = [doc EXCEPT ![u] = v]
    /\ UNCHANGED <<cache, disk, req>>

Expire(u) ==
    /\ Has(cache, u) /\ cache.entry[u].fresh
    /\ cache' = [cache EXCEPT !.entry[u].fresh = FALSE]
    /\ UNCHANGED <<disk, doc, req>>

\* Mutant: the sizes are not added up when the index is read.
RestartEmpty ==
    [cache EXCEPT !.chain = [b \in DOMAIN @ |-> Reverse(@[b])],
         !.entry = [u \in Urls |-> IF Has(cache, u) THEN [@[u] EXCEPT !.lock = NoRequest]
                                   ELSE NoEntry],
         !.content = 0]

\* HTCacheIndex_write and HTCacheIndex_read: locks are not written.
IndexRead ==
    [cache EXCEPT !.chain = [b \in DOMAIN @ |-> Reverse(@[b])],
         !.entry = [u \in Urls |-> IF Has(cache, u) THEN [@[u] EXCEPT !.lock = NoRequest]
                                   ELSE NoEntry],
         !.content = SumSizes(cache)]

\* HTCacheTerminate when no load is left, and HTCacheInit.
Restart ==
    /\ "restart" \in Env
    /\ \A r \in Requests : ~Busy(r)
    /\ cache' = IndexRead
    /\ UNCHANGED <<disk, doc, req>>

Next ==
    \/ Restart
    \/ \E u \in Urls : Expire(u) \/ \E v \in Versions : Change(u, v)
    \/ \E r \in Requests, u \in Urls :
          \/ \E flag \in BOOLEAN : LoadFromNet(r, u, flag) \/ LoadValidate(r, u, flag)
          \/ LoadRange(r, u) \/ LoadFromCache(r, u)
          \/ \E v \in Versions, noContent \in BOOLEAN : Modify(r, u, v, noContent)
    \/ \E r \in Requests :
          \/ AnswerUncached(r) \/ AnswerWhole(r) \/ AnswerPart(r) \/ AnswerNotModified(r)
          \/ Block(r) \/ Complete(r) \/ CutShort(r) \/ Interrupt(r) \/ OpenCached(r) \/ ReadCached(r)

Spec == Init /\ [][Next]_vars

(***************************************************************************)
(* Properties.                                                             *)
(***************************************************************************)
Whole(u, blocks) ==
    /\ \A i \in DOMAIN blocks : blocks[i] = blocks[1]
    /\ u \notin Fragile => Len(blocks) = Length[u]

\* What is served from the cache is all of one version of the document, for a hit and
\* for a validated entry, whatever was interrupted, continued with a range, modified,
\* collected or read from the index before; and it is the whole document
\* (HTCacheFilter, HTCacheUpdateFilter, free_stream), unless it may have broken off
\* when its connection was closed (HTTP.c:1358, HTCache.c:2045) or its range begins
\* too early since bytes were not counted (HTCache.c:2091).
HitIsComplete ==
    [][\A r \in Requests :
          req[r].read = "open" /\ ~req[r].part /\ req'[r].read = "no"
              => Whole(req[r].url, req[r].got)]_vars

\* The size of a partial entry, from which on the rest is asked for, is what its
\* file has: "We take the byte range as the number of bytes that we have already
\* written to the cache entry" (HTCache.c:2049-2051, HTCacheFilter).  Blocks of one
\* byte are left out of it.
RangeIsWritten ==
    \A u \in Urls :
        /\ Has(cache, u) /\ cache.entry[u].range /\ u \notin Fragile
        /\ \A r \in Requests : req[r].net = "body" => req[r].url # u
        => cache.entry[u].size = IF cache.name[u] = NoFile THEN 0 ELSE Len(disk[cache.name[u]])

\* "While we are creating a new cache object or while we are validating an existing
\* one, we must have a lock on the entry so that not other requests can get to it
\* in the mean while" (HTCache.c:1936-1940); the stream and the filters use the
\* entry, so it may not be collected either.
LockKeepsOthersOut ==
    \A r \in Requests :
        req[r].out # NoFile \/ (req[r].net = "asked" /\ req[r].cond # "no")
            => /\ Has(cache, req[r].url) /\ cache.entry[req[r].url].lock = r

\* The size the collector goes by is never less than what the entries have
\* (HTCache_setSize, delete_object, HTCacheIndex_parseLine).
ContentCovers == cache.content >= SumSizes(cache)

\* The collector takes stale entries before fresh ones, and of the fresh ones
\* those with the fewest hits (HTCacheGarbage, HTCache.c:166-236): an entry that
\* is collected though fresh and not too big leaves only locked entries, or fresh
\* ones with as many hits, behind.
Collected(u) == Has(cache, u) /\ ~HasLock(cache, u) /\ ~Has(cache', u)
LeastUsedFirst ==
    [][\A u \in Urls :
          Collected(u) /\ cache.entry[u].fresh /\ cache.entry[u].size <= MaxEntry =>
              \A w \in Urls :
                  Has(cache', w) => \/ HasLock(cache', w)
                                    \/ /\ cache'.entry[w].fresh
                                       /\ cache'.entry[w].hits >= cache.entry[u].hits]_vars
==============================================================================
