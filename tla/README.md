# libwww in TLA+

libwww is a single threaded, callback driven client library for the Web. This
project models the parts of it that carry protocol logic: how requests share
connections, the event loop, what the request manager and its filters make of a
request, the persistent cache, what the streams make of the bytes of a
connection, the FTP client, and two algorithms with rough edges. It consists of
TLA+ modules translated from the source under `src/Library/src`, configurations
that model-check them with TLC, and theorems about them that TLAPS has proved.

- [The system](#the-system)
- [The modules](#the-modules)
- [The runs](#the-runs)
- [Fairness](#fairness)
- [What is proved](#what-is-proved)
- [What the checks found](#what-the-checks-found)
- [Abstractions and what is not modelled](#abstractions-and-what-is-not-modelled)
- [Plan](#plan)

## The system

An application makes a `HTRequest` and loads it. The request manager runs the
BEFORE filters (cache, rules, credentials, proxies), then makes a `HTNet` (one
attempt to serve the request), and when that one is over the AFTER filters, which
may load the same request again: redirection, authentication. The HTTP module
runs a state machine on the Net, and the Net uses a `HTHost`, one per
server. The Host owns the only connection to that server, a `HTChannel`, and two
queues of Nets: the *pipeline*, whose Nets use the channel, and *pending*. All hosts
share a limited number of sockets; hosts that have to wait for one are in the
list `PendHost`. What is read from a channel goes through a stack of streams (status
line, header, chunk decoder, converters, cache writer). One event loop around `select()` calls
the Host for every ready descriptor, and timers for idle connections, delayed
flushes and refused requests.

| Part | State | Operations | Talks to |
|---|---|---|---|
| Host manager (`HTHost.c`) | pipeline, pending, lock, doit, mode, persistent, close notification, broken pipe, recovered, counters of requests, remainingRead, idle timer, `PendHost` | connect, addNet, deleteNet, free, launchPending, clearChannel, recoverPipe, killPipe, register, unregister, setPersistent, HostEvent | TCP machine (call), HTTP machine (event callback), Net manager (call), event table |
| Channel (`HTChannl.c`) | socket, semaphore, input and output stream | new, delete, up, down and set the semaphore | sockets, Net manager's counters |
| Net manager (`HTNet.c`) | Net objects, Active, Persistent, filter lists | newClient, delete, kill, killPipe, counters, add and delete filters | Host manager, filters |
| TCP machine (`HTTCP.c`) | `host->tcpstate`, retry | HTDoConnect, one case per state | Host, Channel, DNS, event table |
| HTTP machine (`HTTP.c`, `HTTPReq.c`) | `http->state`, streams of the request | HTTPEvent, HTTPCleanup, status line | Host, streams |
| Socket streams (`HTReader.c`, `HTWriter.c`, `HTBufWrt.c`) | read buffer, write buffer, flush timer | read, write, lazyFlush, FlushEvent, abort, free | Host (register), sockets |
| Event loop (`HTEvtLst.c`) | registrations per descriptor and direction, list of ready events | register, unregister, loop, order, execute | HostEvent, timers, select() |
| Timers (`HTTimer.c`) | sorted list | new, delete, next, dispatch | all of the above |
| Request manager, filters (`HTReqMan.c`, `HTFilter.c`, `HTInit.c`) | request objects, retries, credentials, anchor | load, kill, filters for rules, credentials, authentication, redirection | Net manager, the application |
| Access authentication (`HTAAUtil.c`, `HTAABrow.c`) | tree of realms | challenge, prompt, generate credentials | filters, user dialogue |
| Persistent cache (`HTCache.c`) | hash table of entries, locks, sizes, hit counts, files, index | filters, writing stream, loader, collector, index | request manager, streams, files |
| Body streams (`HTMIME.c`, `HTTChunk.c`, `HTReader.c`) | header parser, decoder of chunks, account of Content-Length | put_block, one per stream | Host (setRemainingRead) |
| FTP client (`HTFTP.c`) | states of the control and the data connection, what is known of the server | FTPEvent, login, data connection, server info, get data, cleanup | Host, TCP machine (listen, accept), timers |
| Names (`HTParse.c`) | | parse, canonicalise, simplify, make relative | everybody |
| Trees (`HTBTree.c`) | balanced tree of directory entries | add, next | FTP and file listings |
| MUX, DNS cache, uploads, other protocols, parsers, applications | see `PROJECT.json`, "components" | not modelled | |

There are no threads, and yet interleaving is the hard part: functions call each
other through callbacks, to any depth. A Net that ends launches the next one
from within its own deletion, that one may fail at once, recover or kill the
pipeline and so delete Nets that functions further down the stack are going to
use; an AFTER filter loads the request anew, with its own AFTER filters, while the
list it is in has not ended; a handler of the event loop unregisters what stands
in the list of ready events. On top of that come the usual things: the server closes
at any moment, sockets block, reads end in the middle of a line, timers expire
late, the application kills requests, loads are interrupted and continued in
another session, descriptors are reused.

What makes each part correct:

- **Host**: a request is in one place of one queue, and in some queue until it
  is over; answers go to the requests they answer; a connection in use is
  awaited, a connection is not used by nobody; the lock has a living holder.
- **Channel**: its semaphore counts its users, so that the last one closes it.
- **Net manager**: the counters are the numbers they stand for, below their
  limits; no freed Net is used.
- **TCP machine**: a failure at any step gives back what was taken.
- **HTTP machine and socket streams**: what was buffered is written, what was read for
  the next request is passed on to it.
- **Event loop and timers**: no handler is called for a registration that is
  gone; registrations and their timers agree; select() sleeps past a timer by no more than the callbacks of
  timers took; the most urgent event is not passed over for ever.
- **Request manager and filters**: a load is reported to the application once, and not twice;
  nobody is called with a request that was deleted; the stack does not grow
  with a chain of refusals.
- **Authentication**: credentials go to the realm they are for.
- **Cache**: what is served is whole and of one version; a range starts where the file ends; entries in use are
  locked; the size counted covers the entries; the collector takes the least
  used.
- **Body streams**: whatever the cuts, each request gets its header and body, all
  of it and nothing else.
- **FTP**: commands and replies are in step; a loaded document is whole and
  is the one of the URL; every transfer ends.
- **Names**: a name made relative to another one yields that name again.
- **Trees**: the walk is sorted and complete; the depths stored are the depths.
- **Connections together**: every request ends.

`PROJECT.json`, "hazards", lists each hazard at its line with the
properties that watch it.

## The modules

Seven models, each of one part with an abstract environment in the place
of the others:

| Modules | Part | Environment |
|---|---|---|
| `ConnState`, `HTList`, `HTHost`, `HTTCP`, `HTNet`, `HTTP`, `HTConnections` | connections | sockets, servers, timers, an application that starts and kills requests |
| `HTTimer`, `HTEventLoop` | event loop | callbacks that register, unregister, set timers, read |
| `HTFilters`, `HTRequests` | request manager | a protocol that ends each load with some status |
| `HTCache` | persistent cache | loads that deliver in blocks, are aborted, closed in the middle, validate |
| `HTMIME`, `HTTChunk`, `HTReader` | body streams | a server that sends known responses, cut anywhere |
| `HTFTP` | FTP client | a server whose replies have lines, two connections, timers |
| `HTBTree`, `HTParse` | algorithms | keys and names of small sets |

They meet where the code has an interface: `HTRequests` ends a protocol call with
the statuses `HTConnections` ends a Net with, once each (`NoRequestForgotten`,
`RequestsEnd`); `HTConnections` dispatches descriptors as fairly as
`HTEventLoop` does, and gives the first Net of a pipeline the bytes
`HTReader` cuts into responses. `HTCache` takes the load below it from the same
interface as `HTRequests`. The composition of all in one state space is out of reach.

Two abstract specifications stand over them:

- `LoadService`: a load that was accepted is reported once, and is reported in the
  end. The mapping is `owed`, which counts what each request is owed. `HTRequests` implements the steps, and under its
  fairness the rest but for one case (`ReportedUnlessAstray`, `EachReportedOnce`; see [What the checks found](#what-the-checks-found)).
- `Delivery`: the responses of a server are delivered in order, each with its header
  and a body that grows and gets complete. `HTReader` implements it; the mapping sends what
  the streams have handed on of the current response to `part` (`AsSent`).

In detail:

| Module | Models | Actions and operators |
|---|---|---|
| `ConnState` | the variables, the types of the objects, lists, event registrations, counters of sockets | `HostRec`, `NetRec`, `EvAdd`, `EvDel`, `AvailableSockets`, ..., `TypeOK` |
| `HTHost` | `HTHost.c`, `HTChannl.c` | `ClearChannel`, `RecoverPipe`, `HostFree`, `DeleteNet`, `LaunchPending`, `KillPending`, `KillPiped`, `HostEventRead`, `ConnectLock`, ... |
| `HTTCP` | `HTDoConnect` | one action per case of its switch (`TcpBegin`, `TcpChannel`, ...) |
| `HTNet` | Net objects | `NewClient`, `HTNet_delete`, `UnregisterNet`, `FreeNet`, `AfterFilters` |
| `HTTP` | `HTTPEvent`, `HTTPCleanup`, reading and writing | `HTTPBegin`, `HTTPWrite`, `Flush`, `HTTPRead`, `HTTPRecoverPipe`, ... |
| `HTConnections` | the event loop and the application around all this; the properties | `World`, `Run`, `Next`, `Spec`, `FairSpec` |
| `HTTimer` | `HTTimer.c` as operators on the sorted list | `SetTimer`, `DeleteTimer`, `InsertAfter`, `Refresh`, `Expired`, `Elapse` |
| `HTEventLoop` | `HTEvtLst.c` | `NextTurn`, `DispatchTimer`, `SelectReady`, `AddReady`, `Execute`, the callbacks `CbRegister`, `CbUnregister`, `CbTakesTime`, ... |
| `HTFilters` | the sorted filter lists and the registrations of `HTAfterInit` | `AddFilter`, `DeleteFilter`, `InsertionSort` |
| `HTRequests` | `HTReqMan.c`, `HTFilter.c`, the authentication modules, `HTNet_newClient` | `AppLoad`, `NextFilter` with what each filter does (`RuleForbids`, `Credentials`, `Authenticate`, `RedirectFollow`, `Report`, ...), `Answer`, `FilterEvent`, `Kill` |
| `HTCache` | `HTCache.c` | `Load...`, `Answer...`, `Block`, `Complete`, `CutShort`, `Interrupt`, `OpenCached`, `ReadCached`, `Modify`, `Restart`; the collector (`Garbage`) as folds over the table |
| `HTMIME`, `HTTChunk` | the header parser and the decoder of chunks as operators on their state | `EndOfLine`, `Char`, ...; `Byte`, `Size`, ... |
| `HTReader` | the socket reader and the chain of streams | `Read`, `StatusLine`, `HeaderByte`, `Body`, `DecodeByte`, ... |
| `HTFTP` | `HTFTP.c` | `Machine` (the four state machines), `ReadReply`, `ReadPart`, `ReadUncoded` (`ScanResponse`, line by line), `ControlEvent`, `DataEvent`, the timeouts, `Kill`, `Server` |
| `HTBTree` | `HTBTree_add`, `HTBTree_next` | `Add`, `Find`, `Attach`, `Climb`, `Correct`, `Turned`, `Walk` |
| `HTParse` | `HTParse`, `HTCanon`, `HTSimplify`, `HTRelative` as operators | `Parse`, `Canon`, `Simplify`, `Relative` |
| `MC...` | small instances for TLC | |
| `HTList` | what is left of a list in its order | `Place`, `Nth`, `Sublist` |
| `HTListProofs`, `ListLemmas` | what list operations, insertion, removal and folds return | |
| `HTConnectionsProofs`, `HTEventLoopProofs`, `HTRequestsProofs`, `HTCacheProofs`, `HTFTPProofs`, `HTBTreeProofs` | the theorems about these models | |

### Connections: the C stack

The variable `stack` of `HTConnections` holds the frames of the functions that are running. A
frame is a function with its arguments: `[fn |-> "HTTPEvent", net |-> n, type |->
"READ", ...]`. The frame at the head is the one that runs. Its action is what the
function does up to its next call: a call replaces the frame by those of the
callees and of the rest of the function (`HTTPWrite` becomes a `flush` and
`HTTPWritten`), a return removes it, `ret` is the value it returned. The actions
of `World` (a new request, a ready descriptor, a timer, a kill) need an empty
stack; as long as it is not empty, the only step is the one of its head, so the
actions of one call chain happen together and in the order of the code, and a
handler that re-enters another one does so in the model. The invariants
that the code restores before it returns to the event loop are stated for an
empty stack (`Idle => ...`); those that hold in the middle of everything are
stated without.

`host[h]` is `struct _HTHost` with its channel: `pipeline`, `pending`, `lock`, `doit`,
`mode`, `persistent`, `closeNotif`, `broken`, `doRecover`, `recovered`,
`reqsMade`, `reqsPerConn`, `retry`, `reg` (registeredFor), `timer` (the idle
timer runs) are its fields; `fd` and `sem` are the socket and the semaphore of the
channel; `rem` says `remainingRead > 0` and `buf` that the reader really holds
bytes; `out` counts the requests whose bytes are still in the write buffer and
`wtimer` says that the flush timer runs. `net[n]` is `struct _HTNet` with the
`http_info` of its request: `st` is `http->state` (`NEED_STREAM` never outlives a
step), `rs` says there is a read stream, `hdr` that a status line was parsed,
`sent` that the request was put into the write buffer. `wire[fd]` lists the requests
that were put into the buffer of the socket and not answered, oldest first: the
model's own memory of what the answers of the server will be, against which
`ResponsesInOrder` and `AnswerToAsker` compare the pipeline.

`Server[h]` says what a host's server is: `http11` (HTTP/1.1, so the connection is
persistent and pipelined), `keepalive` (HTTP/1.0 with keep-alive, or HTTP/1.1
with pipelining switched off: persistent, one request at a time), `http10`.
`Env` is the set of things that may go wrong or happen in an instance; each
guards one alternative of an action:

| Env | Meaning |
|---|---|
| `noName`, `noSocket`, `refused`, `unreachable`, `homes` | HTParseInet fails; socket() fails; connect() fails; connect() fails with an unreachable host; the name has two addresses |
| `block`, `delay`, `writeError` | a write would block; the flush is delayed by its timer; a write fails |
| `peerClose`, `closeNotif`, `readError` | the server closes; it announces so; a read fails |
| `pipedData` | one read returns bytes of the next response, too |
| `kill`, `killPipe`, `timeout` | HTNet_kill; HTNet_killPipe; a registration times out |
| `idle`, `cold`, `restart` | the idle timer expires; an idle channel is past its time; an AFTER filter starts a request |

connect() may always report that it would block, a read may always find nothing.

### Event loop

`reg` holds, per socket and direction, the event that is registered; `order` is the list of
ready events of this turn (`EventOrder`), `timers` the sorted list with the time that is
left, `wait` what select() was told, `pc` the place in `HTEventList_loop`, `cb` the
callback that runs. A callback does up to `MaxCalls` of the things handlers do, with any
event and timer, and then returns or fails. `HTTimer_next` takes the time once: `behind` is how long ago that was. Time passes
in select() and, with `slow` in `Env`, in the callbacks of timers: `CbTakesTime` takes a millisecond of what is left of every timer, which
gets negative for those that are late, and adds it to `behind`. What expires, and how long select() may sleep, is reckoned from the time
that was taken, while a timer set meanwhile starts now.

### Requests

`req[r]` is the request: URL, method, retries, credentials, whether it has a Net and is
still alive. `stack` holds the calls of filter lists and protocols, innermost first: a list
of AFTER filters keeps what is `left` of it while one of its filters runs a whole new load on top.
`timers` are those that report a refused request, `known` what the tree knows about a realm.
`owed` counts the reports the application waits for: it is written where
the application calls and is called, and read by nothing else.

### Cache

`cache` has the table (`chain`, per bucket), the `entry` of each URL (lock, hits, size,
freshness, whether it is a part), and the `content` size; `disk` has the files, by inode, so
that a file that was unlinked while open is not the one that has its name now; `doc` is what
the servers have. A document is a sequence of blocks of which only the version is known: a mixture of versions or a
missing block is visible. A request is `asked`, gets an answer (whole, part, not modified, not to be cached), block after
block, and is completed or not; the writing stream and the reader of a file are its `out` and `read`. A body ends early in
two ways: `Interrupt` is a timeout or a kill, which aborts the stream (`HTCache_abort`); `CutShort` is a server that closes a connection
that is not to persist or has a close notification, for which `HTTPEvent` goes to `HTTP_OK` and frees the stream as for a body that is complete.
A block may be of one byte, which `HTCache_putBlock` writes and does not count. Both happen to the documents in `Fragile`.

### Streams

`wire` are the bytes the server has sent, `buf` and `block` what the reader and the stream each take
for unread, `reply` the state of the streams of the first request of the pipeline, `out` what the
requests have got. Bytes are those the parsers tell apart (`CR`, `LF`, `SP`, `COLON`, digits, letters); a
read takes any prefix of the wire, so that every cut of every response is tried.

### FTP

`c` has `ftp_ctrl` and `ftp_data` (the states, the command, its retry), `conn` and `d` are the two
connections, `commands` and `replies` what is on its way, `srv` the server's own idea of the session and of the
transfer. `Machine` is one step of whichever of the four nested state machines of `FTPEvent` runs until it
would block. A reply is a sequence of lines, of which the first has a code and a hyphen, the last a code and a space, and those
between have a code or none ("plain"); `Layouts` says which sequences each reply may have. A read brings the lines of one reply up to any point, and with `merge` the next reply as well, of
which `FTPStatus_put_block` drops what is behind the end of a reply. `c.line` is the state of `ScanResponse`: it expects the first line, or more, or has failed.
The root has an empty path; the server remembers which request began the session (`since`), and `behind` is what `NEED_SEGMENT` finds behind the
end of the empty string, which may be anything. `clean` and `out` are history for the properties: whether a request left the connection
early or a line was without a code, and what the last request was reported with.

## The runs

All passing runs but `bodies`, `ftp` and `structures`, which end, and `requests`, check for deadlock: a state
without a successor is one in which a function of the code could not go on, or in which
requests are left and nothing can happen. In `requests` there is such a state, in which both requests have gone astray; `ReportedUnlessAstray` says that there is no other.

| Run | Instance | States | Shows |
|---|---|---|---|
| `pipelining` | 1 HTTP/1.1 host, 3 requests; `block pipedData idle cold restart` | 23,808 | answers reach their askers in order, whatever blocks and whoever is launched; buffered data is announced to the next request; every request ends |
| `failures` | the same host; `refused noName noSocket peerClose closeNotif idle` | 107,414 | no request is lost, queued twice, written to a host without a channel or left without an event when connections fail or are closed under them |
| `sockets` | 2 HTTP/1.0 hosts, 2 requests, 1 socket; `refused noName block` | 14,801 | the counter is the number of open sockets, never above the limit; the host that waits gets its turn |
| `persistence` | 2 keep-alive hosts, 3 requests; 3 sockets, so 1 persistent; `idle cold peerClose refused` | 510,093 | two sockets stay free of persistent connections; no idle timer runs on a connection in use |
| `killing` | 1 HTTP/1.1 host, 2 requests; kills, timeouts, failing streams, delays, unreachable homes | 44,087 | types, no freed Net in use, semaphores right |
| `eventloop` | 2 sockets, 3 slots, 4 events with 2 priorities, 2 of them with timeouts, 1 timer; limit 1; callbacks take time | 476,146 | ready entries have registrations; timers and registrations agree; select() oversleeps by no more than the callbacks took; the most urgent event is served |
| `requests` | 2 requests (one preemptive), 5 URLs, 2 realms | 212,233 | no load is reported twice, and each is unless it goes astray; nobody is called with a deleted request; refusals come from the loop; credentials stay in their realm |
| `cache` | 2 requests, 2 documents, one of 2 blocks that changes and a fragile one of 1, room for 3 of which 1 is the folder; `break partial restart` | 3,157,940 | what is served is of one version, and whole unless it is fragile; ranges start where the file ends; entries in use are locked; sizes are covered; the collector takes the least used |
| `bodies` | 5 responses in one pipeline: no body, by length, chunked, length 0, one more | 36,272 | however the bytes are cut, each request gets its own header and body |
| `ftp` | 2 requests of one server, a file, a directory or an upload and then the root; all failures; replies of one, two and three lines, with a line without a code | 987,476 | replies match commands; loaded is whole; transfers are of the URL's path and end |
| `structures` | trees of up to 7 elements with 4 keys; names with up to 5 characters behind the host, related to names with up to 3 | 677,244 | the walk is sorted, depths are heights; relative names are resolved to the name they were made from |
| `registrations` | that of `requests` | | violation: see [What the checks found](#what-the-checks-found) |

### Bounds

**Connections.** `MaxPipes = 2` with three requests makes the pipeline full and the
pending queue non-empty at the same time. `MaxRecover = 1` is the
value in the code. `MaxActive = 3` is the smallest limit that leaves room for a
persistent connection (the code keeps two back); `MaxActive = 1` in `sockets` makes
the second host wait. Two descriptors let a number be closed and reused while
another is open. A request is one Net, used once: `Nets` bounds the number of
requests, and nothing else is cut, `reqsMade`, `recovered` and the semaphore
stay finite by themselves. Two requests in `killing`: with three, killing single
requests of one connection makes the pending queue grow without bound (see
below), and the other runs cover three.

**Event loop.** A limit of 1 (10 in the code) makes every event after the first of a turn one that is passed
over. Two events share a slot so that one replaces the other's registration; two sockets and
two timeouts make entries of one socket survive the handler of the other.

**Requests.** A page that redirects to itself, one behind a password that redirects to a page behind another
one, one that a rule forbids, one whose scheme has no protocol module, to which another redirects: each filter of the library decides
both ways, and the load it starts may be refused. `MaxRetry = 3` instead of 6 only shortens the circle. The user says yes `Patience` times.

**Cache.** Room for three blocks, one of them for the folder, with a document of two and one of one: the collector runs, finds too big, stale and
least used entries, and has to leave locked ones. Hit counts up to 2 have a gap. Three inodes for two requests allow
one file that is unlinked but open. Two versions are enough to mix.
The document that is fragile does not change, and has one block: a load of it may end with it or without it, counted or not.

**Streams.** The responses have no body, one with a length, with length 0 and in chunks; a body that lasts until the connection closes (`HTMIME.c:125-139`) is not among
them, since it ends the pipeline and no cut of it can hurt another response. They have bodies that look like the end of
a header or like the last chunk, and a value with a blank in it. `Input` is larger than all of them: a smaller buffer only removes cuts.

**FTP.** Two requests: what the first one leaves behind disturbs the second one. One block per file, two
segments in a path, so that the client walks directories. The server may give every reply the client tells apart, among
them 125 and 225, which begin a transfer as 150 does. One or two lines are enough for a reply to end in the middle of a read or between two; a plain line
needs three, and the replies to LIST have it, whose command comes late: what is out of step lasts to the end of the connection, and every step of it multiplies the states. For `FirstInStep`, `RootIsHome`,
`NoOversleep` and `EachReportedOnce`, which do not hold, see [the list](#what-the-checks-found).

**Structures.** Seven elements make trees of four levels, in which each kind of rotation happens below the root as well. The
alphabet `/ . a ? ;` has the characters `HTSimplify` and `HTRelative` look at but the `#` of a fragment; five characters hold `/../a`, `//./a`, `/a/..`.

Nets and cache requests are interchangeable, so the runs of safety properties use them as a
symmetry set; hosts and URLs are not, because constants name them. The runs with
liveness properties use no symmetry.

**Which environment goes with which property.** The code does not keep every
property in every environment. Where it does not, the hazards in
`PROJECT.json` name the other combinations, and [the list below](#what-the-checks-found)
tells what happens: `NoUseAfterFree` with three requests
and `writeError`; `PipelineIsAwaited` when a flush is delayed and the
server closes; `RemainingIsBuffered` when data for the next request and a close
notification come together; `ResponsesInOrder` when single requests of a
connection are killed; `WrittenHasChannel` with two hosts and no persistent socket left, and when pipelines are killed; `ActiveWithinMax`, `QueuedOnce`
and `NoRequestForgotten` when requests are killed; `ActiveCountsOpenSockets` and `EventsCurrent` with several homes;
`IdleTimerOnlyWhenIdle` with four hosts;
`LockKeepsOthersOut` when an application loads one document twice at the same time; `HitIsComplete`
while the parts of a range are merged, and its wholeness when a connection is closed inside a body; `RangeIsWritten` with blocks of one byte;
`AsSent` with trailers and folded headers; `InStep` and `LoadedIsWhole` on connections left early, and with replies that have a line without a code;
`EachReportedOnce` with redirections to a scheme that has no protocol module.

Each property of a passing run has a mutant of the code (a dropped reset, an
off-by-one, a list operation at the wrong end) under which the run
violates it: `PROJECT.json`, "mutants". The mutants stand in the modules before the
definitions they replace.

## Fairness

**Connections** (`FairSpec` of `HTConnections`): weak fairness of `Run`, a C function that was called goes on. Strong
fairness, per host and direction, of the dispatch of a
descriptor: select() is level triggered, so a host that is
registered again and again is served, whatever the others do. The flush timer is weakly
fair, since it is not restarted while it runs. Of the peer it assumes that among
infinitely many attempts to connect, to flush and to read, one
succeeds (`TcpConnected`, `FlushSent`, and `ReadHeader`, `ReadLoaded` or `ReadClosed`): a
server that never answers keeps a request for ever, by default the library has
no timeout (`EventTimeout` is -1, `HTHost.c:58`). `RequestsEnd` is checked in
environments where the server does not close persistent connections: a server
that closes each connection before it answers is tried for ever, because the
count of recoveries is reset by each of them (`HTHost.c:802`).

**Event loop**: the loop and the functions it calls go on, a callback returns; select() reports
a ready socket at last, although signals may interrupt it any number of times (strong
fairness of `SelectReady`).

**Requests**: the library goes on; each Net gets its answer and each timer of a refused request is served, although others
keep the loop busy (strong fairness, `UrgentIsServed` is what the loop does for it).

**Streams**: one process, weak fairness of everything.

**FTP**: the machine goes on and the server answers what it received. Ready connections are dispatched. The timeout of the
data connection is strongly fair, since other events disable it for moments only; that of the control connection is weakly fair.
`close`, `noDial`, `cut` and the others stay possible at any time.

The cache has no liveness property: nothing in it waits.

## What is proved

Theorems are proved with `tlapm` for every value of the constants that the named
assumption of the module admits, and nothing else is assumed but the hypotheses
that a theorem states. All of them have the same shape: an inductive invariant, a lemma per
action, and a last temporal step. The invariants were run through TLC
before they were proved (`HitInv` on the instance of the run `cache`, `IInv` of FTP on instances with up to three requests, `TreeInv` on trees of up to six elements).

**Connections** (`HTConnectionsProofs`), for any hosts, nets, limits, servers and environment, from `ConnAssumption`:

- `TypeCorrect == Spec => []TypeOK`. `TypeOK` is inductive. What takes work is
  that lists stay lists through the operations of `HTList` (`RemoveAllOf`
  renumbers what is left, lemma `Numbering`), that
  `First`, `Last`, `Head` and `Tail` are never applied where there is nothing to take
  (launching, killing, reading from the wire), that counters and semaphores
  do not go below zero, and that the arguments of frames are objects of their
  kind. One lemma per operator on Host objects, one per
  action or group of actions, then `RunType`, `WorldType`, `NextType`.
- `PersistentLeaveTwoSockets == Spec => []PersistLeavesTwo`. The inductive
  invariant is `PersistInv == TypeOK /\ PersistLeavesTwo`: the counter
  grows in `ReadHeader` only, by one and only if asking
  `HTNet_availablePersistentSockets` has just said there is room
  (`HeaderCountsPersistent`), shrinks in `ClearChannel` only, and nothing else touches it
  (`OthersKeepPersistent`). `TypeOK` is needed for arithmetic.
- `PersistentAreCounted == Spec => []PersistentCounted`, which no run checks: the counter is the number of hosts that have a persistent socket. The property speaks of the states between two
  calls of the event loop; what is proved is stronger, `CountInv == TypeOK /\ IsFiniteSet(PersistentHosts) /\ persistent =
  Cardinality(PersistentHosts)`, in the middle of every function as well: the flag of a host and the counter always
  change together.

**Event loop** (`HTEventLoopProofs`), for any descriptors, events, priorities, timeouts and callbacks, from
`EventAssumption`, with the invariant `IInv == RegOK(reg) /\ ControlInv /\ OrderInv /\ TimerInv /\ OversleepsByCallbacks`:

- `HandlersRegistered == Spec => []EntriesRegistered`, `TimersFollowEvents == Spec => []TimersOfEvents`,
  `OversleepIsBounded == Spec => []OversleepsByCallbacks` (what select() is told is past no timer by more than the callbacks took since
  `HTTimer_next` looked at the clock), and `TimersSorted == Spec => []Sorted(timers)`.

`TimersOfEvents` and `EntriesRegistered` are not inductive: `TimerInv` adds that the list of timers is sorted, has each timer once, and
that what is left of each is at most its period (`TimersOK`, `TimersFit`), `OrderInv` that a slot has one ready entry at most, `ControlInv`
what the callback that runs was called for. Most of the work is in the sorted list: a timer that is set again is taken out of the
middle and put in elsewhere, and the position it goes to is the least or greatest of a set (`MinFacts`, `MaxFacts`).

**Requests** (`HTRequestsProofs`), for any requests, URLs, realms, answers, redirections and limits,
and any filters the application registers, from `RequestAssumption` and `SetupAssumption` (the filter of the application that
reports and deletes a request is the only one registered as the last, as in the applications of the repository):

- `TypeCorrect == Spec => []TypeOK`.
- `RefusedReportedFromLoop == Spec => []RefusedFromLoop`: however long a chain of refused
  requests gets, their AFTER filters have nothing below them on the C stack.
- `CredentialsStayInRealm == Spec => []CredentialsOfRealm`: a request on the wire has no
  credentials but those of the realm of its URL, whatever it was redirected from.
- `FiltersInOrder`: the list of AFTER filters is sorted by the order numbers and has each function once, in whatever
  order the application registers what.
- `DeletedIsForgotten == Spec => []NoFilterAfterDelete`: when the application's filter has deleted a request, no filter, timer or
  protocol that goes on is about it.
- `ReportedAtMostOnce == Spec => Service!Init /\ [][Service!Next]_owed`: `HTRequests` implements the safety part of `LoadService`.

The first three follow from `IInv == DataInv /\ CredsInv /\ StackInv(stack, req, timers)`.
`CredentialsOfRealm` speaks of requests with a Net and is not inductive: `CredsInv` says
the same of all requests, because a redirection clears the credentials before it loads. `StackInv` is what
the shape of the C stack comes to: below the top there are lists of AFTER filters only; of one
request at most one call is live (has filters or a protocol left to run); a request with a
pending call has no Net; a request with a timer has neither; a refused request's list is at
the bottom. Each action is a push, a return or a replacement of the top (`PushSeq`,
`TailSeq`, ...), so a handful of lemmas about `StackInv` under these serves all of them.

The others need `DeleteInv == FilterInv /\ AliveInv /\ OwedInv` as well. `FilterInv`: the reporting filter of the application is in every list of
AFTER filters and comes last, because insertion keeps the lists sorted (lemma `SortFacts`). `AliveInv`: a call
that goes on, a timer and a Net belong to a request that exists. `OwedInv`: a request exists exactly as long as its report is owed.

**Cache** (`HTCacheProofs`), for a table of any size, documents of any length, any number of loads and any limits, from
`CacheAssumption`. When no two loads have to do with one document at the same time (`"share" \notin Env`):

- `ListsAreTheEntries == Spec => []TypeOK`: the lists of the table hold the entries, each once, and nothing else.
- `LockIsKept == Spec => []LockKeepsOthersOut`.
- `SizesAreCounted == Spec => []ContentCovers`.
- `CollectorIsFair == Spec => LeastUsedFirst`, an action property.

The invariant is `CacheInv`: the table is in order (`TableOK`), each load has the files it should have open (`LoadsOK`), no document has
two loads (`Alone`), and locks are kept. The collector is three folds, one in the other: over a list, over the table, over the numbers of hits.
What each leaves behind is shown by induction along the fold (`ListFacts`, `TableFacts`, `LeastFacts`): nothing locked goes, sizes go down with
the entries, and when a round ends with the cache still too big all that the round is for is gone (`RoomLeft` is why a round that stops early is the last).

- `HitsAreComplete == Spec => HitIsComplete` and `RangesAreWritten == Spec => []RangeIsWritten`, under `Quiet`: no loads of one document at the same time, no interrupted range, no
  modification of a document whose entry is locked, no connection closed inside a body and no block of one byte (`Fragile` is empty). These are the five cases in which the code does
  serve something else, or asks for a range that starts too early.

Its invariant, `HitInv`, adds what is in the files: the file of an entry holds the document, or as much of its start as the entry says
(`EntriesWhole`), unless a load is writing it; what that load has still to come makes the document (`WrittenWhole`); a reader has the
start of the file (`ReadWhole`), and inodes without a name or a reader are empty (`UnusedEmpty`: a file that is made afresh holds nothing of
another document). Only together do they survive an interruption followed by a range.

**FTP** (`HTFTPProofs`), for any jobs with paths of any length, the root among them, for replies with any number of lines, and any environment, from `FTPAssumption` (a name in a path
has no slash, and only commands that transfer are answered by 125, 150 and 225):

- `CommandsInStep == Spec => []InStep`, `TransfersFollowUrl == Spec => []AsksForUrl`, `LoadedWhole == Spec => []LoadedIsWhole`.

The properties are about connections that are `clean`: no request left them early, and every line the client reads there has a code. Neither can be done without:
the list below shows what happens. However a reply is cut into reads and merged with the next one, a clean one is taken for one reply.
`TransfersFollowUrl` speaks of the root in a session that the request has begun, `LoadedWhole` says nothing of what was read when the code that is left is 225.

The invariant is `IInv == PartsInv /\ SocketInv /\ CountsInv /\ JobInv /\ (clean => StepInv /\ MoreInv /\ WholeInv /\ SinceInv /\ UrlInv)`. `PartsInv` is which
states of the four machines go together. The other parts say for each state what is on its way between client and server (`StepInv`), that a reply of which
some lines were read is the one the command waits for (`MoreInv`), how much of the document has been sent
and confirmed (`WholeInv`), that a session is not begun by a later request than the one that runs (`SinceInv`), and which directory the server is in for the part of the path that is done, or that it
has not left the first one (`UrlInv`).

**Lists** (`HTListProofs`, `ListLemmas`): what numbering, sublists, insertion and removal at a position, the least and
greatest of a set of positions, reversal, insertion sort and folds over finite sets return. Folds are functions defined by recursion on sets: they
exist (`FoldExists`) and keep what each step keeps (`FoldInduction`), by the least counterexample.

**Trees** (`HTBTreeProofs`), for trees of any size and any objects, from `BTreeAssumption`:

- `TreeInvariant == TreeSpec => []TreeInv`.
- `DepthsCorrect == TreeSpec => []DepthsAreHeights`: the depths that `HTBTree_add` corrects here and there are those of the subtrees.
- `WalksAreSorted == TreeSpec => []WalkIsSorted`: a walk with `HTBTree_next` ends, meets every element once, and meets them in order.

The properties speak of the tree between two calls; `TreeInv` speaks of every turn of every loop. Its parts: the pointers of fathers
and children agree (`Links`); there is a set of elements below each, such that those below its left come before it and those below
its right after it, and such that the only root has everything below it (`Sorted`; the set is not computed, it exists); a
new element belongs where the search has come to (`Path`); and each depth is right but those above one element (`Deep`). The code
puts the depths above a rotation right before it moves the pointers, so `DepthsKnown` is about the tree that the rotation is going to make
(`MadeLefts`, `MadeRights`, `MadeFathers`), and `Turn` makes it. Everything is said once, of the left: the right is its mirror image.

The properties themselves are about functions defined by recursion (`Height`, `Leftmost`, `Above`, `Walk`). These have the values
that their equations say because each goes along a way on which a rank falls (`RankRecursion`, with the depths of the tree as ranks), and
what they return follows by induction on it (`RankInduction`): down to the left is the first element of a subtree
(`LeftmostIsFirst`), up as long as one comes from the right is the first one beyond it (`AboveIsFirst`), and the walk has met as many
elements as it has made steps (`WalkMeets`).

The runs `killing`, `persistence`, `eventloop`, `requests`, `cache`, `ftp` and `structures` check the same properties on small instances.

Only model-checked:

- The other safety invariants of the connections. Their inductive strengthening has to
  speak of all kinds of frames on the C stack and of what each is still going to do, and several of them hold only in the
  environments of their runs (see "Bounds").
- Everything about liveness, and refinements of fair specifications, which are out of reach of the prover together with `ENABLED`:
  of `EachReportedOnce` and `ReportedUnlessAstray` the safety half is proved, of `AsSent` nothing.
- `HitIsComplete` with fragile documents.
- `HTReader` with its streams: what a parser makes of each prefix of each response is an enumeration.
- The names: `HTParse` uses RECURSIVE operators.

## What the checks found

Of what the repository says of itself, one statement is contradicted by a run, `registrations`: `HTAfterInit`
registers the filters that "handle error messages, logging, redirection, authentication etc." (`HTInit.c:202`), for two and
for four statuses. `HTNet_addAfter` deletes what is registered for the same function
whatever its status, so the last status of each filter is all that is left: a 301 or 302 is not followed.

Six more are contradicted by a statement that stands in a module, or by a property without the case it leaves out; added to
the configuration it belongs to, TLC refutes it.

1. **Reports** (`EachReportedOnce` in `requests.cfg`). An AFTER filter "is called whenever we have terminated a request" (`HTNet.html:156`). `HTRedirectFilter` does not
   look at what `HTLoadAnchor` returns (`HTFilter.c:263`) and stops the filters (`:275`): a request that is redirected to a URL whose scheme
   has no protocol module is reported by nobody. It is the only case: `ReportedUnlessAstray`.
2. **Timers** (`NoOversleep` in `eventloop.cfg`). `HTTimer_next` "optionally returns the time till the next one" (`HTTimer.html:82`). It subtracts the time it took before it called the
   timers (`HTTimer.c:317`, `:338`), so that select() sleeps past the next timer by what these calls took. It is never more: `OversleepsByCallbacks`.
3. **Cached parts** (`HitIsComplete` in `cache.cfg`, without the exclusion of `Fragile` in `Whole`). The cache is to "Remember if this is the full entity body or only a subpart" (`HTCache.c:2042`), and takes for full whatever was not aborted. A
   server that closes a connection inside a body, when the connection is not persistent or has a close notification as that of a body of unknown length has, makes the request end with `HT_LOADED`
   (`HTTP.c:1338-1359`): the part is served as a hit.
4. **Bytes of the cache** (`RangeIsWritten` in `cache.cfg`, without its exclusion of `Fragile`). The range begins at "the number of bytes that we have already written to the cache entry" (`HTCache.c:2050`); blocks of
   one byte are written and not counted (`:2091`).
5. **Replies of FTP** (`FirstInStep` in `ftp.cfg`). `ScanResponse` "Returns HT_LOADED if OK, HT_OK if more, HT_ERROR if error" (`HTFTP.c:230`). A line without a code in the middle of a reply makes it
   return `HT_LOADED`, and the rest answers the next command, on a connection on which nothing has gone wrong.
6. **The root in FTP** (`RootIsHome` in `ftp.cfg`). "Given a hypertext address, this routine loads a document" (`HTFTP.c:1337`). The command for the root has no argument (`:391`): on a session that
   is used again and whose REIN was refused it lists the directory an earlier request has changed to.

The following were met while modelling; the runs leave them out as told under "Bounds", and where
something can be stated about the rest, it is:

*Connections.*

- Killing one request of a pipeline leaves its answer to the next one.
- Recoveries are unbounded: `HTHost_clearChannel` resets the count at the end of each (`HTHost.c:802`).
- A delayed flush, or the flush of `HTNet_delete`, that meets a closed connection drops all registrations
  of the host, and the requests in the pipeline wait for ever (`HTBufWrt.c:69`).
- `remainingRead` survives the channel whose bytes it counts (`HTHost.c:787`).
- The mode is set to pipelining before it is asked whether a persistent socket is available (`HTHost.c:711`), and
  `HTHost_free` then clears the channel under the pipeline (`HTHost.c:1143-1147`).
- The test that is to keep a second request from writing compares the bits of an event with its
  number and never holds (`HTHost.c:1236`); one write buffer keeps the order all the same.
- The limit on sockets: `HTDoConnect` leaves `TCP_BEGIN` even when the request has to wait
  (`HTTCP.c:225`). Killing that request empties the queue and leaves the state: the next request
  for the host goes on behind the question whether there is a socket, makes one above the limit, and is in no
  queue. "The request queue ensures that no more than a fixed number of TCP connections are open at the same time" (`HTNet.html:295`).
  `ActiveWithinMax` fails after 34 states with three requests in the run `sockets` and `Env = {"kill"}`.
- Killing a pipeline: each Net that `killPipeline` deletes launches a pending one; the loops were counted before
  (`HTHost.c:132`). The one left over has been written, and its connection is closed under it, against "Kill this request
  and all requests in the Pipeline" (`HTNet.html:523`). `WrittenHasChannel` fails with three requests and `Env = {"killPipe"}`.
- Counted sockets: `Active` "Counts open sockets" (`HTNet.c:74`), but the socket of a home that cannot be
  reached is closed without being subtracted (`HTTCP.c:433`). Each costs the library one socket for good. `ActiveCountsOpenSockets`
  fails after 16 states with `Env = {"homes", "unreachable"}`.
- A net that connects while the lock is given to a pending one, because another was killed, gets into both queues (`HTHost.c:1165`).
- After a connect that fails later, net and host stay registered for CONNECT: if the socket of the next home has another number, nobody
  waits for it (`HTHost_register`; `HTTCP.c` asks itself "Do we have to unregister the HTEvent_CONNECT event then?").
- `HTHost_clearChannel` leaves the idle timer, and `HTHost_launchPending` puts a request of another host into a
  pipeline without deleting it (`HTHost.c:1260`): it may expire under the request. It takes four hosts and five requests.

*Requests.* `HTUseProxyFilter` stops the filters when the retries are used up (`HTFilter.c:314-322`), so that nobody reports the end.

*Cache.* When a range is merged, the cached part is read from the file to which the rest is being written, and is
shown in both ways: a block arrives twice (`HTMIME.c:672`, `:715`, `HTCache.c:2088`). Validating takes the lock without a test.
A part that is aborted while a range is appended gets the size of what was appended only (`HTCache.c:2053`).

*Streams.* The value of a folded header is stored twice (`HTMIME.c:391`). With a header behind the last chunk, the decoder consumes nothing and goes round for ever (`HTTChunk.c:122`).

*FTP.*

- `FTPStatus_put_block` takes all that was read for consumed and returns at the first reply; the second one in the same read is lost.
- A control connection is kept though a kill, a timeout, a failing stream or an upload left a reply on it; the next request takes it for its own.
- A kill after one of the two ends of a transfer is reported as loaded.
- The timeout of the control connection is ignored while data comes, and the caller closes the channel all the same (`HTFTP.c:1408`, `HTHost.c:144`).
- When a CWD is refused, the listing is that of another directory. A server that closes an idle control connection
  leaves one that nobody listens to. Requests at the same time share one Host object for their data (`HTFTP.c:491`).
- Behind the empty name of the root `NEED_SEGMENT` reads on (`HTFTP.c:1183`). A transfer that began with 225 and whose connection is closed is taken for
  complete, because the code is still there (`HTFTP.c:1300`).
- A 425 after the 150 leaves the client in `NEED_ACCEPT`. A reused connection has lost what SYST told.

*Names.* The comments at `HTParse.c:333-343` say that `../../albert.html` is not changed and that `/fred/..` is kept
from losing its directory; `HTSimplify` makes `.albert.html` of the first and `/` of the second, `ab` of `a/../b`, and `http://h` of
`http://h/../..`. After one removal it goes on behind `;` and `?`. Taking an empty port away does not move the path
(`HTParse.c:281`). `HTRelative` counts no slashes in the parameters and the query of the related name, and a name without a path
defeats it. An absolute reference without a fragment gets the fragment of the related name (`HTParse.c:198`).

## Abstractions and what is not modelled

*Connections.*

- Bytes are requests and responses; a response is a status line with headers and
  then a body; a request is written by one successful flush or stays in the buffer. A
  response may arrive before all of a request has left the buffer only if it
  was written in part: the model answers requests that were written.
- Whether a flush is delayed (`forceWriteFlush`, `delay`) is left open by `delay` in
  `Env`; `HTHost_forceFlush` is a flush. An expired timer found by
  `HTBufferWriter_lazyFlush` is not distinguished from a flush at once.
- A second flush of an empty buffer does nothing: the one in
  `HTChannel_deleteOutput` is part of `Cleanup`'s.
- EINTR, which repeats a call, is not modelled; nor is EBADF from connect().
- The branch of `TCP_ERROR` for an inherited persistent socket is left out: it
  cannot run, because a host that connects has no channel left from before.
- Guards such as `H \in Hosts` in `InTcp` and `AtNet` name the objects a frame is
  about. They never cut a step of the code: deadlock checking would show the
  function that cannot go on.
- Not modelled of these files: the preemptive mode, PUT and POST with their
  timers, 1xx responses, MUX and the INTERLEAVE mode, a change of mode by
  `HTHost_setMode` outside `HTHost_setPersistent`,
  `HTNet_setMaxSocket` at run time, `HTNet_killAll`, the expiry of Host
  objects, suspending the launch of pending requests.

*Others.* Each part has its list in `PROJECT.json`, "components": out-of-band events and the Windows loop; request-local filters, proxies,
digest authentication and cookies; times, meta files and the disconnected modes of the cache; encodings, multipart bodies, the
choice of converters; PASV, VMS directories and listings in FTP; escaping, user names and `news:` in names.

*Cache.* A connection that breaks inside a body and is recovered, so that the document comes again, is left out: the stream of the first attempt is the one of `HTConnections`.

*FTP.* A server that stops in the middle of a reply is left out; one that never sends it, or closes, is not. What is read behind the empty string is taken for any names. The change of
directory for the root of VMS servers belongs to the VMS directories.

*Not modelled at all.*

- MUX (`HTMux.c`, `HTMuxCh.c`, `HTDemux.c`): compiled only with `HT_MUX` and unfinished; credits are counted and nobody waits for them.
- The DNS cache: weights of homes choose one of several addresses; the connections model sees how many there are.
- Anchors, hash tables, atoms, strings, chunks: sequential, each call complete in itself.
- The parsers of HTML, SGML, XML, RDF, DAV, PEP, PICS, and presentation: large and sequential, their state a parse stack over text.
- The other protocol modules: small clients of `HTDoConnect`.
- The applications: they are the environment of these models. The robot is a program of its own on top of `LoadService`.
- Vendored code (idn tables, md5, expat, zlib), examples, SSL glue, Tcl bindings: a third of the repository's lines.

The share of lines is small for that reason: most of the lines are parsers, tables, presentation and applications.

## Plan

Done: the connections; the event loop and its timers; the request manager and the
abstract `LoadService`; the cache; the streams with the abstract `Delivery`; FTP; names and trees. Theorems about all but the streams and
names.

Next, in this order:

1. More theorems about the connections. What holds in every environment is proved (`PersistentAreCounted`); the next ones
   have the environment as a hypothesis: `QueuedOnce` and `ActiveWithinMax` when `Env` has no kills, with
   what the frames on the stack are still going to add to the queues.
2. The safety half of `AsSent`: `HTReader` implements the steps of `Delivery`.
3. Uploads in `HTTP`: the timers that hold a body back for 100 Continue.
4. The robot over `LoadService`: each anchor is loaded once, the program ends when nothing is outstanding.
5. The choice of a home in the DNS cache.
