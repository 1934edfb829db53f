------------------------------- MODULE HTHost -------------------------------
(***************************************************************************)
(* The Host object (HTHost.c) and its channel (HTChannl.c): the pipeline   *)
(* of Net objects using the connection, the queue of those waiting for it, *)
(* the lock held while a connection is being made, event registration, and *)
(* launching, recovering and killing what is queued.                       *)
(***************************************************************************)
EXTENDS ConnState

(***************************************************************************)
(* _roomInPipe and HTHost_addNet.                                          *)
(***************************************************************************)
RoomInPipe(c) ==
    /\ ~(c.reqsPerConn # 0 /\ c.reqsMade >= c.reqsPerConn)
    /\ ~c.closeNotif /\ ~c.broken
    /\ IF c.mode = "PIPELINE" /\ c.recovered < MaxRecover
       THEN Len(c.pipeline) < MaxPipes
       ELSE c.pipeline = <<>>

\* Without a channel and without a socket to get, the whole host must wait.
NoSocketFor(c) == c.fd = NoFd /\ ~AvailableSockets

AddsToPipe(c, n) ==
    ~NoSocketFor(c) /\ RoomInPipe(c) /\ (c.pending = <<>> \/ c.doit = n)

AddNetStatus(c, n) == IF AddsToPipe(c, n) THEN "OK" ELSE "PENDING"

\* Mutants: HTList_appendObject for HTList_addObject; the idle timer runs on.
AddNetAtFront(c, n) ==
    IF AddsToPipe(c, n)
    THEN [c EXCEPT !.pipeline = <<n>> \o @, !.reqsMade = @ + 1,
                   !.doit = IF @ = n THEN NoNet ELSE @, !.timer = FALSE]
    ELSE [c EXCEPT !.pending = Append(@, n)]
AddNetKeepTimer(c, n) ==
    IF AddsToPipe(c, n)
    THEN [c EXCEPT !.pipeline = Append(@, n), !.reqsMade = @ + 1,
                   !.doit = IF @ = n THEN NoNet ELSE @]
    ELSE [c EXCEPT !.pending = Append(@, n)]

\* The host after HTHost_addNet.  Entering the pipe stops the idle timer; the
\* holder of the lock that finds no socket keeps its place at the front.
AddNetHost(c, n) ==
    IF AddsToPipe(c, n)
    THEN [c EXCEPT !.pipeline = Append(@, n), !.reqsMade = @ + 1,
                   !.doit = IF @ = n THEN NoNet ELSE @, !.timer = FALSE]
    ELSE IF NoSocketFor(c) /\ c.lock = n
    THEN [c EXCEPT !.pending = <<n>> \o @]
    ELSE [c EXCEPT !.pending = Append(@, n)]

AddNetPendHost(c, h) ==
    IF NoSocketFor(c) /\ ~In(h, pendHost) THEN Append(pendHost, h) ELSE pendHost

(***************************************************************************)
(* HTHost_register and HTHost_unregister: what they leave in the Host, the *)
(* Net and the event table.  A host stays registered for READ "to catch a  *)
(* socket close"; WRITE is dropped only for the last net of the pipe.      *)
(***************************************************************************)
RegNet(r, t)     == [r EXCEPT !.reg = @ \cup {t}]
RegHost(c, r, t) == IF t \in r.reg THEN c ELSE [c EXCEPT !.reg = @ \cup {t}]
RegEv(h, r, t)   == IF t \in r.reg \cup host[h].reg THEN ev
                    ELSE EvAdd(host[h].fd, t, h)

UnregNet(r, types)     == [r EXCEPT !.reg = @ \ types]
UnregHost(c, r, types) == [c EXCEPT !.reg = @ \ (types \cap r.reg)]

\* Mutant: any net drops whatever it unregisters.
UnregEvAll(h, n, types) ==
    EvDel(host[h].fd, types \cap net[n].reg \cap host[h].reg)

UnregEv(h, n, types) ==
    LET c == host[h]
        dropped == {t \in types \cap net[n].reg \cap c.reg :
                       t = "CONNECT" \/ (t = "WRITE" /\ Last(c.pipeline) = n)}
    IN  EvDel(c.fd, dropped)

(***************************************************************************)
(* HTChannel_delete.  Its users share a channel by its semaphore: the      *)
(* socket is closed when nobody is left, otherwise the caller just leaves. *)
(* Either way the input stream is freed or aborted, and with it the read   *)
(* stream of the net that is first in the pipeline.                        *)
(***************************************************************************)
\* Mutant: off by one.
ChannelFreedLate(c) == c.sem < 0

ChannelFreed(c) == c.sem = 0

ChannelDelete(c) ==
    /\ openFd' = IF ChannelFreed(c) THEN openFd \ {c.fd} ELSE openFd
    /\ active' = IF ChannelFreed(c) THEN Max0(active - 1) ELSE active
    /\ wire'   = IF ChannelFreed(c) THEN [wire EXCEPT ![c.fd] = <<>>] ELSE wire
    /\ net'    = IF c.pipeline = <<>> THEN net
                 ELSE [net EXCEPT ![First(c.pipeline)].rs = FALSE]

\* Mutant: no HTChannel_downSemaphore.
LeftChannelStillUp(c) ==
    IF ChannelFreed(c)
    THEN [c EXCEPT !.fd = NoFd, !.buf = FALSE, !.out = 0, !.wtimer = FALSE]
    ELSE c

\* The host when HTChannel_delete returns: without the channel if it is gone.
LeftChannel(c) ==
    IF ChannelFreed(c)
    THEN [c EXCEPT !.fd = NoFd, !.buf = FALSE, !.out = 0, !.wtimer = FALSE]
    ELSE [c EXCEPT !.sem = @ - 1]

(***************************************************************************)
(* HTHost_clearChannel: forget the channel and start over, then launch     *)
(* what is pending.  The socket is closed if the semaphore says so.        *)
(***************************************************************************)
\* Mutant: host->persistent is not reset.
ClearedHostPersistent(c) ==
    [c EXCEPT !.fd = NoFd, !.sem = 0, !.buf = FALSE, !.out = 0,
              !.wtimer = FALSE, !.reg = {}, !.tcp = "BEGIN", !.reqsMade = 0,
              !.closeNotif = FALSE, !.broken = FALSE,
              !.mode = "SINGLE", !.recovered = 0]

ClearedHost(c) ==
    [c EXCEPT !.fd = NoFd, !.sem = 0, !.buf = FALSE, !.out = 0,
              !.wtimer = FALSE, !.reg = {}, !.tcp = "BEGIN", !.reqsMade = 0,
              !.persistent = FALSE, !.closeNotif = FALSE, !.broken = FALSE,
              !.mode = "SINGLE", !.recovered = 0]

ClearChannel ==
    /\ AtHost("clearChannel")
    /\ LET h == Top.host
           c == host[h]
       IN  IF c.fd = NoFd
           THEN /\ Return
                /\ UNCHANGED <<host, net, active, persistent, openFd, ev, wire>>
           ELSE /\ ev' = EvDel(c.fd, {"READ", "WRITE"})
                /\ ChannelDelete(c)
                /\ persistent' = IF c.persistent THEN Max0(persistent - 1)
                                                 ELSE persistent
                /\ host' = [host EXCEPT ![h] = ClearedHost(c)]
                /\ IF c.pending # <<>> THEN Call(<<HostFn("launchPending", h)>>)
                                       ELSE Return
    /\ UNCHANGED <<pendHost, ret>>

(***************************************************************************)
(* HTHost_recoverPipe: put the pipeline back in front of the pending queue *)
(* and drop the connection.  RESET takes each net back to its beginning.   *)
(***************************************************************************)
ResetNets(S) ==
    [n \in Nets |-> IF n \in S THEN [net[n] EXCEPT !.reg = {}, !.st = "BEGIN"]
                               ELSE net[n]]

\* Mutants: the pipeline is not emptied; it is not put back.
RecoveredHostKeepsPipe(c) ==
    [c EXCEPT !.recovered = @ + 1, !.reg = {}, !.mode = "SINGLE",
              !.pending = c.pipeline \o @, !.lock = First(c.pipeline), !.sem = 0]
RecoveredHostLosesPipe(c) ==
    [c EXCEPT !.recovered = @ + 1, !.reg = {}, !.mode = "SINGLE",
              !.pipeline = <<>>, !.lock = First(c.pending), !.sem = 0]

RecoveredHost(c) ==
    [c EXCEPT !.recovered = @ + 1, !.reg = {}, !.mode = "SINGLE",
              !.pipeline = <<>>, !.pending = c.pipeline \o @,
              !.lock = First(c.pipeline), !.sem = 0]

RecoverPipe ==
    /\ AtHost("recoverPipe")
    /\ LET h == Top.host
           c == host[h]
       IN  IF c.recovered > MaxRecover \/ c.pipeline = <<>>
           THEN /\ ret' = IF c.recovered > MaxRecover THEN "ERROR" ELSE "OK"
                /\ Return
                /\ UNCHANGED <<host, net, ev>>
           ELSE /\ ev' = EvDel(c.fd, {"READ", "WRITE"})
                /\ net' = ResetNets({n \in Nets : In(n, c.pipeline)})
                /\ host' = [host EXCEPT ![h] = RecoveredHost(c)]
                /\ Call(<<HostFn("clearChannel", h), HostFn("recovered", h)>>)
                /\ UNCHANGED ret
    /\ UNCHANGED <<pendHost, active, persistent, openFd, wire>>

Recovered ==
    /\ AtHost("recovered")
    /\ host' = [host EXCEPT ![Top.host].doRecover = FALSE]
    /\ ret' = "OK"
    /\ Return
    /\ UNCHANGED <<net, pendHost, active, persistent, openFd, ev, wire>>

(***************************************************************************)
(* HTHost_free: what becomes of the channel when a net of the pipeline is  *)
(* done with it.  When the request was interrupted or timed out the output *)
(* stream is aborted, which stops the flush timer.                         *)
(***************************************************************************)
KeepsChannel(c) ==
    c.persistent /\ ~c.closeNotif
        /\ ~(Len(c.pipeline) <= 1 /\ c.reqsMade = c.reqsPerConn)

\* "got close notification" with other requests in the pipe: recover them.
\* Mutant: they are left where they are.
MustRecoverNever(c) == FALSE

MustRecover(c) == c.persistent /\ c.closeNotif /\ Len(c.pipeline) > 1

HostFree ==
    /\ AtHost("HTHost_free")
    /\ LET h == Top.host
           c == [host[h] EXCEPT !.wtimer = @ /\ Top.type = "NONE"]
           idle == Len(c.pipeline) <= 1 /\ c.pending = <<>>
       IN  CASE c.fd = NoFd ->
                  /\ Return
                  /\ UNCHANGED <<host, net, active, openFd, wire>>
             [] c.fd # NoFd /\ KeepsChannel(c) ->
                  /\ host' = [host EXCEPT ![h] =
                        [LeftChannel(c) EXCEPT !.timer = c.timer \/ idle]]
                  /\ ChannelDelete(c)
                  /\ Return
             [] c.fd # NoFd /\ MustRecover(c) ->
                  /\ host' = [host EXCEPT ![h] =
                        [LeftChannel(c) EXCEPT
                            !.reqsPerConn = c.reqsMade - Len(c.pipeline),
                            !.doRecover = TRUE]]
                  /\ ChannelDelete(c)
                  /\ Return
             [] OTHER ->
                  /\ host' = [host EXCEPT ![h] = [c EXCEPT !.sem = 0]]
                  /\ Call(<<HostFn("clearChannel", h)>>)
                  /\ UNCHANGED <<net, active, openFd, wire>>
    /\ UNCHANGED <<pendHost, persistent, ev, ret>>

(***************************************************************************)
(* HTHost_deleteNet, once HTHost_free is done.                             *)
(***************************************************************************)
\* Mutant: the net stays pending.
WithoutNetButPending(c, n) ==
    [c EXCEPT !.pipeline = RemoveAllOf(@, n), !.lock = First(c.pending)]

WithoutNet(c, n) ==
    LET left == RemoveAllOf(c.pending, n)
    IN  [c EXCEPT !.pipeline = RemoveAllOf(@, n), !.pending = left,
                  !.lock = First(left)]

DeleteNet ==
    /\ AtNet("HTHost_deleteNet")
    /\ LET n == Top.net
           h == net[n].host
       IN  /\ host' = [host EXCEPT ![h] = WithoutNet(@, n)]
           /\ IF host[h].doRecover
              THEN Call(<<HostFn("recoverPipe", h), NetFn("unregister_net", n)>>)
              ELSE Call(<<NetFn("unregister_net", n)>>)
    /\ UNCHANGED <<net, pendHost, active, persistent, openFd, ev, wire, ret>>

(***************************************************************************)
(* HTHost_launchPending.  The guard that is to keep a second net from      *)
(* writing compares net->registeredFor, which holds HTEvent_BITS(type),    *)
(* with HTEvent_WRITE, which also has the index bits set: it never holds,  *)
(* and so has no place in the action.                                      *)
(***************************************************************************)
Popped(c)       == [c EXCEPT !.pending = Tail(@), !.doit = First(c.pending)]
PoppedToPipe(c) == [Popped(c) EXCEPT !.pipeline = Append(@, First(c.pending))]

LaunchOwn(h) ==
    LET n == First(host[h].pending)
    IN  /\ RoomInPipe(host[h]) /\ n # NoNet
        /\ host' = [host EXCEPT ![h] = Popped(@)]
        /\ Call(<<NetEv("HTTPEvent", n, "WRITE")>>)
        /\ UNCHANGED pendHost

\* The next host that waits for a socket.  The net goes into its pipeline
\* without HTHost_addNet, and it is the launching host that counts a request.
\* Mutant: other hosts are not looked at.
LaunchNoOther(h) == Return /\ UNCHANGED <<host, pendHost>>

LaunchOther(h) ==
    /\ AvailableSockets /\ pendHost # <<>>
    /\ pendHost' = Tail(pendHost)
    /\ LET p == Head(pendHost)
           n == First(host[p].pending)
           popped == [host EXCEPT ![p] = PoppedToPipe(@)]
       IN  IF n = NoNet
           THEN Return /\ UNCHANGED host
           ELSE /\ host' = [popped EXCEPT ![h].reqsMade = @ + 1]
                /\ Call(<<NetEv("HTTPEvent", n, "WRITE")>>)

LaunchPending ==
    /\ AtHost("launchPending")
    /\ LET h == Top.host
           own == RoomInPipe(host[h]) /\ host[h].pending # <<>>
           other == AvailableSockets /\ pendHost # <<>>
       IN  \/ LaunchOwn(h)
           \/ ~own /\ LaunchOther(h)
           \/ ~own /\ ~other /\ Return /\ UNCHANGED <<host, pendHost>>
    /\ UNCHANGED <<net, active, persistent, openFd, ev, wire, ret>>

(***************************************************************************)
(* killPipeline: CLOSE or TIMEOUT for every net of the pending queue, then *)
(* for those of the pipeline, each loop as long as its queue was when the  *)
(* function began; then the channel is closed.                             *)
(***************************************************************************)
\* Mutant: off by one.
KillFramesOneLess(h, t) ==
    LET c == host[h]
        loop(f, k) == [Fn(f, NoNet, h, t) EXCEPT !.cnt = k]
    IN  <<loop("killPending", Len(c.pending) - 1),
          loop("killPiped", Len(c.pipeline) - 1), HostFn("killClose", h)>>

KillFrames(h, t) ==
    LET c == host[h]
        loop(f, k) == [Fn(f, NoNet, h, t) EXCEPT !.cnt = k]
    IN  <<loop("killPending", Len(c.pending)), loop("killPiped", Len(c.pipeline))>>
           \o IF c.pipeline = <<>> THEN <<>> ELSE <<HostFn("killClose", h)>>

\* Top.net is the net the last turn of the loop has terminated.
KillPending ==
    /\ AtHost("killPending")
    /\ LET h == Top.host
           c == [host[h] EXCEPT
                    !.lock = IF Top.net # NoNet /\ @ = Top.net THEN NoNet ELSE @]
           n == Last(c.pending)
       IN  \/ /\ Top.cnt = 0
              /\ Return
              /\ host' = [host EXCEPT ![h] = c]
              /\ UNCHANGED net
           \/ /\ Top.cnt > 0 /\ n = NoNet
              /\ Call(<<[Top EXCEPT !.cnt = @ - 1, !.net = NoNet]>>)
              /\ host' = [host EXCEPT ![h] = c]
              /\ UNCHANGED net
           \/ /\ Top.cnt > 0 /\ n # NoNet
              /\ host' = [host EXCEPT ![h] = [c EXCEPT !.pending = AllButLast(c.pending)]]
              /\ net' = [net EXCEPT ![n].reg = {}]
              /\ Call(<<NetEv("HTTPEvent", n, Top.type),
                        [Top EXCEPT !.cnt = @ - 1, !.net = n]>>)
    /\ UNCHANGED <<pendHost, active, persistent, openFd, ev, wire, ret>>

KillPiped ==
    /\ AtHost("killPiped")
    /\ LET n == First(host[Top.host].pipeline)
       IN  IF Top.cnt = 0
           THEN Return /\ UNCHANGED net
           ELSE IF n = NoNet
           THEN Call(<<[Top EXCEPT !.cnt = @ - 1]>>) /\ UNCHANGED net
           ELSE /\ net' = [net EXCEPT ![n].reg = {}]
                /\ Call(<<NetEv("HTTPEvent", n, Top.type),
                          [Top EXCEPT !.cnt = @ - 1]>>)
    /\ UNCHANGED <<host, pendHost, active, persistent, openFd, ev, wire, ret>>

KillClose ==
    /\ AtHost("killClose")
    /\ host' = [host EXCEPT ![Top.host].sem = 0]
    /\ Call(<<HostFn("clearChannel", Top.host)>>)
    /\ UNCHANGED <<net, pendHost, active, persistent, openFd, ev, wire, ret>>

(***************************************************************************)
(* HostEvent, the event callback of a Host: READ and CLOSE go to the first *)
(* net of the pipeline and then, while bytes remain, to the next; WRITE    *)
(* goes to the last.  An event for a socket that is no longer the host's   *)
(* is dropped, and a readable channel nobody uses is one to close.         *)
(***************************************************************************)
HostEventRead ==
    /\ AtHost("HostEvent") /\ Top.type \in {"READ", "CLOSE"}
    /\ LET h == Top.host
           n == First(host[h].pipeline)
       IN  \/ /\ host[h].fd # Top.fd
              /\ Return /\ UNCHANGED host
           \/ /\ host[h].fd = Top.fd /\ n # NoNet
              /\ Call(<<NetEv("HTTPEvent", n, Top.type),
                        [Top EXCEPT !.fn = "HostEventNext"]>>)
              /\ UNCHANGED host
           \/ /\ host[h].fd = Top.fd /\ n = NoNet
              /\ host' = [host EXCEPT ![h].rem = FALSE]
              /\ Call(<<HostFn("clearChannel", h)>>)
    /\ UNCHANGED <<net, pendHost, active, persistent, openFd, ev, wire, ret>>

HostEventNext ==
    /\ AtHost("HostEventNext")
    /\ IF host[Top.host].rem
       THEN Call(<<[Top EXCEPT !.fn = "HostEvent"]>>)
       ELSE Return
    /\ UNCHANGED <<host, net, pendHost, active, persistent, openFd, ev, wire, ret>>

HostEventWrite ==
    /\ AtHost("HostEvent") /\ Top.type = "WRITE"
    /\ LET n == Last(host[Top.host].pipeline)
       IN  IF n = NoNet THEN Return ELSE Call(<<NetEv("HTTPEvent", n, "WRITE")>>)
    /\ UNCHANGED <<host, net, pendHost, active, persistent, openFd, ev, wire, ret>>

HostEventTimeout ==
    /\ AtHost("HostEvent") /\ Top.type = "TIMEOUT"
    /\ Call(KillFrames(Top.host, "TIMEOUT"))
    /\ UNCHANGED <<host, net, pendHost, active, persistent, openFd, ev, wire, ret>>

(***************************************************************************)
(* HTHost_connect.  A net that has no host yet looks it up (HTHost_new):   *)
(* an idle persistent channel that has gone cold is cleared first.  A host *)
(* that is neither locked nor connected is then locked, for the first net  *)
(* that waits or for this one.  Only the holder of the lock connects.      *)
(***************************************************************************)
MayBeCold(c) == c.fd # NoFd /\ c.persistent /\ c.pipeline = <<>>

ConnectLookup ==
    /\ AtNet("HTHost_connect")
    /\ LET n == Top.net
           h == net[n].to
       IN  \/ /\ net[n].host = NoHost /\ MayBeCold(host[h])
              /\ "cold" \in Env
              /\ Call(<<HostFn("clearChannel", h), NetFn("HTHost_lock", n)>>)
           \/ /\ Call(<<NetFn("HTHost_lock", n)>>)
    /\ UNCHANGED <<host, net, pendHost, active, persistent, openFd, ev, wire, ret>>

Locked(c, n) ==
    IF c.lock = NoNet /\ c.fd = NoFd
    THEN [c EXCEPT !.lock = IF c.pending = <<>> THEN n ELSE First(c.pending)]
    ELSE c

ConnectLock ==
    /\ AtNet("HTHost_lock")
    /\ LET n == Top.net
           h == net[n].to
           c == IF net[n].host = NoHost THEN Locked(host[h], n) ELSE host[h]
       IN  /\ h \in Hosts
           /\ net' = [net EXCEPT ![n].host = h]
           /\ IF c.lock \in {NoNet, n}
              THEN /\ host' = [host EXCEPT ![h] = c]
                   /\ Call(<<NetFn("HTDoConnect", n), NetFn("HTHost_connected", n)>>)
                   /\ UNCHANGED <<pendHost, ret>>
              ELSE /\ host' = [host EXCEPT ![h] = AddNetHost(c, n)]
                   /\ pendHost' = AddNetPendHost(c, h)
                   /\ ret' = IF AddNetStatus(c, n) = "PENDING" THEN "PENDING"
                                                               ELSE "ERROR"
                   /\ Return
    /\ UNCHANGED <<active, persistent, openFd, ev, wire>>

Connected ==
    /\ AtNet("HTHost_connected")
    /\ LET n == Top.net
           h == net[n].host
       IN  /\ host' = CASE ret = "PENDING"     -> host
                        [] ret = "WOULD_BLOCK" -> [host EXCEPT ![h].lock = n]
                        [] OTHER -> [host EXCEPT ![h].lock = First(host[h].pending)]
           /\ ret' = IF ret = "PENDING" THEN "WOULD_BLOCK" ELSE ret
    /\ Return
    /\ UNCHANGED <<net, pendHost, active, persistent, openFd, ev, wire>>
=============================================================================
