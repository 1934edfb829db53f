------------------------------- MODULE HTTP -------------------------------
(***************************************************************************)
(* The HTTP client state machine (HTTPEvent of HTTP.c) with the streams of *)
(* the channel it writes to and reads from (HTBufWrt.c, HTWriter.c,        *)
(* HTReader.c).  An event is a frame HTTPEvent(net, type); the machine     *)
(* loops on that frame until a case returns.                               *)
(*                                                                         *)
(* Bytes are abstracted to requests and responses: a request is in the     *)
(* write buffer or on the wire, the server answers them in order, and a    *)
(* response is a status line with its headers and then a body.             *)
(***************************************************************************)
EXTENDS HTNet

On(t) == AtNet("HTTPEvent") /\ Top.type = t

\* An event that finds the machine in state s (CLOSE and TIMEOUT are handled
\* before the state is looked at).
InHttp(s) ==
    /\ AtNet("HTTPEvent") /\ Top.type \notin {"CLOSE", "TIMEOUT"}
    /\ net[Top.net].st = s

Become(s) == net' = [net EXCEPT ![Top.net].st = s]

NoConn == UNCHANGED <<pendHost, active, persistent, openFd>>

(***************************************************************************)
(* HTBufferWriter_lazyFlush, and FlushEvent when the timer of a delayed    *)
(* flush expires (type TIMEOUT).  Given a net whose request has not been   *)
(* written yet, HTTPRequest_flush puts the request into the buffer first.  *)
(* HTWriter_write acts for the last net of the pipeline.                   *)
(***************************************************************************)
Puts(n)     == n # NoNet /\ ~net[n].sent
WireWith(n) == IF Puts(n) THEN Append(wire[host[Top.host].fd], n)
                          ELSE wire[host[Top.host].fd]
OutWith(n)  == host[Top.host].out + (IF Puts(n) THEN 1 ELSE 0)
NetWith(n)  == IF Puts(n) THEN [net EXCEPT ![n].sent = TRUE] ELSE net

AtFlush == AtHost("flush") /\ host[Top.host].fd # NoFd
SetWire(w) == wire' = [wire EXCEPT ![host[Top.host].fd] = w]

\* What was in the buffer is gone when a write fails.
Lost(n) == LET w == WireWith(n) IN SubSeq(w, 1, Len(w) - OutWith(n))

FlushSent ==
    /\ AtFlush
    /\ OutWith(Top.net) > 0 => Last(host[Top.host].pipeline) # NoNet
    /\ net' = NetWith(Top.net)
    /\ SetWire(WireWith(Top.net))
    /\ host' = [host EXCEPT ![Top.host].out = 0]
    /\ ret' = "OK" /\ Return
    /\ UNCHANGED ev /\ NoConn

FlushBlocked ==
    /\ AtFlush /\ "block" \in Env
    /\ LET h == Top.host
           w == Last(host[h].pipeline)
           now == NetWith(Top.net)
       IN  /\ OutWith(Top.net) > 0 /\ w # NoNet
           /\ net' = [now EXCEPT ![w] = RegNet(@, "WRITE")]
           /\ host' = [host EXCEPT ![h] =
                 [RegHost(@, net[w], "WRITE") EXCEPT !.out = OutWith(Top.net),
                                                     !.wtimer = FALSE]]
           /\ ev' = RegEv(h, net[w], "WRITE")
    /\ SetWire(WireWith(Top.net))
    /\ ret' = "WOULD_BLOCK" /\ Return
    /\ NoConn

FlushDelayed ==
    /\ AtFlush /\ "delay" \in Env /\ Top.type # "TIMEOUT"
    /\ LET h == Top.host
           w == Last(host[h].pipeline)
           now == NetWith(Top.net)
           starts == ~host[h].wtimer /\ w # NoNet
       IN  /\ OutWith(Top.net) > 0
           /\ net' = IF starts THEN [now EXCEPT ![w] = UnregNet(@, {"WRITE"})]
                               ELSE now
           /\ host' = [host EXCEPT ![h] =
                 [IF starts THEN UnregHost(@, net[w], {"WRITE"}) ELSE @
                    EXCEPT !.out = OutWith(Top.net), !.wtimer = TRUE]]
           /\ ev' = IF starts THEN UnregEv(h, w, {"WRITE"}) ELSE ev
    /\ SetWire(WireWith(Top.net))
    /\ ret' = "OK" /\ Return
    /\ NoConn

FailedWrite(c, closes) ==
    [c EXCEPT !.broken = @ \/ closes, !.out = 0, !.wtimer = FALSE]

FlushError ==
    /\ AtFlush
    /\ LET w == Last(host[Top.host].pipeline)
       IN  /\ OutWith(Top.net) > 0
           /\ "writeError" \in Env \/ w = NoNet
           /\ host' = [host EXCEPT ![Top.host] =
                 FailedWrite(@, w # NoNet)]
    /\ net' = NetWith(Top.net)
    /\ SetWire(Lost(Top.net))
    /\ ret' = "ERROR" /\ Return
    /\ UNCHANGED ev /\ NoConn

\* EPIPE: unregister WRITE, register CLOSE (which drops every registration).
FlushClosed ==
    /\ AtFlush /\ "peerClose" \in Env
    /\ LET h == Top.host
           w == Last(host[h].pipeline)
           now == NetWith(Top.net)
       IN  /\ OutWith(Top.net) > 0 /\ w # NoNet
           /\ net' = [now EXCEPT ![w] = UnregNet(@, {"WRITE"})]
           /\ host' = [host EXCEPT ![h] =
                 [@ EXCEPT !.broken = TRUE, !.out = 0, !.wtimer = FALSE, !.reg = {}]]
           /\ ev' = EvDel(host[h].fd, {"READ", "WRITE"})
    /\ SetWire(Lost(Top.net))
    /\ ret' = "CLOSED" /\ Return
    /\ NoConn

Flush ==
    \/ FlushSent \/ FlushBlocked \/ FlushDelayed \/ FlushError \/ FlushClosed

(***************************************************************************)
(* HTTPCleanup.  The request stream, if there is one, is aborted (which    *)
(* stops the flush timer of the channel) or freed (which flushes it).      *)
(***************************************************************************)
HasInput(n) == net[n].st \notin {"BEGIN", "ERROR"}

Cleanup(n, type) ==
    LET h == net[n].host
        delete == NetEv("HTNet_delete", n, type)
    IN  IF ~HasInput(n)
        THEN Call(<<delete>>) /\ UNCHANGED host
        ELSE IF type = "NONE"
        THEN Call((IF host[h].out > 0 THEN <<HostFn("flush", h)>> ELSE <<>>)
                     \o <<delete>>)
             /\ UNCHANGED host
        ELSE Call(<<delete>>) /\ host' = [host EXCEPT ![h].wtimer = FALSE]

(***************************************************************************)
(* HTTPEvent.                                                              *)
(***************************************************************************)
\* A close is no interruption if it may be the end of the only response.
HTTPClose ==
    /\ On("CLOSE")
    /\ LET n == Top.net
           h == net[n].host
           only == h # NoHost /\ Len(host[h].pipeline) = 1
       IN  \/ Cleanup(n, "CLOSE")
           \/ only /\ Cleanup(n, "NONE")
    /\ UNCHANGED <<net, ev, wire, ret>> /\ NoConn

HTTPTimeout ==
    /\ On("TIMEOUT")
    /\ Cleanup(Top.net, "TIMEOUT")
    /\ UNCHANGED <<net, ev, wire, ret>> /\ NoConn

HTTPBegin ==
    /\ InHttp("BEGIN")
    /\ Call(<<NetFn("HTHost_connect", Top.net), [Top EXCEPT !.fn = "HTTPConnected"]>>)
    /\ UNCHANGED <<host, net, ev, wire, ret>> /\ NoConn

\* A net that is recovered keeps its read stream.
ReadyToWrite(r) ==
    [r EXCEPT !.st = "CONNECTED", !.sent = FALSE, !.rs = TRUE, !.hdr = @ /\ r.rs]

HTTPConnected ==
    /\ AtNet("HTTPConnected")
    /\ \/ /\ ret = "OK"
          /\ net' = [net EXCEPT ![Top.net] = ReadyToWrite(@)]
          /\ Call(<<NetEv("HTTPEvent", Top.net, "WRITE")>>)
       \/ /\ ret \in {"WOULD_BLOCK", "PENDING"}
          /\ Return /\ UNCHANGED net
       \/ /\ ret \in {"ERROR", "NO_HOST"}
          /\ Become("ERROR")
          /\ Call(<<[Top EXCEPT !.fn = "HTTPEvent"]>>)
    /\ UNCHANGED <<host, ev, wire, ret>> /\ NoConn

HTTPWrite ==
    /\ InHttp("CONNECTED") /\ Top.type = "WRITE"
    /\ LET n == Top.net
       IN  Call(<<[HostFn("flush", net[n].host) EXCEPT !.net = n],
                  [Top EXCEPT !.fn = "HTTPWritten"]>>)
    /\ UNCHANGED <<host, net, ev, wire, ret>> /\ NoConn

\* After a write other requests may be launched, before this one reads.
HTTPWritten ==
    /\ AtNet("HTTPWritten")
    /\ LET n == Top.net
           launch == HostFn("launchPending", net[n].host)
       IN  \/ ret = "OK" /\ Call(<<launch, NetEv("HTTPEvent", n, "READ")>>)
                         /\ UNCHANGED net
           \/ ret = "WOULD_BLOCK" /\ Call(<<launch>>) /\ UNCHANGED net
           \/ ret = "CLOSED" /\ Call(<<NetEv("HTTPEvent", n, "WRITE")>>)
                             /\ UNCHANGED net
           \/ ret = "ERROR" /\ Call(<<NetEv("HTTPEvent", n, "WRITE")>>)
                            /\ Become("RECOVER_PIPE")
    /\ UNCHANGED <<host, ev, wire, ret>> /\ NoConn

(***************************************************************************)
(* HTHost_read and HTReader_read.                                          *)
(***************************************************************************)
Reading ==
    /\ InHttp("CONNECTED") /\ Top.type = "READ"
    /\ net[Top.net].host \in Hosts

\* Mutant: whoever reads gets the bytes.
IsReaderAnyone == TRUE

Reader    == net[Top.net].host
IsReader  == First(host[Reader].pipeline) = Top.net
CanRead   == Reading /\ IsReader /\ host[Reader].fd # NoFd /\ net[Top.net].rs
\* There are bytes of a response, read before or to be read now.
Answered  == Len(wire[host[Reader].fd]) > host[Reader].out

\* Register for READ and go back to the event loop.
AwaitMore ==
    /\ net' = [net EXCEPT ![Top.net] = RegNet(@, "READ")]
    /\ ev' = RegEv(Reader, net[Top.net], "READ")
    /\ Return

ReadNotFirst ==
    /\ Reading /\ ~IsReader
    /\ AwaitMore
    /\ host' = [host EXCEPT ![Reader] = RegHost(@, net[Top.net], "READ")]
    /\ UNCHANGED <<wire, ret>> /\ NoConn

ReadNoStream ==
    /\ Reading /\ IsReader /\ host[Reader].fd # NoFd /\ ~net[Top.net].rs
    /\ Become("KILL_PIPE")
    /\ UNCHANGED <<host, ev, wire, stack, ret>> /\ NoConn

\* Mutant: remainingRead keeps its old value.
ReadMoreRemains ==
    /\ CanRead
    /\ AwaitMore
    /\ host' = [host EXCEPT ![Reader] =
          [RegHost(@, net[Top.net], "READ") EXCEPT !.buf = FALSE]]
    /\ UNCHANGED <<wire, ret>> /\ NoConn

\* Nothing to read, or not yet all of the response.
ReadMore ==
    /\ CanRead
    /\ AwaitMore
    /\ LET c == RegHost(host[Reader], net[Top.net], "READ")
       IN  host' = [host EXCEPT ![Reader] =
              [c EXCEPT !.rem = c.rem /\ ~c.buf, !.buf = FALSE]]
    /\ UNCHANGED <<wire, ret>> /\ NoConn

\* HTNet_setPersistent for the version and the headers of the response.
MakePersistent(c, mode) ==
    LET c1 == IF mode = "PIPELINE" /\ c.recovered > MaxRecover
              THEN c ELSE [c EXCEPT !.mode = mode]
    IN  [c1 EXCEPT !.persistent = @ \/ AvailablePersistentSockets]

HostWithHeaders(c, kind) ==
    CASE kind = "http11"    -> MakePersistent(c, "PIPELINE")
      [] kind = "keepalive" -> MakePersistent(c, "SINGLE")
      [] kind = "http10"    -> c

ReadHeader ==
    /\ CanRead /\ Answered /\ ~net[Top.net].hdr
    /\ LET c == HostWithHeaders(host[Reader], Server[Reader])
           close == IF "closeNotif" \in Env /\ Server[Reader] = "http11"
                    THEN {c.closeNotif, TRUE} ELSE {c.closeNotif}
       IN  /\ \E b \in close :
                 host' = [host EXCEPT ![Reader] = [c EXCEPT !.closeNotif = b]]
           /\ persistent' = IF c.persistent /\ ~host[Reader].persistent
                            THEN persistent + 1 ELSE persistent
    /\ net' = [net EXCEPT ![Top.net].hdr = TRUE]
    /\ UNCHANGED <<pendHost, active, openFd, ev, wire, stack, ret>>

\* HT_LOADED; bytes of the next response may be left in the buffer.
ReadLoaded ==
    /\ CanRead /\ Answered /\ net[Top.net].hdr
    /\ LET c == host[Reader]
           more == "pipedData" \in Env /\ Len(wire[c.fd]) > c.out + 1
       IN  /\ \E rest \in {FALSE, more} :
                 host' = [host EXCEPT ![Reader] =
                             [c EXCEPT !.buf = rest, !.rem = rest]]
           /\ wire' = [wire EXCEPT ![c.fd] = Tail(@)]
    /\ Become("OK")
    /\ UNCHANGED <<ev, stack, ret>> /\ NoConn

\* The server closed; a response without a length ends like this, too. The
\* channel may also have been deleted while others were launched (HT_CLOSED).
ReadClosed ==
    /\ Reading /\ IsReader
    /\ \/ /\ host[Reader].fd = NoFd
          /\ Become("RECOVER_PIPE")
          /\ UNCHANGED <<host, ev>>
       \/ /\ CanRead /\ ~host[Reader].buf
          /\ "peerClose" \in Env \/ Server[Reader] = "http10"
          /\ net' = [net EXCEPT ![Top.net] =
                [UnregNet(@, {"READ"}) EXCEPT !.st = "RECOVER_PIPE"]]
          /\ host' = [host EXCEPT ![Reader].reg = {}]
          /\ ev' = EvDel(host[Reader].fd, {"READ", "WRITE"})
    /\ UNCHANGED <<wire, stack, ret>> /\ NoConn

ReadError ==
    /\ CanRead /\ ~host[Reader].buf /\ "readError" \in Env
    /\ Become("KILL_PIPE")
    /\ UNCHANGED <<host, ev, wire, stack, ret>> /\ NoConn

HTTPRead ==
    \/ ReadNotFirst \/ ReadNoStream \/ ReadMore
    \/ ReadHeader \/ ReadLoaded \/ ReadClosed \/ ReadError

(***************************************************************************)
(* The states the machine leaves CONNECTED for.                            *)
(***************************************************************************)
HTTPRecoverPipe ==
    /\ InHttp("RECOVER_PIPE")
    /\ LET h == net[Top.net].host
       IN  IF host[h].persistent /\ ~host[h].closeNotif
           THEN /\ Call(<<HostFn("recoverPipe", h),
                          [Top EXCEPT !.fn = "HTTPRecovered"]>>)
                /\ UNCHANGED net
           ELSE Become("OK") /\ UNCHANGED stack
    /\ UNCHANGED <<host, ev, wire, ret>> /\ NoConn

HTTPRecovered ==
    /\ AtNet("HTTPRecovered")
    /\ IF ret = "ERROR"
       THEN Become("KILL_PIPE") /\ Call(<<[Top EXCEPT !.fn = "HTTPEvent"]>>)
       ELSE Return /\ UNCHANGED net
    /\ UNCHANGED <<host, ev, wire, ret>> /\ NoConn

HTTPKillPipe ==
    /\ InHttp("KILL_PIPE")
    /\ LET h == net[Top.net].host
       IN  IF h = NoHost THEN Return ELSE Call(KillFrames(h, "CLOSE"))
    /\ UNCHANGED <<host, net, ev, wire, ret>> /\ NoConn

HTTPDone ==
    /\ InHttp("OK") \/ InHttp("ERROR")
    /\ Cleanup(Top.net, "NONE")
    /\ UNCHANGED <<net, ev, wire, ret>> /\ NoConn
=============================================================================
