---------------------------- MODULE HTConnections ----------------------------
(***************************************************************************)
(* The connection code of libwww as one system: Host, channel, Net manager *)
(* and HTTP machine under the event loop and the application.              *)
(*                                                                         *)
(* The actions of the world outside are what the event loop or the         *)
(* application may call; they wait until the C stack is empty.             *)
(***************************************************************************)
EXTENDS HTTP

Start(frames) == Idle /\ stack' = frames
Rest == UNCHANGED <<pendHost, active, persistent, openFd, ev, wire, ret>>

NewRequest(n, h) ==
    Start(<<NetEv("HTTPEvent", n, "BEGIN")>>) /\ NewClient(n, h)

HostEventFrame(h, fd, t) == [HostFn("HostEvent", h) EXCEPT !.fd = fd, !.type = t]

\* select() reports a descriptor and the event loop dispatches its event.
SocketReady(e) ==
    /\ e \in ev /\ e.fd \in openFd
    /\ Start(<<HostEventFrame(e.host, e.fd, e.index)>>)
    /\ Rest /\ UNCHANGED <<host, net>>

\* The timer of a registration with a timeout expires.
SocketTimeout(e) ==
    /\ "timeout" \in Env /\ e \in ev
    /\ Start(<<HostEventFrame(e.host, e.fd, "TIMEOUT")>>)
    /\ Rest /\ UNCHANGED <<host, net>>

IdleTimeoutEvent(h) ==
    /\ "idle" \in Env /\ host[h].timer
    /\ Start(<<HostEventFrame(h, host[h].fd, "CLOSE")>>)
    /\ host' = [host EXCEPT ![h].timer = FALSE]
    /\ Rest /\ UNCHANGED net

FlushEvent(h) ==
    /\ host[h].wtimer
    /\ Start(<<[HostFn("flush", h) EXCEPT !.type = "TIMEOUT"]>>)
    /\ host' = [host EXCEPT ![h].wtimer = FALSE]
    /\ Rest /\ UNCHANGED net

\* HTNet_kill and HTNet_killPipe, called by the application.
Kill(n) ==
    /\ "kill" \in Env /\ net[n].life = "live"
    /\ Start(<<NetEv("HTTPEvent", n, "CLOSE")>>)
    /\ Rest /\ UNCHANGED <<host, net>>

KillPipe(n) ==
    /\ "killPipe" \in Env /\ net[n].life = "live" /\ net[n].host # NoHost
    /\ Start(KillFrames(net[n].host, "CLOSE"))
    /\ Rest /\ UNCHANGED <<host, net>>

World ==
    \/ \E n \in Nets, h \in Hosts : NewRequest(n, h)
    \/ \E e \in ev : SocketReady(e) \/ SocketTimeout(e)
    \/ \E h \in Hosts : IdleTimeoutEvent(h) \/ FlushEvent(h)
    \/ \E n \in Nets : Kill(n) \/ KillPipe(n)

\* The step of the function on top of the C stack.
Run ==
    \/ ClearChannel \/ RecoverPipe \/ Recovered \/ HostFree \/ DeleteNet
    \/ LaunchPending \/ KillPending \/ KillPiped \/ KillClose
    \/ HostEventRead \/ HostEventNext \/ HostEventWrite \/ HostEventTimeout
    \/ ConnectLookup \/ ConnectLock \/ Connected
    \/ HTDoConnect
    \/ HTNet_delete \/ UnregisterNet \/ FreeNet \/ AfterFilters
    \/ Flush \/ HTTPClose \/ HTTPTimeout \/ HTTPBegin \/ HTTPConnected
    \/ HTTPWrite \/ HTTPWritten \/ HTTPRead \/ HTTPRecoverPipe
    \/ HTTPRecovered \/ HTTPKillPipe \/ HTTPDone

Init == ConnInit

\* Every request is over: nothing need happen any more.
Finished ==
    /\ Idle /\ \A n \in Nets : net[n].life = "freed"
    /\ UNCHANGED vars

Next == World \/ Run \/ Finished

Spec == Init /\ [][Next]_vars

(***************************************************************************)
(* Fairness: a function that was called runs on, select() does not starve  *)
(* a host that waits for it again and again, an expired timer is served,   *)
(* and the peer in the end accepts, reads, and answers or closes.          *)
(***************************************************************************)
Fairness ==
    /\ WF_vars(Run)
    /\ \A h \in Hosts, i \in {"READ", "WRITE"} :
          SF_vars(\E e \in ev : e.host = h /\ e.index = i /\ SocketReady(e))
    /\ \A h \in Hosts : WF_vars(FlushEvent(h))
    /\ SF_vars(TcpConnected) /\ SF_vars(FlushSent)
    /\ SF_vars(ReadHeader \/ ReadLoaded \/ ReadClosed)

FairSpec == Spec /\ Fairness

(***************************************************************************)
(* Safety.                                                                 *)
(***************************************************************************)
Queue(h) == host[h].pipeline \o host[h].pending

PrefixOf(s, t) == Len(s) <= Len(t) /\ \A i \in DOMAIN s : s[i] = t[i]

Live(n) == net[n].life = "live"

\* No function runs on a Net object that has been freed, and none is left in
\* a queue or holding a lock.  A deleted net is freed deep in a callback, while
\* the frames below it still hold its address (killPipeline, HTTPEvent after
\* HTHost_recoverPipe); those two only compare it or drop it.
DropsItsNet == At("killPending") \/ (At("HTTPRecovered") /\ ret # "ERROR")

NoUseAfterFree ==
    /\ ~Idle /\ ~DropsItsNet /\ Top.net # NoNet => Live(Top.net)
    /\ \A h \in Hosts, n \in Nets : In(n, Queue(h)) => Live(n)
    /\ Idle => \A h \in Hosts : host[h].lock # NoNet => Live(host[h].lock)

\* HTHost_addNet: "Do NOT add extra copies of the HTNet object to the pipeline
\* or pending list".  Whatever order nets are launched, recovered and killed
\* in, a net is in at most one place of one host's two queues.
QueuedOnce ==
    /\ \A h \in Hosts : \A i, j \in DOMAIN Queue(h) :
          Queue(h)[i] = Queue(h)[j] => i = j
    /\ \A h, g \in Hosts, n \in Nets :
          In(n, Queue(h)) /\ In(n, Queue(g)) => h = g

\* A request that is not over is in some queue when control is back in the
\* event loop: there is a host that will launch it or hand it an event.
NoRequestForgotten ==
    Idle => \A n \in Nets : Live(n) => \E h \in Hosts : In(n, Queue(h))

\* The semaphore of a channel in use counts the nets of the pipeline, so that
\* the socket is closed by the last of them and by none before.
SemaphoreCountsUsers ==
    Idle => \A h \in Hosts :
        host[h].tcp = "IN_USE" /\ host[h].fd # NoFd
            => host[h].sem = Len(host[h].pipeline)

\* HTNet.c: Active "Counts open sockets", and none is open that no host has.
ActiveCountsOpenSockets ==
    Idle => /\ active = Cardinality(openFd)
            /\ \A fd \in openFd : \E h \in Hosts : host[h].fd = fd

\* HTNet_availableSockets is asked when a net enters the pipeline, and the
\* socket is made later: other hosts may have been launched in between.
ActiveWithinMax == active <= MaxActive

\* HTNet_availablePersistentSockets: two sockets are left to connections that
\* are not persistent.
PersistLeavesTwo == persistent = 0 \/ persistent + 2 <= MaxActive

\* The counter of persistent sockets is the number of hosts that have one.
PersistentCounted ==
    Idle => persistent = Cardinality({h \in Hosts : host[h].persistent})

\* A descriptor the event loop waits for is open and is still the one of the
\* host its callback gets: a number reused by socket() wakes nobody else.
EventsCurrent ==
    Idle => \A e \in ev : e.fd \in openFd /\ host[e.host].fd = e.fd

\* The idle timer, whose event terminates everything on the host, only runs
\* while the host has no request in its pipeline.
IdleTimerOnlyWhenIdle ==
    Idle => \A h \in Hosts : host[h].timer => host[h].pipeline = <<>>

\* A request that has been written is in a pipeline with a channel under it.
WrittenHasChannel ==
    Idle => \A h \in Hosts, n \in Nets :
        In(n, host[h].pipeline) /\ net[n].st = "CONNECTED" => host[h].fd # NoFd

\* HTHost_read gives bytes to the first net of the pipeline only: the requests
\* that have been written and not answered must be the first of the pipeline
\* and in the same order, or a response goes to the wrong request.
ResponsesInOrder ==
    Idle => \A h \in Hosts :
        host[h].fd # NoFd => PrefixOf(wire[host[h].fd], host[h].pipeline)

\* remainingRead says that the reader's buffer holds bytes for the next net.
\* If it says so of an empty buffer HostEvent never leaves its loop.
RemainingIsBuffered ==
    Idle => \A h \in Hosts : host[h].rem => host[h].buf

\* Something will call the first net of a pipeline: an event of its host is
\* awaited, or the flush timer runs.
PipelineIsAwaited ==
    Idle => \A h \in Hosts :
        host[h].pipeline # <<>> => host[h].wtimer \/ \E e \in ev : e.host = h

(***************************************************************************)
(* Liveness.                                                               *)
(***************************************************************************)
\* Every request that is started is over in the end, whatever the others do:
\* nothing stays pending, in a pipeline or behind a lock for ever.
RequestsEnd == \A n \in Nets : Live(n) ~> net[n].life = "freed"

(***************************************************************************)
(* Action properties.                                                      *)
(***************************************************************************)
\* A net that finishes its response takes the oldest answer due on its socket,
\* and that answer is the one to its own request.
AnswerToAsker ==
    [][\A n \in Nets :
          net[n].st = "CONNECTED" /\ net'[n].st = "OK"
             => wire[host[net[n].host].fd] # <<>>
                /\ n = Head(wire[host[net[n].host].fd])]_vars

=============================================================================
