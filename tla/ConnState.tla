------------------------------ MODULE ConnState ------------------------------
(***************************************************************************)
(* The state shared by libwww's connection code: Host objects with their   *)
(* pipeline and pending queues, Net objects, the channel of each Host, the *)
(* socket counters of the Net manager, the descriptors of the process and  *)
(* the table of events they are registered for.                            *)
(*                                                                         *)
(* libwww runs in one thread, but its functions call each other through    *)
(* callbacks and re-enter each other deeply.  `stack' is the C call stack: *)
(* the frame at its head is the function that runs next, a call replaces   *)
(* it by the callees and the frame to come back to, and the event loop     *)
(* only runs when the stack is empty.  A frame is never optional: while    *)
(* the stack is not empty the only step is the one of its head.            *)
(***************************************************************************)
EXTENDS HTList

CONSTANTS Hosts,        \* Host objects (HTHost)
          Nets,         \* Net objects (HTNet), each used for one request
          NoHost, NoNet,
          Fds,          \* descriptors the process may get from socket()
          MaxActive,    \* MaxActive of HTNet.c (HT_MAX_SOCKETS)
          MaxPipes,     \* MaxPipelinedRequests of HTHost.c (MAX_PIPES)
          MaxRecover,   \* MAX_HOST_RECOVER
          Server,       \* what kind of server each host is
          Env           \* what the world outside may do in this instance

ServerKinds == {"http11", "keepalive", "http10"}

\* Failures and events of the outside world that an instance may leave out.
EnvKinds == {"noName", "noSocket", "refused", "unreachable", "homes", "block",
             "delay", "writeError", "readError", "peerClose", "closeNotif",
             "pipedData", "kill", "killPipe", "timeout", "idle", "cold",
             "restart"}

ASSUME ConnAssumption ==
    /\ NoHost \notin Hosts /\ NoNet \notin Nets
    /\ Fds \subseteq Nat \ {0}
    /\ MaxActive \in Nat /\ MaxPipes \in Nat /\ MaxRecover \in Nat
    /\ Server \in [Hosts -> ServerKinds]
    /\ Env \subseteq EnvKinds

VARIABLES host,         \* the Host objects
          net,          \* the Net objects
          pendHost,     \* PendHost: hosts waiting for a socket, oldest first
          active,       \* Active of HTNet.c: "Counts open sockets"
          persistent,   \* Persistent of HTNet.c
          openFd,       \* descriptors open in the process
          ev,           \* registrations in the event table, see Event
          wire,         \* per descriptor, the requests written to the channel
                        \* and not answered, oldest first
          stack,        \* the C call stack
          ret           \* the value the last call returned

vars == <<host, net, pendHost, active, persistent, openFd, ev, wire, stack, ret>>

NoFd == 0

Max0(i) == IF i > 0 THEN i ELSE 0

(***************************************************************************)
(* Types.                                                                  *)
(***************************************************************************)
EventTypes == {"READ", "WRITE", "CONNECT", "CLOSE", "TIMEOUT", "BEGIN", "NONE"}
RegTypes   == {"READ", "WRITE", "CONNECT"}

TcpStates == {"BEGIN", "CHANNEL", "DNS", "NEED_SOCKET", "NEED_CONNECT",
              "CONNECTED", "IN_USE", "DNS_ERROR", "ERROR"}

HttpStates == {"BEGIN", "CONNECTED", "OK", "ERROR", "RECOVER_PIPE", "KILL_PIPE"}

Modes == {"SINGLE", "PIPELINE"}

Status == {"OK", "ERROR", "PENDING", "WOULD_BLOCK", "CLOSED", "NO_HOST",
           "NONE"}

\* struct _HTHost.  `fd' is the descriptor of host->channel (NoFd: no channel)
\* and `sem' its semaphore; `rem' says remainingRead > 0, and `buf' that the
\* reader of the channel holds bytes it has not passed on yet; `out' counts
\* the last requests of wire[fd] whose bytes the writer of the channel still
\* holds in its buffer, and `wtimer' says its flush timer is running.
HostRec == [tcp : TcpStates, pipeline : Seq(Nets), pending : Seq(Nets),
            lock : Nets \cup {NoNet}, doit : Nets \cup {NoNet},
            mode : Modes, persistent : BOOLEAN, closeNotif : BOOLEAN,
            broken : BOOLEAN, doRecover : BOOLEAN, recovered : Nat,
            reqsMade : Nat, reqsPerConn : Int, retry : Nat,
            fd : Fds \cup {NoFd}, sem : Nat, reg : SUBSET RegTypes,
            rem : BOOLEAN, buf : BOOLEAN, out : Nat, wtimer : BOOLEAN,
            timer : BOOLEAN]

NewHost == [tcp |-> "BEGIN", pipeline |-> <<>>, pending |-> <<>>,
            lock |-> NoNet, doit |-> NoNet,
            mode |-> "SINGLE", persistent |-> FALSE, closeNotif |-> FALSE,
            broken |-> FALSE, doRecover |-> FALSE, recovered |-> 0,
            reqsMade |-> 0, reqsPerConn |-> 0, retry |-> 0,
            fd |-> NoFd, sem |-> 0, reg |-> {},
            rem |-> FALSE, buf |-> FALSE, out |-> 0, wtimer |-> FALSE,
            timer |-> FALSE]

\* struct _HTNet with the http_info of its request.  `to' is the host the
\* request is for, `host' net->host (NULL until HTHost_connect), `rs' says the
\* net has a read stream, `hdr' that it has parsed a status line, and `sent'
\* that the request has been put into the channel's write buffer.
NetRec == [life : {"new", "live", "freed"}, to : Hosts \cup {NoHost},
           host : Hosts \cup {NoHost}, reg : SUBSET RegTypes,
           st : HttpStates, rs : BOOLEAN, hdr : BOOLEAN, sent : BOOLEAN]

NewNet == [life |-> "new", to |-> NoHost, host |-> NoHost, reg |-> {},
           st |-> "BEGIN", rs |-> FALSE, hdr |-> FALSE, sent |-> FALSE]

\* One entry of the event table: the callback is HostEvent with the Host as
\* its parameter.  CONNECT and WRITE share an index of the table.
Event == [fd : Fds, index : {"READ", "WRITE"}, host : Hosts]

FrameNames == {"HTTPEvent", "HTTPConnected", "HTTPWritten", "HTTPRecovered",
               "flush", "HTNet_delete",
               "HTHost_deleteNet", "unregister_net", "free_net",
               "AfterFilters", "HTHost_free", "clearChannel", "recoverPipe",
               "recovered", "launchPending", "HTHost_connect", "HTHost_lock",
               "HTHost_connected", "HTDoConnect", "HostEvent", "HostEventNext",
               "killPending", "killPiped", "killClose"}

Frame == [fn : FrameNames, net : Nets \cup {NoNet}, host : Hosts \cup {NoHost},
          type : EventTypes, fd : Fds \cup {NoFd}, cnt : Nat]

(***************************************************************************)
(* The call stack.                                                         *)
(***************************************************************************)
Fn(f, n, h, t)    == [fn |-> f, net |-> n, host |-> h, type |-> t,
                      fd |-> NoFd, cnt |-> 0]
NetFn(f, n)       == Fn(f, n, NoHost, "NONE")
NetEv(f, n, t)    == Fn(f, n, NoHost, t)
HostFn(f, h)      == Fn(f, NoNet, h, "NONE")

Idle   == stack = <<>>
Top    == Head(stack)
At(f)  == ~Idle /\ Top.fn = f

\* A function of a Net object, and one of a Host object, is on top.
AtNet(f)  == At(f) /\ Top.net \in Nets
AtHost(f) == At(f) /\ Top.host \in Hosts

Call(frames) == stack' = frames \o Tail(stack)
Return       == stack' = Tail(stack)

(***************************************************************************)
(* HTList.  A list is a sequence with its first (oldest) object first:     *)
(* HTList_addObject adds at the end, HTList_appendObject at the front.     *)
(***************************************************************************)
First(s) == IF s = <<>> THEN NoNet ELSE s[1]
Last(s)  == IF s = <<>> THEN NoNet ELSE s[Len(s)]
In(x, s) == \E i \in DOMAIN s : s[i] = x

\* HTList_removeObjectAll: what is left is numbered anew, in the same order.
RemoveAllOf(s, x) == Sublist(s, {i \in DOMAIN s : s[i] # x})

AllButLast(s) == SubSeq(s, 1, Len(s) - 1)

(***************************************************************************)
(* Events (HTEvent_register, HTEvent_unregister on the table of HTEvtLst). *)
(***************************************************************************)
Index(t) == IF t = "READ" THEN "READ" ELSE "WRITE"

EvAdd(fd, t, h) ==
    {e \in ev : ~(e.fd = fd /\ e.index = Index(t))}
        \cup {e \in Event : e.fd = fd /\ e.index = Index(t) /\ e.host = h}

\* Mutant: the entry for READ is kept.
EvDelWriteOnly(fd, types) ==
    {e \in ev : ~(e.fd = fd /\ e.index = "WRITE" /\ types # {})}

EvDel(fd, types) ==
    {e \in ev : ~(e.fd = fd /\ \E t \in types : e.index = Index(t))}

(***************************************************************************)
(* HTNet_availableSockets, HTNet_availablePersistentSockets.               *)
(***************************************************************************)
\* Mutants: one socket too many.
AvailableSocketsOneMore           == active <= MaxActive
AvailablePersistentSocketsOneMore == persistent + 1 < MaxActive

AvailableSockets           == active < MaxActive
AvailablePersistentSockets == persistent + 2 < MaxActive

ConnInit ==
    /\ host = [h \in Hosts |-> NewHost]
    /\ net = [n \in Nets |-> NewNet]
    /\ pendHost = <<>>
    /\ active = 0
    /\ persistent = 0
    /\ openFd = {}
    /\ ev = {}
    /\ wire = [fd \in Fds |-> <<>>]
    /\ stack = <<>>
    /\ ret = "NONE"

TypeOK ==
    /\ host \in [Hosts -> HostRec]
    /\ net \in [Nets -> NetRec]
    /\ pendHost \in Seq(Hosts)
    /\ active \in Nat
    /\ persistent \in Nat
    /\ openFd \subseteq Fds
    /\ ev \subseteq Event
    /\ wire \in [Fds -> Seq(Nets)]
    /\ stack \in Seq(Frame)
    /\ ret \in Status
==============================================================================
