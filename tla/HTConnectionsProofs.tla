------------------------- MODULE HTConnectionsProofs -------------------------
(***************************************************************************)
(* Proofs about HTConnections for any hosts, nets, bounds and outside      *)
(* world: type correctness, and that persistent connections leave two      *)
(* sockets free.                                                           *)
(***************************************************************************)
EXTENDS HTConnections, HTListProofs

(***************************************************************************)
(* HTList.                                                                 *)
(***************************************************************************)
\* HTList_removeObjectAll leaves a list of the same kind of objects.
LEMMA RemoveAllOfType ==
    ASSUME NEW S, NEW s \in Seq(S), NEW x
    PROVE  RemoveAllOf(s, x) \in Seq(S)
<1>1. {i \in DOMAIN s : s[i] # x} \in SUBSET (DOMAIN s)
  OBVIOUS
<1> QED BY <1>1, SublistFacts DEF RemoveAllOf

\* HTList_firstObject and HTList_lastObject give an object of the list or NULL,
\* and NULL only stands for the empty list.
LEMMA FirstLastType ==
    ASSUME NEW s \in Seq(Nets)
    PROVE  /\ First(s) \in Nets \cup {NoNet} /\ Last(s) \in Nets \cup {NoNet}
           /\ First(s) # NoNet => s # <<>> /\ First(s) \in Nets
           /\ Last(s) # NoNet => s # <<>> /\ Last(s) \in Nets
           /\ s # <<>> => First(s) \in Nets /\ Last(s) \in Nets
           /\ Tail(s) \in Seq(Nets) \/ s = <<>>
           /\ AllButLast(s) \in Seq(Nets)
  BY DEF First, Last, AllButLast

(***************************************************************************)
(* The C stack.                                                            *)
(***************************************************************************)
\* The frames the functions of the code push are frames.
LEMMA FrameType ==
    ASSUME NEW f \in FrameNames, NEW n \in Nets \cup {NoNet},
           NEW h \in Hosts \cup {NoHost}, NEW t \in EventTypes
    PROVE  /\ Fn(f, n, h, t) \in Frame /\ NetFn(f, n) \in Frame
           /\ NetEv(f, n, t) \in Frame /\ HostFn(f, h) \in Frame
  BY DEF Fn, NetFn, NetEv, HostFn, Frame, NoFd, EventTypes

\* The running function has arguments of the right kinds.
LEMMA TopType ==
    ASSUME TypeOK, ~Idle
    PROVE  /\ Top \in Frame
           /\ Top.net \in Nets \cup {NoNet} /\ Top.host \in Hosts \cup {NoHost}
           /\ Top.type \in EventTypes /\ Top.cnt \in Nat
           /\ Top.fd \in Fds \cup {NoFd}
<1>1. Top \in Frame
  BY DEF TypeOK, Idle, Top
<1> QED BY <1>1 DEF Frame

\* Returning from a function, or calling one to three, leaves a stack.
LEMMA StackType ==
    ASSUME TypeOK, ~Idle
    PROVE  /\ Return => stack' \in Seq(Frame)
           /\ \A a \in Frame : Call(<<a>>) => stack' \in Seq(Frame)
           /\ \A a, b \in Frame : Call(<<a, b>>) => stack' \in Seq(Frame)
           /\ \A a, b, c \in Frame : Call(<<a, b, c>>) => stack' \in Seq(Frame)
<1>1. Tail(stack) \in Seq(Frame)
  BY DEF TypeOK, Idle
<1>2. \A s \in Seq(Frame) : s \o Tail(stack) \in Seq(Frame)
  BY <1>1, ConcatProperties
<1>3. \A a, b, c \in Frame :
         <<a>> \in Seq(Frame) /\ <<a, b>> \in Seq(Frame) /\ <<a, b, c>> \in Seq(Frame)
  OBVIOUS
<1>4. \A s \in Seq(Frame) : Call(s) => stack' \in Seq(Frame)
  BY <1>2 DEF Call
<1>5. Return => stack' \in Seq(Frame)
  BY <1>1 DEF Return
<1> QED BY <1>3, <1>4, <1>5

(***************************************************************************)
(* The event table.                                                        *)
(***************************************************************************)
\* HTEvent_register and HTEvent_unregister leave a table of events.
LEMMA EventsType ==
    ASSUME TypeOK
    PROVE  /\ \A fd, types : EvDel(fd, types) \subseteq Event
           /\ \A fd, t, h : EvAdd(fd, t, h) \subseteq Event
           /\ \A h, r, t : RegEv(h, r, t) \subseteq Event
           /\ \A h, n, types : UnregEv(h, n, types) \subseteq Event
<1>1. ev \subseteq Event
  BY DEF TypeOK
<1> QED BY <1>1 DEF EvDel, EvAdd, RegEv, UnregEv

(***************************************************************************)
(* The functions that update one Host or one Net.                          *)
(***************************************************************************)
\* Registration keeps a Net object a Net object.
LEMMA NetUpdates ==
    ASSUME NEW r \in NetRec
    PROVE  /\ \A t \in RegTypes : RegNet(r, t) \in NetRec
           /\ \A types : UnregNet(r, types) \in NetRec
<1>1. r.reg \subseteq RegTypes
  BY DEF NetRec
<1> QED BY <1>1 DEF NetRec, RegNet, UnregNet

\* The fields of a Host object have their types.
LEMMA HostFields ==
    ASSUME NEW c \in HostRec
    PROVE  /\ c.tcp \in TcpStates /\ c.pipeline \in Seq(Nets)
           /\ c.pending \in Seq(Nets) /\ c.lock \in Nets \cup {NoNet}
           /\ c.doit \in Nets \cup {NoNet} /\ c.mode \in Modes
           /\ c.persistent \in BOOLEAN /\ c.closeNotif \in BOOLEAN
           /\ c.broken \in BOOLEAN /\ c.doRecover \in BOOLEAN
           /\ c.recovered \in Nat /\ c.reqsMade \in Nat /\ c.reqsPerConn \in Int
           /\ c.retry \in Nat /\ c.fd \in Fds \cup {NoFd} /\ c.sem \in Nat
           /\ c.reg \subseteq RegTypes /\ c.rem \in BOOLEAN /\ c.buf \in BOOLEAN
           /\ c.out \in Nat /\ c.wtimer \in BOOLEAN /\ c.timer \in BOOLEAN
  BY DEF HostRec

\* Assignments to single fields of a Host.
LEMMA HostAssignments ==
    ASSUME NEW c \in HostRec, NEW b \in BOOLEAN
    PROVE  /\ [c EXCEPT !.doRecover = b] \in HostRec
           /\ [c EXCEPT !.timer = b] \in HostRec
           /\ [c EXCEPT !.wtimer = b] \in HostRec
           /\ [c EXCEPT !.rem = b] \in HostRec
           /\ [c EXCEPT !.closeNotif = b] \in HostRec
           /\ [c EXCEPT !.sem = 0] \in HostRec
           /\ [c EXCEPT !.sem = @ + 1] \in HostRec
           /\ [c EXCEPT !.reqsMade = @ + 1] \in HostRec
           /\ [c EXCEPT !.reg = {}] \in HostRec
           /\ [c EXCEPT !.out = 0] \in HostRec
           /\ \A n \in Nets \cup {NoNet} : [c EXCEPT !.lock = n] \in HostRec
           /\ \A s \in TcpStates : [c EXCEPT !.tcp = s] \in HostRec
<1>1. c.sem + 1 \in Nat /\ c.reqsMade + 1 \in Nat
  BY HostFields
<1>2. /\ [c EXCEPT !.doRecover = b] \in HostRec
      /\ [c EXCEPT !.timer = b] \in HostRec
  BY DEF HostRec
<1>3. /\ [c EXCEPT !.rem = b] \in HostRec
      /\ [c EXCEPT !.closeNotif = b] \in HostRec
  BY DEF HostRec
<1>7. [c EXCEPT !.wtimer = b] \in HostRec
  BY DEF HostRec
<1>4. /\ [c EXCEPT !.sem = 0] \in HostRec
      /\ [c EXCEPT !.sem = @ + 1] \in HostRec
      /\ [c EXCEPT !.reqsMade = @ + 1] \in HostRec
  BY <1>1 DEF HostRec
<1>5. /\ [c EXCEPT !.reg = {}] \in HostRec
      /\ [c EXCEPT !.out = 0] \in HostRec
  BY DEF HostRec
<1>6. /\ \A n \in Nets \cup {NoNet} : [c EXCEPT !.lock = n] \in HostRec
      /\ \A s \in TcpStates : [c EXCEPT !.tcp = s] \in HostRec
  BY DEF HostRec
<1> QED BY <1>2, <1>3, <1>4, <1>5, <1>6, <1>7

\* Registration keeps a Host object a Host object.
LEMMA RegHostType ==
    ASSUME NEW c \in HostRec, NEW r
    PROVE  /\ \A t \in RegTypes : RegHost(c, r, t) \in HostRec
           /\ \A types : UnregHost(c, r, types) \in HostRec
<1>1. c.reg \subseteq RegTypes
  BY HostFields
<1> QED BY <1>1 DEF HostRec, RegHost, UnregHost

\* HTHost_addNet keeps a Host object a Host object, in all three branches.
LEMMA AddNetHostType ==
    ASSUME NEW c \in HostRec, NEW n \in Nets
    PROVE  AddNetHost(c, n) \in HostRec
<1>1. /\ Append(c.pipeline, n) \in Seq(Nets) /\ Append(c.pending, n) \in Seq(Nets)
      /\ <<n>> \o c.pending \in Seq(Nets) /\ c.reqsMade + 1 \in Nat
      /\ c.doit \in Nets \cup {NoNet}
  BY HostFields
<1>2. [c EXCEPT !.pipeline = Append(@, n), !.reqsMade = @ + 1,
                !.doit = IF @ = n THEN NoNet ELSE @, !.timer = FALSE] \in HostRec
  <2>1. (IF c.doit = n THEN NoNet ELSE c.doit) \in Nets \cup {NoNet}
    BY <1>1
  <2> QED BY <1>1, <2>1, ZenonT(60) DEF HostRec
<1>3. [c EXCEPT !.pending = <<n>> \o @] \in HostRec
  BY <1>1, ZenonT(60) DEF HostRec
<1>4. [c EXCEPT !.pending = Append(@, n)] \in HostRec
  BY <1>1, ZenonT(60) DEF HostRec
<1> QED BY <1>2, <1>3, <1>4, Zenon DEF AddNetHost

\* HTChannel_delete only lowers a semaphore that is above zero.
LEMMA LeftChannelType ==
    ASSUME NEW c \in HostRec
    PROVE  LeftChannel(c) \in HostRec
<1>1. c.sem \in Nat
  BY HostFields
<1>2. [c EXCEPT !.fd = NoFd, !.buf = FALSE, !.out = 0, !.wtimer = FALSE] \in HostRec
  BY ZenonT(60) DEF HostRec
<1>3. CASE c.sem # 0
  <2>1. c.sem - 1 \in Nat
    BY <1>1, <1>3
  <2>2. [c EXCEPT !.sem = @ - 1] \in HostRec
    BY <2>1, ZenonT(60) DEF HostRec
  <2> QED BY <1>3, <2>2, Zenon DEF LeftChannel, ChannelFreed
<1> QED BY <1>2, <1>3, Zenon DEF LeftChannel, ChannelFreed

\* HTHost_clearChannel leaves a Host object.
LEMMA ClearedHostType ==
    ASSUME NEW c \in HostRec
    PROVE  ClearedHost(c) \in HostRec
<1> DEFINE a == [c EXCEPT !.fd = NoFd, !.sem = 0, !.buf = FALSE, !.out = 0,
                          !.wtimer = FALSE, !.reg = {}, !.tcp = "BEGIN"]
           b == [a EXCEPT !.reqsMade = 0, !.persistent = FALSE, !.closeNotif = FALSE,
                          !.broken = FALSE, !.mode = "SINGLE", !.recovered = 0]
<1>1. "BEGIN" \in TcpStates /\ "SINGLE" \in Modes
  BY DEF TcpStates, Modes
<1>2. a \in HostRec
  BY <1>1, ZenonT(60) DEF HostRec
<1>3. ClearedHost(c) = b
  BY SMTT(20) DEF ClearedHost
<1> HIDE DEF a
<1>4. b \in HostRec
  BY <1>1, <1>2, ZenonT(60) DEF HostRec
<1> QED BY <1>3, <1>4

\* HTHost_recoverPipe leaves a Host object: the pipeline in front of the
\* pending queue is again a queue, and the lock is a net of it or NULL.
LEMMA RecoveredHostType ==
    ASSUME NEW c \in HostRec
    PROVE  RecoveredHost(c) \in HostRec
<1>1. /\ c.recovered + 1 \in Nat /\ c.pipeline \o c.pending \in Seq(Nets)
      /\ First(c.pipeline) \in Nets \cup {NoNet} /\ <<>> \in Seq(Nets)
  BY HostFields, FirstLastType
<1> QED BY <1>1 DEF HostRec, RecoveredHost, Modes

\* HTHost_deleteNet leaves a Host object.
LEMMA WithoutNetType ==
    ASSUME NEW c \in HostRec, NEW n
    PROVE  WithoutNet(c, n) \in HostRec
<1>1. RemoveAllOf(c.pipeline, n) \in Seq(Nets) /\ RemoveAllOf(c.pending, n) \in Seq(Nets)
  BY HostFields, RemoveAllOfType
<1>2. First(RemoveAllOf(c.pending, n)) \in Nets \cup {NoNet}
  BY <1>1, FirstLastType
<1> QED BY <1>1, <1>2 DEF HostRec, WithoutNet

\* Taking the lock in HTHost_connect leaves a Host object.
LEMMA LockedType ==
    ASSUME NEW c \in HostRec, NEW n \in Nets
    PROVE  Locked(c, n) \in HostRec
<1>1. First(c.pending) \in Nets \cup {NoNet}
  BY HostFields, FirstLastType
<1> QED BY <1>1, HostAssignments, Zenon DEF Locked

\* HTNet_setPersistent leaves a Host object.
LEMMA HeadersType ==
    ASSUME NEW c \in HostRec, NEW kind \in ServerKinds
    PROVE  HostWithHeaders(c, kind) \in HostRec
<1>1. ASSUME NEW mode \in Modes
      PROVE  MakePersistent(c, mode) \in HostRec
  <2>1. [c EXCEPT !.mode = mode] \in HostRec
    BY DEF HostRec
  <2>2. \A d \in HostRec, b \in BOOLEAN : [d EXCEPT !.persistent = b] \in HostRec
    BY DEF HostRec
  <2>3. \A d \in HostRec : (d.persistent \/ AvailablePersistentSockets) \in BOOLEAN
    OBVIOUS
  <2>4. CASE mode = "PIPELINE" /\ c.recovered > MaxRecover
    BY <2>2, <2>3, <2>4, Zenon DEF MakePersistent
  <2>5. CASE ~(mode = "PIPELINE" /\ c.recovered > MaxRecover)
    BY <2>1, <2>2, <2>3, <2>5, Zenon DEF MakePersistent
  <2> QED BY <2>4, <2>5
<1> QED BY <1>1 DEF HostWithHeaders, ServerKinds, Modes

\* Assignments to fields of a Net.
LEMMA NetAssignments ==
    ASSUME NEW r \in NetRec
    PROVE  /\ [r EXCEPT !.sent = TRUE] \in NetRec
           /\ [r EXCEPT !.rs = FALSE] \in NetRec
           /\ [r EXCEPT !.reg = {}, !.st = "BEGIN"] \in NetRec
<1>1. [r EXCEPT !.sent = TRUE] \in NetRec /\ [r EXCEPT !.rs = FALSE] \in NetRec
  BY DEF NetRec
<1>2. [r EXCEPT !.reg = {}, !.st = "BEGIN"] \in NetRec
  BY ZenonT(60) DEF NetRec, HttpStates
<1> QED BY <1>1, <1>2

\* A host or net that is not one of the objects has no place in the functions.
LEMMA ObjectUpdates ==
    ASSUME TypeOK
    PROVE  /\ \A h \in Hosts : host[h] \in HostRec
           /\ \A n \in Nets : net[n] \in NetRec
           /\ \A h, c : (h \in Hosts => c \in HostRec)
                 => [host EXCEPT ![h] = c] \in [Hosts -> HostRec]
           /\ \A n, r : (n \in Nets => r \in NetRec)
                 => [net EXCEPT ![n] = r] \in [Nets -> NetRec]
<1>1. host \in [Hosts -> HostRec] /\ net \in [Nets -> NetRec]
  BY DEF TypeOK
<1> QED BY <1>1

\* HTChannel_delete keeps the counters natural: decreasing Active stops at 0.
LEMMA ChannelDeleteType ==
    ASSUME TypeOK, NEW c \in HostRec, ChannelDelete(c)
    PROVE  /\ openFd' \subseteq Fds /\ active' \in Nat
           /\ wire' \in [Fds -> Seq(Nets)] /\ net' \in [Nets -> NetRec]
<1>1. openFd \subseteq Fds /\ active \in Nat /\ wire \in [Fds -> Seq(Nets)]
  BY DEF TypeOK
<1>2. net \in [Nets -> NetRec]
  BY DEF TypeOK
<1>3. openFd' \subseteq Fds
  BY <1>1 DEF ChannelDelete
<1>4. active' \in Nat
  BY <1>1 DEF ChannelDelete, Max0
<1>5. wire' \in [Fds -> Seq(Nets)]
  <2>1. <<>> \in Seq(Nets)
    OBVIOUS
  <2> QED BY <1>1, <2>1 DEF ChannelDelete
<1>6. net' \in [Nets -> NetRec]
  <2>1. c.pipeline # <<>> => First(c.pipeline) \in Nets
    BY HostFields, FirstLastType
  <2>2. CASE c.pipeline # <<>>
    <3> DEFINE r == [net[First(c.pipeline)] EXCEPT !.rs = FALSE]
    <3>1. r \in NetRec
      BY <1>2, <2>1, <2>2, NetAssignments
    <3>2. net' = [net EXCEPT ![First(c.pipeline)] = r]
      BY <2>2 DEF ChannelDelete
    <3> QED BY <3>1, <3>2, ObjectUpdates
  <2>3. CASE c.pipeline = <<>>
    BY <1>2, <2>3 DEF ChannelDelete
  <2> QED BY <2>2, <2>3
<1> QED BY <1>3, <1>4, <1>5, <1>6

(***************************************************************************)
(* The steps of HTHost.                                                    *)
(***************************************************************************)
\* HTHost_clearChannel keeps every variable well typed.
LEMMA ClearChannelType ==
    ASSUME TypeOK, ClearChannel
    PROVE  TypeOK'
<1> DEFINE h == Top.host
<1>1. h \in Hosts /\ ~Idle
  BY DEF ClearChannel, AtHost, At
<1>2. CASE host[h].fd = NoFd
  BY <1>1, <1>2, StackType DEF ClearChannel, TypeOK
<1>3. CASE host[h].fd # NoFd
  <2>1. ChannelDelete(host[h]) /\ host' = [host EXCEPT ![h] = ClearedHost(host[h])]
    BY <1>3 DEF ClearChannel
  <2>2. /\ openFd' \subseteq Fds /\ active' \in Nat
        /\ wire' \in [Fds -> Seq(Nets)] /\ net' \in [Nets -> NetRec]
    BY <1>1, <2>1, ObjectUpdates, ChannelDeleteType
  <2>3. host' \in [Hosts -> HostRec]
    BY <1>1, <2>1, ObjectUpdates, ClearedHostType
  <2>4. ev' \subseteq Event
    BY <1>3, EventsType DEF ClearChannel
  <2>5. persistent' \in Nat
    BY <1>3 DEF ClearChannel, TypeOK, Max0
  <2>6. HostFn("launchPending", h) \in Frame
    BY <1>1, FrameType DEF FrameNames, EventTypes
  <2>7. stack' \in Seq(Frame)
    BY <1>1, <1>3, <2>6, StackType DEF ClearChannel
  <2>8. UNCHANGED <<pendHost, ret>>
    BY DEF ClearChannel
  <2> QED BY <2>2, <2>3, <2>4, <2>5, <2>7, <2>8 DEF TypeOK
<1> QED BY <1>2, <1>3

\* HTHost_recoverPipe keeps every variable well typed.
LEMMA RecoverPipeType ==
    ASSUME TypeOK, RecoverPipe
    PROVE  TypeOK'
<1> DEFINE h == Top.host
           c == host[h]
           ends == c.recovered > MaxRecover \/ c.pipeline = <<>>
<1>1. h \in Hosts /\ ~Idle
  BY DEF RecoverPipe, AtHost, At
<1>2. CASE ends
  <2>1. Return /\ UNCHANGED <<host, net, ev, pendHost, active, persistent, openFd, wire>>
    BY <1>2 DEF RecoverPipe
  <2>2. ret' \in Status
    BY <1>2 DEF RecoverPipe, Status
  <2> QED BY <1>1, <2>1, <2>2, StackType DEF TypeOK
<1>3. CASE ~ends
  <2>1. /\ ev' = EvDel(c.fd, {"READ", "WRITE"})
        /\ net' = ResetNets({n \in Nets : In(n, c.pipeline)})
        /\ host' = [host EXCEPT ![h] = RecoveredHost(c)]
        /\ Call(<<HostFn("clearChannel", h), HostFn("recovered", h)>>)
        /\ UNCHANGED <<ret, pendHost, active, persistent, openFd, wire>>
    BY <1>3 DEF RecoverPipe
  <2>2. ev' \subseteq Event
    BY <2>1, EventsType
  <2>3. net' \in [Nets -> NetRec]
    <3>1. \A n \in Nets : [net[n] EXCEPT !.reg = {}, !.st = "BEGIN"] \in NetRec
      BY ObjectUpdates, NetAssignments
    <3>2. \A S : ResetNets(S) \in [Nets -> NetRec]
      BY <3>1, ObjectUpdates DEF ResetNets
    <3> QED BY <2>1, <3>2
  <2>4. host' \in [Hosts -> HostRec]
    BY <1>1, <2>1, ObjectUpdates, RecoveredHostType
  <2>5. HostFn("clearChannel", h) \in Frame /\ HostFn("recovered", h) \in Frame
    BY <1>1, FrameType DEF FrameNames, EventTypes
  <2>6. stack' \in Seq(Frame)
    BY <1>1, <2>1, <2>5, StackType
  <2> QED BY <2>1, <2>2, <2>3, <2>4, <2>6 DEF TypeOK
<1> QED BY <1>2, <1>3

\* So does its return.
LEMMA RecoveredType ==
    ASSUME TypeOK, Recovered
    PROVE  TypeOK'
<1> DEFINE h == Top.host
<1>1. h \in Hosts /\ ~Idle
  BY DEF Recovered, AtHost, At
<1>2. [host[h] EXCEPT !.doRecover = FALSE] \in HostRec
  BY <1>1, ObjectUpdates, HostAssignments
<1>3. host' \in [Hosts -> HostRec]
  BY <1>1, <1>2, ObjectUpdates DEF Recovered
<1>4. ret' \in Status /\ stack' \in Seq(Frame)
  BY <1>1, StackType DEF Recovered, Status
<1> QED BY <1>3, <1>4 DEF Recovered, TypeOK

\* HTHost_free keeps every variable well typed: it has four ways to leave the
\* channel, and three of them lower its semaphore.
LEMMA HostFreeType ==
    ASSUME TypeOK, HostFree
    PROVE  TypeOK'
<1> DEFINE h == Top.host
           c == [host[h] EXCEPT !.wtimer = @ /\ Top.type = "NONE"]
           idle == Len(c.pipeline) <= 1 /\ c.pending = <<>>
<1>1. h \in Hosts /\ ~Idle
  BY DEF HostFree, AtHost, At
<1>2. c \in HostRec /\ LeftChannel(c) \in HostRec
  <2>1. host[h] \in HostRec
    BY <1>1, ObjectUpdates
  <2>2. \A b \in BOOLEAN : [host[h] EXCEPT !.wtimer = b] \in HostRec
    BY <2>1, HostAssignments
  <2>3. (host[h].wtimer /\ Top.type = "NONE") \in BOOLEAN
    OBVIOUS
  <2>4. c \in HostRec
    BY <2>2, <2>3, Zenon
  <2> QED BY <2>4, LeftChannelType
<1>3. \A d \in HostRec : ChannelDelete(d) =>
          /\ openFd' \subseteq Fds /\ active' \in Nat
          /\ wire' \in [Fds -> Seq(Nets)] /\ net' \in [Nets -> NetRec]
  BY ChannelDeleteType
<1>4. UNCHANGED <<pendHost, persistent, ev, ret>>
  BY DEF HostFree
<1>5. CASE c.fd = NoFd
  BY <1>1, <1>4, <1>5, StackType DEF HostFree, TypeOK
<1>6. CASE c.fd # NoFd /\ KeepsChannel(c)
  <2> DEFINE d == [LeftChannel(c) EXCEPT !.timer = c.timer \/ idle]
  <2>1. /\ \A b \in BOOLEAN : [LeftChannel(c) EXCEPT !.timer = b] \in HostRec
        /\ (c.timer \/ idle) \in BOOLEAN
    BY <1>2, HostAssignments
  <2>2. d \in HostRec
    BY <2>1, Zenon
  <2>3. host' = [host EXCEPT ![h] = d] /\ ChannelDelete(c) /\ Return
    <3> HIDE DEF d, idle
    <3>1. ~MustRecover(c)
      BY <1>6 DEF KeepsChannel, MustRecover
    <3> QED BY <1>6, <3>1, Zenon DEF HostFree, d, idle
  <2>4. host' \in [Hosts -> HostRec]
    BY <2>2, <2>3, ObjectUpdates
  <2> QED BY <1>1, <1>2, <1>3, <1>4, <2>3, <2>4, StackType DEF TypeOK
<1>7. CASE c.fd # NoFd /\ ~KeepsChannel(c) /\ MustRecover(c)
  <2> DEFINE k == c.reqsMade - Len(c.pipeline)
             d == [LeftChannel(c) EXCEPT !.reqsPerConn = k, !.doRecover = TRUE]
  <2>1. k \in Int
    <3>1. c.reqsMade \in Nat /\ c.pipeline \in Seq(Nets)
      BY <1>2, HostFields
    <3> HIDE DEF c
    <3> QED BY <3>1
  <2>2. d \in HostRec
    <3> HIDE DEF k, c
    <3> QED BY <1>2, <2>1 DEF HostRec
  <2>3. host' = [host EXCEPT ![h] = d] /\ ChannelDelete(c) /\ Return
    BY <1>7 DEF HostFree
  <2>4. host' \in [Hosts -> HostRec]
    BY <2>2, <2>3, ObjectUpdates
  <2> QED BY <1>1, <1>2, <1>3, <1>4, <2>3, <2>4, StackType DEF TypeOK
<1>8. CASE c.fd # NoFd /\ ~KeepsChannel(c) /\ ~MustRecover(c)
  <2>1. /\ host' = [host EXCEPT ![h] = [c EXCEPT !.sem = 0]]
        /\ Call(<<HostFn("clearChannel", h)>>)
        /\ UNCHANGED <<net, active, openFd, wire>>
    BY <1>8 DEF HostFree
  <2>2. [c EXCEPT !.sem = 0] \in HostRec
    BY <1>2, HostAssignments
  <2>3. host' \in [Hosts -> HostRec]
    BY <2>1, <2>2, ObjectUpdates
  <2>4. HostFn("clearChannel", h) \in Frame
    BY <1>1, FrameType DEF FrameNames, EventTypes
  <2> QED BY <1>1, <1>4, <2>1, <2>3, <2>4, StackType DEF TypeOK
<1> QED BY <1>5, <1>6, <1>7, <1>8

\* HTHost_deleteNet keeps every variable well typed.
LEMMA DeleteNetType ==
    ASSUME TypeOK, DeleteNet
    PROVE  TypeOK'
<1> DEFINE n == Top.net
           h == net[n].host
<1>1. n \in Nets /\ ~Idle /\ h \in Hosts \cup {NoHost}
  BY ObjectUpdates DEF DeleteNet, AtNet, At, NetRec
<1>2. host' = [host EXCEPT ![h] = WithoutNet(host[h], n)]
  BY DEF DeleteNet
<1>3. host' \in [Hosts -> HostRec]
  BY <1>2, ObjectUpdates, WithoutNetType
<1>4. HostFn("recoverPipe", h) \in Frame /\ NetFn("unregister_net", n) \in Frame
  BY <1>1, FrameType DEF FrameNames, EventTypes
<1>5. stack' \in Seq(Frame)
  BY <1>1, <1>4, StackType DEF DeleteNet
<1> QED BY <1>3, <1>5 DEF DeleteNet, TypeOK

\* HTHost_launchPending keeps every variable well typed: it pops a net only from
\* a queue that has one, on its own host or on another one.
LEMMA LaunchPendingType ==
    ASSUME TypeOK, LaunchPending
    PROVE  TypeOK'
<1> DEFINE h == Top.host
           m == First(host[h].pending)
           p == Head(pendHost)
           n == First(host[p].pending)
<1>1. h \in Hosts /\ ~Idle /\ host[h] \in HostRec
  BY ObjectUpdates DEF LaunchPending, AtHost, At
<1>2. UNCHANGED <<net, active, persistent, openFd, ev, wire, ret>>
  BY DEF LaunchPending
<1>3. \A k \in Nets : NetEv("HTTPEvent", k, "WRITE") \in Frame
  BY FrameType DEF FrameNames, EventTypes
<1>4. \A c \in HostRec : First(c.pending) # NoNet =>
         /\ First(c.pending) \in Nets /\ Tail(c.pending) \in Seq(Nets)
         /\ Append(c.pipeline, First(c.pending)) \in Seq(Nets)
  BY HostFields, FirstLastType
<1>5. CASE LaunchOwn(h)
  <2>1. m # NoNet /\ m \in Nets /\ Tail(host[h].pending) \in Seq(Nets)
    BY <1>1, <1>4, <1>5 DEF LaunchOwn
  <2>2. Popped(host[h]) \in HostRec
    BY <1>1, <2>1 DEF HostRec, Popped
  <2>3. host' \in [Hosts -> HostRec]
    BY <1>5, <2>2, ObjectUpdates DEF LaunchOwn
  <2>4. stack' \in Seq(Frame) /\ UNCHANGED pendHost
    BY <1>1, <1>3, <1>5, <2>1, StackType DEF LaunchOwn
  <2> QED BY <1>2, <2>3, <2>4 DEF TypeOK
<1>6. CASE LaunchOther(h)
  <2>1. pendHost # <<>> /\ pendHost' = Tail(pendHost)
    BY <1>6 DEF LaunchOther
  <2>2. p \in Hosts /\ pendHost' \in Seq(Hosts) /\ host[p] \in HostRec
    BY <2>1, ObjectUpdates DEF TypeOK
  <2>3. CASE n = NoNet
    BY <1>1, <1>2, <1>6, <2>2, <2>3, StackType DEF LaunchOther, TypeOK
  <2>4. CASE n # NoNet
    <3> DEFINE popped == [host EXCEPT ![p] = PoppedToPipe(@)]
    <3>1. /\ n \in Nets /\ Tail(host[p].pending) \in Seq(Nets)
          /\ Append(host[p].pipeline, n) \in Seq(Nets)
      BY <1>4, <2>2, <2>4
    <3>2. PoppedToPipe(host[p]) \in HostRec
      BY <2>2, <3>1 DEF HostRec, Popped, PoppedToPipe
    <3>3. popped \in [Hosts -> HostRec]
      BY <3>2, ObjectUpdates
    <3>4. /\ host' = [popped EXCEPT ![h].reqsMade = @ + 1]
          /\ Call(<<NetEv("HTTPEvent", n, "WRITE")>>)
      BY <1>6, <2>4 DEF LaunchOther
    <3> HIDE DEF popped
    <3>5. [popped[h] EXCEPT !.reqsMade = @ + 1] \in HostRec
      BY <1>1, <3>3, HostAssignments
    <3>6. host' \in [Hosts -> HostRec]
      BY <3>3, <3>4, <3>5
    <3>7. stack' \in Seq(Frame)
      BY <1>1, <1>3, <3>1, <3>4, StackType
    <3> QED BY <1>2, <2>2, <3>6, <3>7 DEF TypeOK
  <2> QED BY <2>3, <2>4
<1>7. CASE Return /\ UNCHANGED <<host, pendHost>>
  BY <1>1, <1>2, <1>7, StackType DEF TypeOK
<1> QED BY <1>5, <1>6, <1>7 DEF LaunchPending

\* killPipeline runs two loops with counts that are natural numbers.
LEMMA KillFramesType ==
    ASSUME TypeOK, NEW h \in Hosts, NEW t \in EventTypes
    PROVE  KillFrames(h, t) \in Seq(Frame)
<1> DEFINE loop(f, k) == [Fn(f, NoNet, h, t) EXCEPT !.cnt = k]
           a == loop("killPending", Len(host[h].pending))
           b == loop("killPiped", Len(host[h].pipeline))
           e == IF host[h].pipeline = <<>> THEN <<>> ELSE <<HostFn("killClose", h)>>
<1>1. Len(host[h].pending) \in Nat /\ Len(host[h].pipeline) \in Nat
  BY ObjectUpdates, HostFields
<1>2. Fn("killPending", NoNet, h, t) \in Frame /\ Fn("killPiped", NoNet, h, t) \in Frame
  BY FrameType DEF FrameNames
<1>3. \A f \in Frame, k \in Nat : [f EXCEPT !.cnt = k] \in Frame
  BY DEF Frame
<1>4. a \in Frame /\ b \in Frame
  BY <1>1, <1>2, <1>3
<1>5. HostFn("killClose", h) \in Frame
  BY FrameType DEF FrameNames, EventTypes
<1> HIDE DEF a, b
<1>6. <<a, b>> \in Seq(Frame) /\ e \in Seq(Frame)
  BY <1>4, <1>5
<1> HIDE DEF e
<1>7. <<a, b>> \o e \in Seq(Frame)
  BY <1>6, ConcatProperties
<1> QED BY <1>7 DEF KillFrames, a, b, e

\* A call of any sequence of frames leaves a stack.
LEMMA CallType ==
    ASSUME TypeOK, ~Idle, NEW s \in Seq(Frame), Call(s)
    PROVE  stack' \in Seq(Frame)
<1>1. Tail(stack) \in Seq(Frame)
  BY DEF TypeOK, Idle
<1> QED BY <1>1, ConcatProperties DEF Call

\* The frame of a loop or a callback that goes on with other arguments.
LEMMA SameFrame ==
    ASSUME NEW f \in Frame
    PROVE  /\ \A fn \in FrameNames : [f EXCEPT !.fn = fn] \in Frame
           /\ f.cnt > 0 => [f EXCEPT !.cnt = @ - 1] \in Frame
           /\ \A n \in Nets \cup {NoNet} :
                 /\ [f EXCEPT !.net = n] \in Frame
                 /\ f.cnt > 0 => [f EXCEPT !.cnt = @ - 1, !.net = n] \in Frame
           /\ \A t \in EventTypes : [f EXCEPT !.type = t] \in Frame
           /\ \A fd \in Fds \cup {NoFd}, t \in EventTypes :
                 [f EXCEPT !.fd = fd, !.type = t] \in Frame
<1>1. f.cnt > 0 => f.cnt - 1 \in Nat
  BY DEF Frame
<1> QED BY <1>1 DEF Frame

\* A turn of killPipeline's pending loop keeps every variable well typed: the
\* queue may have become shorter than the count, and then nothing is removed.
LEMMA KillPendingType ==
    ASSUME TypeOK, KillPending
    PROVE  TypeOK'
<1> DEFINE h == Top.host
           l == IF Top.net # NoNet /\ host[h].lock = Top.net THEN NoNet
                                                            ELSE host[h].lock
           c == [host[h] EXCEPT !.lock = l]
           n == Last(c.pending)
<1>1. h \in Hosts /\ ~Idle /\ host[h] \in HostRec
  BY ObjectUpdates DEF KillPending, AtHost, At
<1>2. c \in HostRec /\ c.pending \in Seq(Nets)
  <2>1. l \in Nets \cup {NoNet}
    BY <1>1, HostFields
  <2> HIDE DEF l
  <2> QED BY <1>1, <2>1, HostAssignments, HostFields
<1>3. UNCHANGED <<pendHost, active, persistent, openFd, ev, wire, ret>>
  BY DEF KillPending
<1>4. Top \in Frame /\ Top.type \in EventTypes
  BY <1>1, TopType
<1>5. \/ Top.cnt = 0 /\ Return /\ host' = [host EXCEPT ![h] = c] /\ UNCHANGED net
      \/ /\ Top.cnt > 0 /\ n = NoNet
         /\ Call(<<[Top EXCEPT !.cnt = @ - 1, !.net = NoNet]>>)
         /\ host' = [host EXCEPT ![h] = c]
         /\ UNCHANGED net
      \/ /\ Top.cnt > 0 /\ n # NoNet
         /\ host' = [host EXCEPT ![h] = [c EXCEPT !.pending = AllButLast(c.pending)]]
         /\ net' = [net EXCEPT ![n].reg = {}]
         /\ Call(<<NetEv("HTTPEvent", n, Top.type),
                   [Top EXCEPT !.cnt = @ - 1, !.net = n]>>)
  BY Zenon DEF KillPending
<1> HIDE DEF c
<1>6. CASE Top.cnt = 0 /\ Return /\ host' = [host EXCEPT ![h] = c] /\ UNCHANGED net
  BY <1>1, <1>2, <1>3, <1>6, ObjectUpdates, StackType DEF TypeOK
<1>7. CASE /\ Top.cnt > 0 /\ n = NoNet
           /\ Call(<<[Top EXCEPT !.cnt = @ - 1, !.net = NoNet]>>)
           /\ host' = [host EXCEPT ![h] = c]
           /\ UNCHANGED net
  <2>1. [Top EXCEPT !.cnt = @ - 1, !.net = NoNet] \in Frame
    BY <1>4, <1>7, SameFrame
  <2>2. stack' \in Seq(Frame)
    BY <1>1, <1>7, <2>1, StackType
  <2> QED BY <1>1, <1>2, <1>3, <1>7, <2>2, ObjectUpdates DEF TypeOK
<1>8. CASE /\ Top.cnt > 0 /\ n # NoNet
           /\ host' = [host EXCEPT ![h] = [c EXCEPT !.pending = AllButLast(c.pending)]]
           /\ net' = [net EXCEPT ![n].reg = {}]
           /\ Call(<<NetEv("HTTPEvent", n, Top.type),
                     [Top EXCEPT !.cnt = @ - 1, !.net = n]>>)
  <2>1. n \in Nets /\ AllButLast(c.pending) \in Seq(Nets)
    BY <1>2, <1>8, FirstLastType
  <2>2. [c EXCEPT !.pending = AllButLast(c.pending)] \in HostRec
    BY <1>2, <2>1 DEF HostRec
  <2>3. [net[n] EXCEPT !.reg = {}] \in NetRec
    BY <2>1, ObjectUpdates DEF NetRec
  <2>4. host' \in [Hosts -> HostRec] /\ net' \in [Nets -> NetRec]
    BY <1>8, <2>2, <2>3, ObjectUpdates
  <2>5. /\ NetEv("HTTPEvent", n, Top.type) \in Frame
        /\ [Top EXCEPT !.cnt = @ - 1, !.net = n] \in Frame
    BY <1>4, <1>8, <2>1, FrameType, SameFrame DEF FrameNames
  <2>6. stack' \in Seq(Frame)
    BY <1>1, <1>8, <2>5, StackType
  <2> QED BY <1>3, <2>4, <2>6 DEF TypeOK
<1> QED BY <1>5, <1>6, <1>7, <1>8

\* A turn of killPipeline's pipeline loop keeps every variable well typed.
LEMMA KillPipedType ==
    ASSUME TypeOK, KillPiped
    PROVE  TypeOK'
<1> DEFINE n == First(host[Top.host].pipeline)
<1>1. Top.host \in Hosts /\ ~Idle /\ host[Top.host] \in HostRec
  BY ObjectUpdates DEF KillPiped, AtHost, At
<1>2. Top \in Frame /\ Top.type \in EventTypes /\ Top.cnt \in Nat
  BY <1>1, TopType
<1>3. UNCHANGED <<host, pendHost, active, persistent, openFd, ev, wire, ret>>
  BY DEF KillPiped
<1>4. CASE Top.cnt = 0
  BY <1>1, <1>3, <1>4, StackType DEF KillPiped, TypeOK
<1>5. CASE Top.cnt # 0 /\ n = NoNet
  <2>1. [Top EXCEPT !.cnt = @ - 1] \in Frame
    <3>1. Top.cnt > 0
      BY <1>2, <1>5
    <3> QED BY <1>2, <3>1, SameFrame
  <2>2. Call(<<[Top EXCEPT !.cnt = @ - 1]>>) /\ UNCHANGED net
    BY <1>5 DEF KillPiped
  <2> QED BY <1>1, <1>3, <2>1, <2>2, StackType DEF TypeOK
<1>6. CASE Top.cnt # 0 /\ n # NoNet
  <2>1. n \in Nets
    BY <1>1, <1>6, HostFields, FirstLastType
  <2>2. [net[n] EXCEPT !.reg = {}] \in NetRec
    BY <2>1, ObjectUpdates DEF NetRec
  <2>3. /\ net' = [net EXCEPT ![n].reg = {}]
        /\ Call(<<NetEv("HTTPEvent", n, Top.type), [Top EXCEPT !.cnt = @ - 1]>>)
    BY <1>6 DEF KillPiped
  <2>4. net' \in [Nets -> NetRec]
    BY <2>2, <2>3, ObjectUpdates
  <2>5. NetEv("HTTPEvent", n, Top.type) \in Frame /\ [Top EXCEPT !.cnt = @ - 1] \in Frame
    <3>1. Top.cnt > 0
      BY <1>2, <1>6
    <3> QED BY <1>2, <2>1, <3>1, FrameType, SameFrame DEF FrameNames
  <2> QED BY <1>1, <1>3, <2>3, <2>4, <2>5, StackType DEF TypeOK
<1> QED BY <1>4, <1>5, <1>6

\* The end of killPipeline keeps every variable well typed.
LEMMA KillCloseType ==
    ASSUME TypeOK, KillClose
    PROVE  TypeOK'
<1>1. Top.host \in Hosts /\ ~Idle
  BY DEF KillClose, AtHost, At
<1>2. [host[Top.host] EXCEPT !.sem = 0] \in HostRec
  BY <1>1, ObjectUpdates, HostAssignments
<1>3. host' \in [Hosts -> HostRec]
  BY <1>2, ObjectUpdates DEF KillClose
<1>4. HostFn("clearChannel", Top.host) \in Frame
  BY <1>1, FrameType DEF FrameNames, EventTypes
<1>5. stack' \in Seq(Frame)
  BY <1>1, <1>4, StackType DEF KillClose
<1> QED BY <1>3, <1>5 DEF KillClose, TypeOK

\* HostEvent keeps every variable well typed.
LEMMA HostEventType ==
    ASSUME TypeOK, HostEventRead \/ HostEventNext \/ HostEventWrite \/ HostEventTimeout
    PROVE  TypeOK'
<1> DEFINE h == Top.host
<1>1. h \in Hosts /\ ~Idle /\ host[h] \in HostRec
  BY ObjectUpdates DEF HostEventRead, HostEventNext, HostEventWrite,
                       HostEventTimeout, AtHost, At
<1>2. Top \in Frame /\ Top.type \in EventTypes
  BY <1>1, TopType
<1>3. UNCHANGED <<net, pendHost, active, persistent, openFd, ev, wire, ret>>
  BY DEF HostEventRead, HostEventNext, HostEventWrite, HostEventTimeout
<1>4. \A n \in Nets, t \in EventTypes : NetEv("HTTPEvent", n, t) \in Frame
  BY FrameType DEF FrameNames
<1>5. /\ [Top EXCEPT !.fn = "HostEventNext"] \in Frame
      /\ [Top EXCEPT !.fn = "HostEvent"] \in Frame
      /\ HostFn("clearChannel", h) \in Frame
  BY <1>1, <1>2, SameFrame, FrameType DEF FrameNames, EventTypes
<1>6. /\ First(host[h].pipeline) # NoNet => First(host[h].pipeline) \in Nets
      /\ Last(host[h].pipeline) # NoNet => Last(host[h].pipeline) \in Nets
  BY <1>1, HostFields, FirstLastType
<1>7. CASE HostEventRead
  <2>1. [host[h] EXCEPT !.rem = FALSE] \in HostRec
    BY <1>1, HostAssignments
  <2>2. host' \in [Hosts -> HostRec]
    BY <1>7, <2>1, ObjectUpdates DEF HostEventRead, TypeOK
  <2>3. stack' \in Seq(Frame)
    BY <1>1, <1>2, <1>4, <1>5, <1>6, <1>7, StackType DEF HostEventRead
  <2> QED BY <1>3, <2>2, <2>3 DEF TypeOK
<1>8. CASE HostEventNext
  <2>1. stack' \in Seq(Frame)
    BY <1>1, <1>5, <1>8, StackType DEF HostEventNext
  <2> QED BY <1>3, <1>8, <2>1 DEF HostEventNext, TypeOK
<1>9. CASE HostEventWrite
  <2>1. stack' \in Seq(Frame)
    BY <1>1, <1>4, <1>6, <1>9, StackType DEF HostEventWrite, EventTypes
  <2> QED BY <1>3, <1>9, <2>1 DEF HostEventWrite, TypeOK
<1>10. CASE HostEventTimeout
  <2>1. KillFrames(h, "TIMEOUT") \in Seq(Frame)
    BY <1>1, KillFramesType DEF EventTypes
  <2>2. stack' \in Seq(Frame)
    BY <1>1, <1>10, <2>1, CallType DEF HostEventTimeout
  <2> QED BY <1>3, <1>10, <2>2 DEF HostEventTimeout, TypeOK
<1> QED BY <1>7, <1>8, <1>9, <1>10

\* HTHost_connect keeps every variable well typed.
LEMMA HostConnectType ==
    ASSUME TypeOK, ConnectLookup \/ ConnectLock \/ Connected
    PROVE  TypeOK'
<1> DEFINE n == Top.net
<1>1. n \in Nets /\ ~Idle /\ net[n] \in NetRec
  BY ObjectUpdates DEF ConnectLookup, ConnectLock, Connected, AtNet, At
<1>2. net[n].to \in Hosts \cup {NoHost} /\ net[n].host \in Hosts \cup {NoHost}
  BY <1>1 DEF NetRec
<1>3. CASE ConnectLookup
  <2>1. HostFn("clearChannel", net[n].to) \in Frame /\ NetFn("HTHost_lock", n) \in Frame
    BY <1>1, <1>2, FrameType DEF FrameNames, EventTypes
  <2>2. stack' \in Seq(Frame)
    BY <1>1, <1>3, <2>1, StackType DEF ConnectLookup
  <2> QED BY <1>3, <2>2 DEF ConnectLookup, TypeOK
<1>4. CASE ConnectLock
  <2> DEFINE h == net[n].to
             c == IF net[n].host = NoHost THEN Locked(host[h], n) ELSE host[h]
             found == c.lock \in {NoNet, n}
  <2>1. h \in Hosts => c \in HostRec /\ AddNetHost(c, n) \in HostRec
    BY <1>1, ObjectUpdates, LockedType, AddNetHostType
  <2>2. net' \in [Nets -> NetRec]
    <3>1. [net[n] EXCEPT !.host = h] \in NetRec
      BY <1>1, <1>2 DEF NetRec
    <3> QED BY <1>4, <3>1, ObjectUpdates DEF ConnectLock
  <2>3. UNCHANGED <<active, persistent, openFd, ev, wire>>
    BY <1>4 DEF ConnectLock
  <2> HIDE DEF c
  <2>4. CASE found
    <3>1. /\ host' = [host EXCEPT ![h] = c]
          /\ Call(<<NetFn("HTDoConnect", n), NetFn("HTHost_connected", n)>>)
          /\ UNCHANGED <<pendHost, ret>>
      BY <1>4, <2>4 DEF ConnectLock, c
    <3>2. NetFn("HTDoConnect", n) \in Frame /\ NetFn("HTHost_connected", n) \in Frame
      BY <1>1, FrameType DEF FrameNames, EventTypes
    <3> QED BY <1>1, <2>1, <2>2, <2>3, <3>1, <3>2, ObjectUpdates, StackType DEF TypeOK
  <2>5. CASE ~found
    <3>1. /\ host' = [host EXCEPT ![h] = AddNetHost(c, n)]
          /\ pendHost' = AddNetPendHost(c, h)
          /\ ret' \in {"PENDING", "ERROR"}
          /\ Return
      BY <1>4, <2>5 DEF ConnectLock, c
    <3>2. pendHost' \in Seq(Hosts)
      <4>1. pendHost \in Seq(Hosts) /\ Append(pendHost, h) \in Seq(Hosts)
        <5>1. h \in Hosts
          BY <1>4 DEF ConnectLock
        <5> QED BY <5>1 DEF TypeOK
      <4> QED BY <4>1, <3>1, Zenon DEF AddNetPendHost
    <3> QED BY <1>1, <2>1, <2>2, <2>3, <3>1, <3>2, ObjectUpdates, StackType
            DEF TypeOK, Status
  <2> QED BY <2>4, <2>5
<1>5. CASE Connected
  <2> DEFINE h == net[n].host
  <2>1. h \in Hosts =>
          /\ [host[h] EXCEPT !.lock = n] \in HostRec
          /\ [host[h] EXCEPT !.lock = First(host[h].pending)] \in HostRec
    BY <1>1, ObjectUpdates, HostFields, HostAssignments, FirstLastType
  <2>2. host' \in [Hosts -> HostRec]
    BY <1>5, <2>1, ObjectUpdates DEF Connected, TypeOK
  <2>3. ret' \in Status
    BY <1>5 DEF Connected, TypeOK, Status
  <2>4. stack' \in Seq(Frame)
    BY <1>1, <1>5, StackType DEF Connected
  <2> QED BY <1>5, <2>2, <2>3, <2>4 DEF Connected, TypeOK
<1> QED BY <1>3, <1>4, <1>5

(***************************************************************************)
(* The steps of HTTCP.                                                     *)
(***************************************************************************)
\* What every case of HTDoConnect's switch starts from and may do.
LEMMA InTcpType ==
    ASSUME TypeOK, NEW s, InTcp(s)
    PROVE  /\ N \in Nets /\ H \in Hosts /\ ~Idle
           /\ net[N] \in NetRec /\ host[H] \in HostRec
           /\ \A r \in Status : Done(r) => ret' \in Status /\ stack' \in Seq(Frame)
           /\ Loop => ret' \in Status /\ stack' \in Seq(Frame)
           /\ \A t \in TcpStates : GoTo(t) => host' \in [Hosts -> HostRec]
<1>1. N \in Nets /\ H \in Hosts /\ ~Idle
  BY DEF InTcp, AtNet, At, N
<1>2. net[N] \in NetRec /\ host[H] \in HostRec
  BY <1>1, ObjectUpdates
<1>3. ret \in Status /\ stack \in Seq(Frame)
  BY DEF TypeOK
<1>4. \A t \in TcpStates : [host[H] EXCEPT !.tcp = t] \in HostRec
  BY <1>2, HostAssignments
<1>5. \A t \in TcpStates : GoTo(t) => host' \in [Hosts -> HostRec]
  BY <1>4, ObjectUpdates DEF GoTo
<1> QED BY <1>1, <1>2, <1>3, <1>5, StackType DEF Done, Loop

\* HTHost_addNet leaves a list of hosts in PendHost.
LEMMA AddNetPendHostType ==
    ASSUME TypeOK, NEW c, NEW h \in Hosts
    PROVE  AddNetPendHost(c, h) \in Seq(Hosts)
  BY DEF AddNetPendHost, TypeOK

\* Every case of HTDoConnect keeps every variable well typed: the descriptor
\* that socket() gives is one of the process, and the semaphore only grows.
LEMMA TcpStepsType ==
    ASSUME TypeOK, HTDoConnect
    PROVE  TypeOK'
<1>1. CASE TcpBegin
  <2>1. InTcp("BEGIN") /\ NoIO /\ UNCHANGED <<net, ev>>
    BY <1>1 DEF TcpBegin
  <2>2. [AddNetHost(host[H], N) EXCEPT !.tcp = "CHANNEL"] \in HostRec
    BY <2>1, InTcpType, AddNetHostType, HostAssignments DEF TcpStates
  <2>3. host' \in [Hosts -> HostRec]
    BY <1>1, <2>2, ObjectUpdates DEF TcpBegin
  <2>4. pendHost' \in Seq(Hosts)
    BY <1>1, <2>1, InTcpType, AddNetPendHostType DEF TcpBegin
  <2>5. ret' \in Status /\ stack' \in Seq(Frame)
    BY <1>1, <2>1, InTcpType DEF TcpBegin, Status
  <2> QED BY <2>1, <2>3, <2>4, <2>5 DEF NoIO, TypeOK
<1>2. CASE TcpChannel
  <2>1. InTcp("CHANNEL") /\ Loop /\ NoIO /\ UNCHANGED <<net, pendHost, ev>>
    BY <1>2 DEF TcpChannel
  <2>2. [host[H] EXCEPT !.sem = @ + 1, !.tcp = "CONNECTED"] \in HostRec
    <3>1. host[H].sem + 1 \in Nat
      BY <2>1, InTcpType, HostFields
    <3> QED BY <2>1, <3>1, InTcpType DEF HostRec, TcpStates
  <2>3. host' \in [Hosts -> HostRec]
    <3>1. CASE host[H].fd = NoFd
      BY <1>2, <2>1, <3>1, InTcpType DEF TcpChannel, TcpStates
    <3>2. CASE host[H].fd # NoFd
      <4>1. host' = [host EXCEPT ![H] = [host[H] EXCEPT !.sem = @ + 1,
                                                        !.tcp = "CONNECTED"]]
        BY <1>2, <2>1, <3>2, InTcpType DEF TcpChannel, TypeOK
      <4> QED BY <2>2, <4>1, ObjectUpdates
    <3> QED BY <3>1, <3>2
  <2> QED BY <2>1, <2>3, InTcpType DEF NoIO, TypeOK
<1>3. CASE TcpDns
  <2>1. InTcp("DNS") /\ Loop /\ NoIO /\ UNCHANGED <<net, pendHost, ev>>
    BY <1>3 DEF TcpDns
  <2>2. CASE GoTo("DNS_ERROR")
    BY <2>1, <2>2, InTcpType DEF NoIO, TypeOK, TcpStates
  <2>3. ASSUME NEW homes \in {1, 2},
               host' = [host EXCEPT
                 ![H].retry = IF @ = 0 /\ homes > 1 THEN homes ELSE @,
                 ![H].tcp = "NEED_SOCKET"]
        PROVE  TypeOK'
    <3> DEFINE k == IF host[H].retry = 0 /\ homes > 1 THEN homes ELSE host[H].retry
    <3>1. k \in Nat
      BY <2>1, InTcpType, HostFields
    <3>2. host' = [host EXCEPT ![H] = [host[H] EXCEPT !.retry = k,
                                                      !.tcp = "NEED_SOCKET"]]
      BY <2>1, <2>3, InTcpType DEF TypeOK
    <3> HIDE DEF k
    <3>3. [host[H] EXCEPT !.retry = k, !.tcp = "NEED_SOCKET"] \in HostRec
      BY <2>1, <3>1, InTcpType DEF HostRec, TcpStates
    <3>4. host' \in [Hosts -> HostRec]
      BY <3>2, <3>3, ObjectUpdates
    <3> QED BY <2>1, <3>4, InTcpType DEF NoIO, TypeOK
  <2> QED BY <1>3, <2>2, <2>3 DEF TcpDns
<1>4. CASE TcpNoSocket
  <2>1. InTcp("NEED_SOCKET") /\ Loop /\ NoIO /\ UNCHANGED <<net, pendHost, ev>>
    BY <1>4 DEF TcpNoSocket
  <2>2. host' \in [Hosts -> HostRec]
    BY <1>4, <2>1, InTcpType DEF TcpNoSocket, TcpStates
  <2> QED BY <2>1, <2>2, InTcpType DEF NoIO, TypeOK
<1>5. CASE TcpNeedSocket
  <2>1. /\ InTcp("NEED_SOCKET") /\ Loop /\ UNCHANGED <<net, pendHost, persistent, ev>>
        /\ active' = active + 1
    BY <1>5 DEF TcpNeedSocket
  <2>2. PICK fd \in FreeFd :
          /\ openFd' = openFd \cup {fd}
          /\ wire' = [wire EXCEPT ![fd] = <<>>]
          /\ host' = [host EXCEPT ![H] =
                [@ EXCEPT !.fd = fd, !.sem = 1, !.buf = FALSE, !.out = 0,
                          !.wtimer = FALSE, !.tcp = "NEED_CONNECT"]]
    BY <1>5 DEF TcpNeedSocket
  <2>3. fd \in Fds
    BY DEF FreeFd
  <2>4. [host[H] EXCEPT !.fd = fd, !.sem = 1, !.buf = FALSE, !.out = 0,
                        !.wtimer = FALSE, !.tcp = "NEED_CONNECT"] \in HostRec
    BY <2>1, <2>3, InTcpType DEF HostRec, TcpStates
  <2>5. host' \in [Hosts -> HostRec]
    BY <2>2, <2>4, ObjectUpdates
  <2>6. openFd' \subseteq Fds /\ active' \in Nat /\ wire' \in [Fds -> Seq(Nets)]
    BY <2>1, <2>2, <2>3 DEF TypeOK
  <2> QED BY <2>1, <2>5, <2>6, InTcpType DEF TypeOK
<1>6. CASE TcpConnected
  <2>1. InTcp("NEED_CONNECT") /\ Loop /\ NoIO /\ UNCHANGED <<net, pendHost, ev>>
    BY <1>6 DEF TcpConnected
  <2>2. host' \in [Hosts -> HostRec]
    BY <1>6, <2>1, InTcpType DEF TcpConnected, TcpStates
  <2> QED BY <2>1, <2>2, InTcpType DEF NoIO, TypeOK
<1>7. CASE TcpWouldBlock
  <2>1. /\ InTcp("NEED_CONNECT") /\ Done("WOULD_BLOCK") /\ NoIO /\ UNCHANGED pendHost
        /\ net' = [net EXCEPT ![N] = RegNet(@, "CONNECT")]
        /\ host' = [host EXCEPT ![H] = RegHost(@, net[N], "CONNECT")]
        /\ ev' = RegEv(H, net[N], "CONNECT")
    BY <1>7 DEF TcpWouldBlock
  <2>2. net' \in [Nets -> NetRec]
    BY <2>1, InTcpType, NetUpdates, ObjectUpdates DEF RegTypes
  <2>3. host' \in [Hosts -> HostRec]
    BY <2>1, InTcpType, RegHostType, ObjectUpdates DEF RegTypes
  <2>4. ev' \subseteq Event
    BY <2>1, EventsType
  <2>5. ret' \in Status /\ stack' \in Seq(Frame)
    BY <2>1, InTcpType DEF Status
  <2> QED BY <2>1, <2>2, <2>3, <2>4, <2>5 DEF NoIO, TypeOK
<1>8. CASE TcpUse
  <2> DEFINE c == UnregHost(host[H], net[N], {"CONNECT"})
  <2>1. /\ InTcp("CONNECTED") /\ Done("OK") /\ NoIO /\ UNCHANGED pendHost
        /\ net' = [net EXCEPT ![N] = UnregNet(@, {"CONNECT"})]
        /\ host' = [host EXCEPT ![H] = [c EXCEPT !.retry = 0, !.tcp = "IN_USE"]]
        /\ ev' = UnregEv(H, N, {"CONNECT"})
    BY <1>8 DEF TcpUse
  <2>2. net' \in [Nets -> NetRec]
    BY <2>1, InTcpType, NetUpdates, ObjectUpdates
  <2>3. c \in HostRec
    BY <2>1, InTcpType, RegHostType
  <2>4. [c EXCEPT !.retry = 0, !.tcp = "IN_USE"] \in HostRec
    <3> HIDE DEF c
    <3> QED BY <2>3 DEF HostRec, TcpStates
  <2>5. host' \in [Hosts -> HostRec] /\ ev' \subseteq Event
    BY <2>1, <2>4, ObjectUpdates, EventsType
  <2>6. ret' \in Status /\ stack' \in Seq(Frame)
    BY <2>1, InTcpType DEF Status
  <2> QED BY <2>1, <2>2, <2>5, <2>6 DEF NoIO, TypeOK
<1>9. CASE TcpInUse
  <2> DEFINE c == AddNetHost(host[H], N)
             ok == AddsToPipe(host[H], N)
             d == IF ok /\ c.fd # NoFd THEN [c EXCEPT !.sem = c.sem + 1] ELSE c
  <2>1. /\ InTcp("IN_USE") /\ NoIO /\ UNCHANGED <<net, ev>>
        /\ host' = [host EXCEPT ![H] = d]
        /\ Done(IF ok THEN "OK" ELSE "PENDING")
        /\ pendHost' = AddNetPendHost(host[H], H)
    BY <1>9 DEF TcpInUse
  <2>2. d \in HostRec
    <3>1. c \in HostRec
      BY <2>1, InTcpType, AddNetHostType
    <3> QED BY <3>1, HostAssignments
  <2>3. host' \in [Hosts -> HostRec]
    BY <2>1, <2>2, ObjectUpdates
  <2>4. pendHost' \in Seq(Hosts)
    BY <2>1, InTcpType, AddNetPendHostType
  <2>5. ret' \in Status /\ stack' \in Seq(Frame)
    BY <2>1, InTcpType DEF Status
  <2> QED BY <2>1, <2>3, <2>4, <2>5 DEF NoIO, TypeOK
<1>10. CASE TcpDnsError
  <2>1. /\ InTcp("DNS_ERROR") /\ Done("NO_HOST") /\ NoIO
        /\ UNCHANGED <<net, pendHost, ev>>
        /\ host' = [host EXCEPT ![H].retry = 0, ![H].tcp = "BEGIN"]
    BY <1>10 DEF TcpDnsError
  <2>2. host' = [host EXCEPT ![H] = [host[H] EXCEPT !.retry = 0, !.tcp = "BEGIN"]]
    BY <2>1, InTcpType DEF TypeOK
  <2>3. [host[H] EXCEPT !.retry = 0, !.tcp = "BEGIN"] \in HostRec
    BY <2>1, InTcpType DEF HostRec, TcpStates
  <2>4. host' \in [Hosts -> HostRec]
    BY <2>2, <2>3, ObjectUpdates
  <2>5. ret' \in Status /\ stack' \in Seq(Frame)
    BY <2>1, InTcpType DEF Status
  <2> QED BY <2>1, <2>4, <2>5 DEF NoIO, TypeOK
<1>11. CASE TcpError
  <2> DEFINE retry == Max0(host[H].retry - 1)
  <2>1. /\ InTcp("ERROR") /\ openFd' = openFd \ {host[H].fd}
        /\ UNCHANGED <<net, pendHost, active, persistent, ev, wire>>
    BY <1>11 DEF TcpError
  <2>2. retry \in Nat
    BY <2>1, InTcpType, HostFields DEF Max0
  <2>3. \/ host' = [host EXCEPT ![H].retry = retry, ![H].tcp = "DNS"] /\ Loop
        \/ host' = [host EXCEPT ![H].retry = 0, ![H].tcp = "BEGIN"] /\ Done("ERROR")
    BY <1>11 DEF TcpError
  <2> HIDE DEF retry
  <2>4. \A k \in Nat, t \in TcpStates :
          /\ [host[H] EXCEPT !.retry = k, !.tcp = t] \in HostRec
          /\ [host EXCEPT ![H].retry = k, ![H].tcp = t]
                = [host EXCEPT ![H] = [host[H] EXCEPT !.retry = k, !.tcp = t]]
    <3> TAKE k \in Nat, t \in TcpStates
    <3>1. host[H] \in HostRec /\ H \in Hosts /\ host \in [Hosts -> HostRec]
      BY <2>1, InTcpType DEF TypeOK
    <3>2. [host[H] EXCEPT !.retry = k, !.tcp = t] \in HostRec
      BY <3>1, ZenonT(60) DEF HostRec
    <3>3. [host EXCEPT ![H].retry = k, ![H].tcp = t]
            = [host EXCEPT ![H] = [host[H] EXCEPT !.retry = k, !.tcp = t]]
      BY <3>1
    <3> QED BY <3>2, <3>3
  <2>5. host' \in [Hosts -> HostRec]
    <3>1. 0 \in Nat /\ "DNS" \in TcpStates /\ "BEGIN" \in TcpStates
      BY DEF TcpStates
    <3>2. PICK k \in Nat, t \in TcpStates :
             host' = [host EXCEPT ![H].retry = k, ![H].tcp = t]
      BY <2>2, <2>3, <3>1
    <3> QED BY <2>4, <3>2, ObjectUpdates
  <2>6. ret' \in Status /\ stack' \in Seq(Frame)
    BY <2>1, <2>3, InTcpType DEF Status
  <2>7. openFd' \subseteq Fds
    BY <2>1 DEF TypeOK
  <2> QED BY <2>1, <2>5, <2>6, <2>7 DEF TypeOK
<1> QED BY <1>1, <1>2, <1>3, <1>4, <1>5, <1>6, <1>7, <1>8, <1>9, <1>10, <1>11
        DEF HTDoConnect

(***************************************************************************)
(* The steps of HTNet.                                                     *)
(***************************************************************************)
\* HTNet_newClient makes a live Net object and changes nothing else.
LEMMA NewClientType ==
    ASSUME TypeOK, NEW n \in Nets, NEW h \in Hosts, NewClient(n, h)
    PROVE  /\ net' \in [Nets -> NetRec]
           /\ UNCHANGED <<host, pendHost, active, persistent, openFd, ev, wire, ret>>
<1>1. [net[n] EXCEPT !.life = "live", !.to = h] \in NetRec
  BY ObjectUpdates DEF NetRec
<1>2. net' = [net EXCEPT ![n] = [net[n] EXCEPT !.life = "live", !.to = h]]
  BY DEF NewClient, TypeOK
<1> QED BY <1>1, <1>2, ObjectUpdates DEF NewClient

\* HTNet_delete, with all it calls, keeps every variable well typed.
LEMMA NetStepsType ==
    ASSUME TypeOK, HTNet_delete \/ UnregisterNet \/ FreeNet \/ AfterFilters
    PROVE  TypeOK'
<1> DEFINE n == Top.net
           h == net[n].host
           t == Top.type
<1>1. ~Idle /\ t \in EventTypes
  BY TopType DEF HTNet_delete, UnregisterNet, FreeNet, AfterFilters, AtNet, At
<1>2. ~AfterFilters =>
        /\ n \in Nets /\ h \in Hosts \cup {NoHost} /\ net[n] \in NetRec
        /\ NetEv("HTHost_deleteNet", n, t) \in Frame
        /\ NetFn("unregister_net", n) \in Frame
        /\ NetFn("free_net", n) \in Frame
        /\ Fn("HTHost_free", NoNet, h, t) \in Frame
        /\ HostFn("launchPending", h) \in Frame
  <2>1. ~AfterFilters => n \in Nets
    BY DEF HTNet_delete, UnregisterNet, FreeNet, AtNet
  <2>2. ~AfterFilters => net[n] \in NetRec
    BY <2>1, ObjectUpdates
  <2>3. ~AfterFilters => h \in Hosts \cup {NoHost}
    BY <2>2 DEF NetRec
  <2> QED BY <1>1, <2>1, <2>2, <2>3, FrameType DEF FrameNames
<1>3. HostFn("AfterFilters", NoHost) \in Frame
  BY FrameType DEF FrameNames, EventTypes
<1>4. CASE HTNet_delete /\ ~AfterFilters
  <2>1. UNCHANGED <<pendHost, active, persistent, openFd, wire, ret>>
    BY <1>4 DEF HTNet_delete
  <2>2. net' \in [Nets -> NetRec] /\ host' \in [Hosts -> HostRec] /\ ev' \subseteq Event
    <3>1. CASE h = NoHost
      BY <1>4, <3>1 DEF HTNet_delete, TypeOK
    <3>2. CASE h # NoHost
      <4>1. /\ net' = [net EXCEPT ![n] = UnregNet(@, {"READ", "WRITE"})]
            /\ host' = [host EXCEPT ![h] = UnregHost(@, net[n], {"READ", "WRITE"})]
            /\ ev' = UnregEv(h, n, {"READ", "WRITE"})
        BY <1>4, <3>2 DEF HTNet_delete
      <4>2. h \in Hosts => host[h] \in HostRec
        BY ObjectUpdates
      <4> QED BY <1>2, <1>4, <4>1, <4>2, NetUpdates, RegHostType, ObjectUpdates, EventsType
    <3> QED BY <3>1, <3>2
  <2>3. stack' \in Seq(Frame)
    BY <1>1, <1>2, <1>4, StackType DEF HTNet_delete
  <2> QED BY <2>1, <2>2, <2>3 DEF TypeOK
<1>5. CASE UnregisterNet /\ ~AfterFilters
  <2>1. stack' \in Seq(Frame)
    BY <1>1, <1>2, <1>5, StackType DEF UnregisterNet
  <2> QED BY <1>5, <2>1 DEF UnregisterNet, TypeOK
<1>6. CASE FreeNet /\ ~AfterFilters
  <2>1. [net[n] EXCEPT !.life = "freed"] \in NetRec
    BY <1>2, <1>6 DEF NetRec
  <2>2. net' \in [Nets -> NetRec] /\ stack' \in Seq(Frame)
    BY <1>1, <1>3, <1>6, <2>1, ObjectUpdates, StackType DEF FreeNet
  <2> QED BY <1>6, <2>2 DEF FreeNet, TypeOK
<1>7. CASE AfterFilters
  <2>1. CASE Return /\ UNCHANGED <<host, net, pendHost, active, persistent,
                                   openFd, ev, wire, ret>>
    BY <1>1, <2>1, StackType DEF TypeOK
  <2>2. ASSUME NEW k \in Nets, NEW g \in Hosts, NewClient(k, g),
               Call(<<NetEv("HTTPEvent", k, "BEGIN")>>)
        PROVE  TypeOK'
    <3>1. NetEv("HTTPEvent", k, "BEGIN") \in Frame
      BY FrameType DEF FrameNames, EventTypes
    <3>2. stack' \in Seq(Frame)
      BY <1>1, <2>2, <3>1, StackType
    <3> QED BY <2>2, <3>2, NewClientType DEF TypeOK
  <2> QED BY <1>7, <2>1, <2>2 DEF AfterFilters
<1> QED BY <1>4, <1>5, <1>6, <1>7

(***************************************************************************)
(* The steps of HTTP.                                                      *)
(***************************************************************************)
\* Every outcome of HTBufferWriter_lazyFlush keeps every variable well typed:
\* sent, blocked, delayed, failed or closed by the peer.
LEMMA FlushType ==
    ASSUME TypeOK, Flush
    PROVE  TypeOK'
<1> DEFINE h == Top.host
           n == Top.net
           w == Last(host[h].pipeline)
           out == OutWith(n)
           now == NetWith(n)
<1>1. ~Idle /\ h \in Hosts /\ host[h] \in HostRec /\ n \in Nets \cup {NoNet}
      /\ host[h].fd # NoFd
  BY ObjectUpdates, TopType
     DEF Flush, FlushSent, FlushBlocked, FlushDelayed, FlushError, FlushClosed,
         AtFlush, AtHost, At
<1>2. out \in Nat /\ host[h].fd \in Fds
  BY <1>1, HostFields DEF OutWith
<1>3. now \in [Nets -> NetRec]
  <2>1. CASE Puts(n)
    <3>1. [net[n] EXCEPT !.sent = TRUE] \in NetRec
      <4>1. n \in Nets
        BY <1>1, <2>1 DEF Puts
      <4> QED BY <4>1, ObjectUpdates, NetAssignments
    <3> QED BY <2>1, <3>1, ObjectUpdates DEF NetWith
  <2>2. CASE ~Puts(n)
    BY <2>2 DEF NetWith, TypeOK
  <2> QED BY <2>1, <2>2
<1>4. WireWith(n) \in Seq(Nets)
  <2>1. wire[host[h].fd] \in Seq(Nets)
    BY <1>2 DEF TypeOK
  <2> QED BY <1>1, <2>1 DEF WireWith, Puts
<1>5. Lost(n) \in Seq(Nets)
  <2> DEFINE s == WireWith(n)
             k == Len(s) - out
  <2>1. s \in Seq(Nets) /\ k \in Int /\ k <= Len(s)
    BY <1>2, <1>4
  <2> HIDE DEF s, k
  <2>2. SubSeq(s, 1, k) \in Seq(Nets)
    BY <2>1
  <2> QED BY <2>2 DEF Lost, s, k
<1>6. \A s \in Seq(Nets) : SetWire(s) => wire' \in [Fds -> Seq(Nets)]
  BY <1>2 DEF SetWire, TypeOK
<1>7. NoConn
  BY DEF Flush, FlushSent, FlushBlocked, FlushDelayed, FlushError, FlushClosed
<1>8. w # NoNet => w \in Nets /\ now[w] \in NetRec
  BY <1>1, <1>3, HostFields, FirstLastType
<1>9. /\ ret' \in Status /\ stack' \in Seq(Frame)
      /\ wire' \in [Fds -> Seq(Nets)]
  <2>1. ret' \in Status /\ Return
    BY DEF Flush, FlushSent, FlushBlocked, FlushDelayed, FlushError, FlushClosed, Status
  <2>2. SetWire(WireWith(n)) \/ SetWire(Lost(n))
    BY DEF Flush, FlushSent, FlushBlocked, FlushDelayed, FlushError, FlushClosed
  <2> QED BY <1>1, <1>4, <1>5, <1>6, <2>1, <2>2, StackType
<1>10. \A k, r : (k \in Nets => r \in NetRec)
          => [now EXCEPT ![k] = r] \in [Nets -> NetRec]
  BY <1>3
<1> HIDE DEF out, now, w
<1>11. \A c \in HostRec, b \in BOOLEAN :
          /\ [c EXCEPT !.out = 0] \in HostRec
          /\ [c EXCEPT !.out = out, !.wtimer = b] \in HostRec
          /\ [c EXCEPT !.broken = b, !.out = 0, !.wtimer = FALSE] \in HostRec
          /\ [c EXCEPT !.broken = TRUE, !.out = 0, !.wtimer = FALSE, !.reg = {}] \in HostRec
  <2> TAKE c \in HostRec, b \in BOOLEAN
  <2>1. [c EXCEPT !.out = 0] \in HostRec
    BY HostAssignments
  <2>2. [c EXCEPT !.out = out, !.wtimer = b] \in HostRec
    BY <1>2, ZenonT(60) DEF HostRec
  <2>3. [c EXCEPT !.broken = b, !.out = 0, !.wtimer = FALSE] \in HostRec
    BY ZenonT(60) DEF HostRec
  <2>4. [c EXCEPT !.broken = TRUE, !.out = 0, !.wtimer = FALSE, !.reg = {}] \in HostRec
    BY ZenonT(60) DEF HostRec
  <2> QED BY <2>1, <2>2, <2>3, <2>4
<1>12. CASE FlushSent
  <2>1. net' = now /\ host' = [host EXCEPT ![h].out = 0] /\ UNCHANGED ev
    BY <1>12 DEF FlushSent, now
  <2>2. host' \in [Hosts -> HostRec]
    BY <1>1, <1>11, <2>1, ObjectUpdates
  <2> QED BY <1>3, <1>7, <1>9, <2>1, <2>2 DEF NoConn, TypeOK
<1>13. CASE FlushBlocked
  <2>1. /\ w # NoNet
        /\ net' = [now EXCEPT ![w] = RegNet(@, "WRITE")]
        /\ host' = [host EXCEPT ![h] =
              [RegHost(@, net[w], "WRITE") EXCEPT !.out = out, !.wtimer = FALSE]]
        /\ ev' = RegEv(h, net[w], "WRITE")
    BY <1>13 DEF FlushBlocked, now, out, w
  <2>2. net' \in [Nets -> NetRec] /\ ev' \subseteq Event
    BY <1>8, <1>10, <2>1, NetUpdates, EventsType DEF RegTypes
  <2>3. RegHost(host[h], net[w], "WRITE") \in HostRec
    BY <1>1, RegHostType DEF RegTypes
  <2>4. host' \in [Hosts -> HostRec]
    BY <1>11, <2>1, <2>3, ObjectUpdates
  <2> QED BY <1>7, <1>9, <2>2, <2>4 DEF NoConn, TypeOK
<1>14. CASE FlushDelayed
  <2> DEFINE starts == ~host[h].wtimer /\ w # NoNet
             c == IF starts THEN UnregHost(host[h], net[w], {"WRITE"}) ELSE host[h]
  <2>1. /\ net' = IF starts THEN [now EXCEPT ![w] = UnregNet(@, {"WRITE"})] ELSE now
        /\ host' = [host EXCEPT ![h] = [c EXCEPT !.out = out, !.wtimer = TRUE]]
        /\ ev' = IF starts THEN UnregEv(h, w, {"WRITE"}) ELSE ev
    BY <1>14 DEF FlushDelayed, now, out, w
  <2>2. net' \in [Nets -> NetRec] /\ ev' \subseteq Event
    BY <1>3, <1>8, <1>10, <2>1, NetUpdates, EventsType DEF TypeOK
  <2>3. c \in HostRec
    BY <1>1, RegHostType
  <2> HIDE DEF c
  <2>4. host' \in [Hosts -> HostRec]
    BY <1>11, <2>1, <2>3, ObjectUpdates
  <2> QED BY <1>7, <1>9, <2>2, <2>4 DEF NoConn, TypeOK
<1>15. CASE FlushError
  <2>1. /\ net' = now /\ UNCHANGED ev
        /\ host' = [host EXCEPT ![h] = FailedWrite(@, w # NoNet)]
    BY <1>15 DEF FlushError, now, w
  <2>2. FailedWrite(host[h], w # NoNet) \in HostRec
    <3>1. \A b \in BOOLEAN :
            [host[h] EXCEPT !.broken = b, !.out = 0, !.wtimer = FALSE] \in HostRec
      BY <1>1, <1>11
    <3>2. (host[h].broken \/ w # NoNet) \in BOOLEAN
      OBVIOUS
    <3> QED BY <3>1, <3>2, Zenon DEF FailedWrite
  <2>3. host' \in [Hosts -> HostRec]
    BY <2>1, <2>2, ObjectUpdates
  <2> QED BY <1>3, <1>7, <1>9, <2>1, <2>3 DEF NoConn, TypeOK
<1>16. CASE FlushClosed
  <2>1. /\ w # NoNet
        /\ net' = [now EXCEPT ![w] = UnregNet(@, {"WRITE"})]
        /\ host' = [host EXCEPT ![h] =
              [@ EXCEPT !.broken = TRUE, !.out = 0, !.wtimer = FALSE, !.reg = {}]]
        /\ ev' = EvDel(host[h].fd, {"READ", "WRITE"})
    BY <1>16 DEF FlushClosed, now, w
  <2>2. net' \in [Nets -> NetRec] /\ ev' \subseteq Event
    BY <1>8, <1>10, <2>1, NetUpdates, EventsType
  <2>3. host' \in [Hosts -> HostRec]
    BY <1>1, <1>11, <2>1, ObjectUpdates
  <2> QED BY <1>7, <1>9, <2>2, <2>3 DEF NoConn, TypeOK
<1> QED BY <1>12, <1>13, <1>14, <1>15, <1>16 DEF Flush

\* A change of http->state leaves Net objects.
LEMMA BecomeType ==
    ASSUME TypeOK, NEW s \in HttpStates, Become(s)
    PROVE  net' \in [Nets -> NetRec]
<1>1. ASSUME NEW r \in NetRec
      PROVE  [r EXCEPT !.st = s] \in NetRec
  BY ZenonT(60) DEF NetRec
<1> QED BY <1>1, ObjectUpdates DEF Become

\* HTTPCleanup leaves Host objects and a stack.
LEMMA CleanupType ==
    ASSUME TypeOK, ~Idle, NEW n \in Nets, NEW t \in EventTypes, Cleanup(n, t)
    PROVE  host' \in [Hosts -> HostRec] /\ stack' \in Seq(Frame)
<1> DEFINE h == net[n].host
           delete == NetEv("HTNet_delete", n, t)
<1>1. h \in Hosts \cup {NoHost}
  BY ObjectUpdates DEF NetRec
<1>2. delete \in Frame /\ HostFn("flush", h) \in Frame
  BY <1>1, FrameType DEF FrameNames, EventTypes
<1> HIDE DEF delete
<1>3. h \in Hosts => [host[h] EXCEPT !.wtimer = FALSE] \in HostRec
  BY ObjectUpdates, HostAssignments
<1>4. host' = host \/ host' = [host EXCEPT ![h].wtimer = FALSE]
  BY DEF Cleanup
<1>5. host' \in [Hosts -> HostRec]
  BY <1>3, <1>4, ObjectUpdates DEF TypeOK
<1>6. \/ Call(<<delete>>) \/ Call(<<HostFn("flush", h)>> \o <<delete>>)
      \/ Call(<<>> \o <<delete>>)
  BY DEF Cleanup, delete
<1>7. /\ <<HostFn("flush", h)>> \o <<delete>> \in Seq(Frame)
      /\ <<>> \o <<delete>> \in Seq(Frame)
      /\ <<delete>> \in Seq(Frame)
  BY <1>2
<1>8. stack' \in Seq(Frame)
  BY <1>6, <1>7, CallType
<1> QED BY <1>5, <1>8

\* HTTPEvent keeps every variable well typed up to the end of a write.
LEMMA HttpEventType ==
    ASSUME TypeOK,
           HTTPClose \/ HTTPTimeout \/ HTTPBegin \/ HTTPConnected \/ HTTPWrite \/ HTTPWritten
    PROVE  TypeOK'
<1> DEFINE n == Top.net
           h == net[n].host
<1>1. n \in Nets /\ ~Idle /\ Top \in Frame
  BY TopType DEF HTTPClose, HTTPTimeout, HTTPBegin, HTTPConnected, HTTPWrite,
                 HTTPWritten, On, InHttp, AtNet, At
<1>2. net[n] \in NetRec /\ h \in Hosts \cup {NoHost}
  BY <1>1, ObjectUpdates DEF NetRec
<1>3. UNCHANGED <<ev, wire, ret>> /\ NoConn
  BY DEF HTTPClose, HTTPTimeout, HTTPBegin, HTTPConnected, HTTPWrite, HTTPWritten
<1>4. /\ \A t \in EventTypes : NetEv("HTTPEvent", n, t) \in Frame
      /\ NetFn("HTHost_connect", n) \in Frame
      /\ HostFn("launchPending", h) \in Frame
      /\ [HostFn("flush", h) EXCEPT !.net = n] \in Frame
  BY <1>1, <1>2, FrameType, SameFrame DEF FrameNames, EventTypes
<1>5. /\ [Top EXCEPT !.fn = "HTTPConnected"] \in Frame
      /\ [Top EXCEPT !.fn = "HTTPWritten"] \in Frame
      /\ [Top EXCEPT !.fn = "HTTPEvent"] \in Frame
  BY <1>1, SameFrame DEF FrameNames
<1>6. "READ" \in EventTypes /\ "WRITE" \in EventTypes
  BY DEF EventTypes
<1>7. CASE HTTPClose \/ HTTPTimeout
  <2>1. \E t \in EventTypes : Cleanup(n, t)
    BY <1>7 DEF HTTPClose, HTTPTimeout, EventTypes
  <2>2. UNCHANGED net
    BY <1>7 DEF HTTPClose, HTTPTimeout
  <2> QED BY <1>1, <1>3, <2>1, <2>2, CleanupType DEF NoConn, TypeOK
<1>8. CASE HTTPBegin \/ HTTPWrite
  <2>1. UNCHANGED <<host, net>> /\ stack' \in Seq(Frame)
    BY <1>1, <1>4, <1>5, <1>8, StackType DEF HTTPBegin, HTTPWrite
  <2> QED BY <1>3, <2>1 DEF NoConn, TypeOK
<1>9. CASE HTTPConnected
  <2>1. UNCHANGED host
    BY <1>9 DEF HTTPConnected
  <2>2. CASE /\ net' = [net EXCEPT ![n] = ReadyToWrite(@)]
             /\ Call(<<NetEv("HTTPEvent", n, "WRITE")>>)
    <3>1. \A b \in BOOLEAN :
            [net[n] EXCEPT !.st = "CONNECTED", !.sent = FALSE, !.rs = TRUE,
                           !.hdr = b] \in NetRec
      BY <1>2 DEF NetRec, HttpStates
    <3>2. (net[n].hdr /\ net[n].rs) \in BOOLEAN
      OBVIOUS
    <3>3. ReadyToWrite(net[n]) \in NetRec
      BY <3>1, <3>2, Zenon DEF ReadyToWrite
    <3>4. net' \in [Nets -> NetRec] /\ stack' \in Seq(Frame)
      BY <1>1, <1>4, <1>6, <2>2, <3>3, ObjectUpdates, StackType
    <3> QED BY <1>3, <2>1, <3>4 DEF NoConn, TypeOK
  <2>3. CASE Return /\ UNCHANGED net
    BY <1>1, <1>3, <2>1, <2>3, StackType DEF NoConn, TypeOK
  <2>4. CASE Become("ERROR") /\ Call(<<[Top EXCEPT !.fn = "HTTPEvent"]>>)
    <3>1. net' \in [Nets -> NetRec]
      BY <2>4, BecomeType DEF HttpStates
    <3>2. stack' \in Seq(Frame)
      BY <1>1, <1>5, <2>4, StackType
    <3> QED BY <1>3, <2>1, <3>1, <3>2 DEF NoConn, TypeOK
  <2> QED BY <1>9, <2>2, <2>3, <2>4 DEF HTTPConnected
<1>10. CASE HTTPWritten
  <2>1. net' \in [Nets -> NetRec]
    <3>1. UNCHANGED net \/ Become("RECOVER_PIPE")
      BY <1>10 DEF HTTPWritten
    <3> QED BY <3>1, BecomeType DEF HttpStates, TypeOK
  <2>2. stack' \in Seq(Frame)
    BY <1>1, <1>4, <1>6, <1>10, StackType DEF HTTPWritten
  <2> QED BY <1>3, <1>10, <2>1, <2>2 DEF HTTPWritten, NoConn, TypeOK
<1> QED BY <1>7, <1>8, <1>9, <1>10

\* The headers of a response keep every variable well typed.
LEMMA HeadersAreTyped ==
    ASSUME TypeOK, ReadHeader
    PROVE  TypeOK'
<1> DEFINE h == Reader
           n == Top.net
           c == HostWithHeaders(host[h], Server[h])
<1>1. /\ n \in Nets /\ ~Idle /\ h \in Hosts /\ host[h] \in HostRec
      /\ net[n] \in NetRec
  BY ObjectUpdates DEF ReadHeader, CanRead, Reading, InHttp, AtNet, At, Reader
<1>2. c \in HostRec
  <2>1. Server[h] \in ServerKinds
    BY <1>1, ConnAssumption
  <2> QED BY <1>1, <2>1, HeadersType
<1> HIDE DEF c
<1>3. PICK b \in {c.closeNotif, TRUE} :
         host' = [host EXCEPT ![h] = [c EXCEPT !.closeNotif = b]]
  BY DEF ReadHeader, c
<1>4. b \in BOOLEAN
  BY <1>2, HostFields
<1>5. host' \in [Hosts -> HostRec]
  BY <1>2, <1>3, <1>4, ObjectUpdates, HostAssignments
<1>6. [net[n] EXCEPT !.hdr = TRUE] \in NetRec
  BY <1>1 DEF NetRec
<1>7. net' \in [Nets -> NetRec]
  BY <1>6, ObjectUpdates DEF ReadHeader
<1>8. persistent' \in Nat
  BY DEF ReadHeader, TypeOK
<1> QED BY <1>5, <1>7, <1>8 DEF ReadHeader, TypeOK

\* HTHost_read and HTReader_read keep every variable well typed: a response that
\* is read is taken from a wire that has one.
LEMMA ReadType ==
    ASSUME TypeOK, HTTPRead
    PROVE  TypeOK'
<1> DEFINE h == Reader
           n == Top.net
           c == host[h]
           reg == RegHost(c, net[n], "READ")
<1>1. n \in Nets /\ ~Idle /\ h \in Hosts /\ c \in HostRec /\ net[n] \in NetRec
  BY ObjectUpdates
     DEF HTTPRead, ReadNotFirst, ReadNoStream, ReadMore, ReadHeader, ReadLoaded,
         ReadClosed, ReadError, CanRead, Reading, InHttp, AtNet, At, Reader
<1>2. CASE ReadHeader
  BY <1>2, HeadersAreTyped
<1>3. reg \in HostRec
  BY <1>1, RegHostType DEF RegTypes
<1>4. AwaitMore => /\ net' \in [Nets -> NetRec] /\ ev' \subseteq Event
                   /\ stack' \in Seq(Frame)
  BY <1>1, ObjectUpdates, NetUpdates, EventsType, StackType DEF AwaitMore, RegTypes
<1>5. /\ Become("KILL_PIPE") => net' \in [Nets -> NetRec]
      /\ Become("RECOVER_PIPE") => net' \in [Nets -> NetRec]
      /\ Become("OK") => net' \in [Nets -> NetRec]
  BY BecomeType DEF HttpStates
<1> HIDE DEF reg
<1>6. CASE ReadNotFirst
  <2>1. host' \in [Hosts -> HostRec]
    BY <1>3, <1>6, ObjectUpdates DEF ReadNotFirst, reg
  <2> QED BY <1>4, <1>6, <2>1 DEF ReadNotFirst, NoConn, TypeOK
<1>7. CASE ReadNoStream \/ ReadError
  BY <1>5, <1>7 DEF ReadNoStream, ReadError, NoConn, TypeOK
<1>8. CASE ReadMore
  <2> DEFINE b == reg.rem /\ ~reg.buf
  <2>1. AwaitMore /\ UNCHANGED <<wire, ret>> /\ NoConn
    BY <1>8 DEF ReadMore
  <2>2. host' = [host EXCEPT ![h] = [reg EXCEPT !.rem = b, !.buf = FALSE]]
    BY <1>8, Zenon DEF ReadMore, reg
  <2>3. b \in BOOLEAN
    OBVIOUS
  <2> HIDE DEF b
  <2>4. [reg EXCEPT !.rem = b, !.buf = FALSE] \in HostRec
    BY <1>3, <2>3 DEF HostRec
  <2>5. host' \in [Hosts -> HostRec]
    BY <2>2, <2>4, ObjectUpdates
  <2> QED BY <1>4, <2>1, <2>5 DEF NoConn, TypeOK
<1>9. CASE ReadLoaded
  <2> DEFINE more == "pipedData" \in Env /\ Len(wire[c.fd]) > c.out + 1
  <2>1. /\ CanRead /\ Answered /\ Become("OK") /\ UNCHANGED <<ev, stack, ret>> /\ NoConn
        /\ wire' = [wire EXCEPT ![c.fd] = Tail(@)]
    BY <1>9 DEF ReadLoaded
  <2>2. PICK b \in {FALSE, more} :
           host' = [host EXCEPT ![h] = [c EXCEPT !.buf = b, !.rem = b]]
    BY <1>9, Zenon DEF ReadLoaded
  <2>3. b \in BOOLEAN
    OBVIOUS
  <2>4. [c EXCEPT !.buf = b, !.rem = b] \in HostRec
    BY <1>1, <2>3 DEF HostRec
  <2>5. host' \in [Hosts -> HostRec]
    BY <2>2, <2>4, ObjectUpdates
  <2>6. wire' \in [Fds -> Seq(Nets)]
    <3>1. c.fd \in Fds
      BY <1>1, <2>1, HostFields DEF CanRead
    <3>2. wire[c.fd] \in Seq(Nets) /\ Len(wire[c.fd]) > c.out /\ c.out \in Nat
      BY <1>1, <2>1, <3>1, HostFields DEF Answered, TypeOK
    <3>3. Tail(wire[c.fd]) \in Seq(Nets)
      BY <3>2
    <3> QED BY <2>1, <3>1, <3>3 DEF TypeOK
  <2> QED BY <1>5, <2>1, <2>5, <2>6 DEF NoConn, TypeOK
<1>10. CASE ReadClosed
  <2>1. UNCHANGED <<wire, stack, ret>> /\ NoConn
    BY <1>10 DEF ReadClosed
  <2>2. CASE Become("RECOVER_PIPE") /\ UNCHANGED <<host, ev>>
    BY <1>5, <2>1, <2>2 DEF NoConn, TypeOK
  <2>3. CASE /\ net' = [net EXCEPT ![n] =
                  [UnregNet(@, {"READ"}) EXCEPT !.st = "RECOVER_PIPE"]]
             /\ host' = [host EXCEPT ![h].reg = {}]
             /\ ev' = EvDel(c.fd, {"READ", "WRITE"})
    <3>1. UnregNet(net[n], {"READ"}) \in NetRec
      BY <1>1, NetUpdates
    <3>2. \A r \in NetRec : [r EXCEPT !.st = "RECOVER_PIPE"] \in NetRec
      BY DEF NetRec, HttpStates
    <3>3. net' \in [Nets -> NetRec]
      BY <2>3, <3>1, <3>2, ObjectUpdates
    <3>4. host' \in [Hosts -> HostRec] /\ ev' \subseteq Event
      BY <1>1, <2>3, HostAssignments, ObjectUpdates, EventsType
    <3> QED BY <2>1, <3>3, <3>4 DEF NoConn, TypeOK
  <2> QED BY <1>10, <2>2, <2>3, Zenon DEF ReadClosed
<1> QED BY <1>2, <1>6, <1>7, <1>8, <1>9, <1>10 DEF HTTPRead

\* The states HTTPEvent leaves CONNECTED for keep every variable well typed.
LEMMA HttpEndType ==
    ASSUME TypeOK, HTTPRecoverPipe \/ HTTPRecovered \/ HTTPKillPipe \/ HTTPDone
    PROVE  TypeOK'
<1> DEFINE n == Top.net
           h == net[n].host
<1>1. n \in Nets /\ ~Idle /\ Top \in Frame
  BY TopType DEF HTTPRecoverPipe, HTTPRecovered, HTTPKillPipe, HTTPDone,
                 InHttp, AtNet, At
<1>2. h \in Hosts \cup {NoHost}
  BY <1>1, ObjectUpdates DEF NetRec
<1>3. UNCHANGED <<ev, wire, ret>> /\ NoConn
  BY DEF HTTPRecoverPipe, HTTPRecovered, HTTPKillPipe, HTTPDone
<1>4. \A s \in {"OK", "KILL_PIPE"} : Become(s) => net' \in [Nets -> NetRec]
  BY BecomeType DEF HttpStates
<1>5. stack \in Seq(Frame) /\ net \in [Nets -> NetRec] /\ host \in [Hosts -> HostRec]
  BY DEF TypeOK
<1>6. CASE HTTPRecoverPipe
  <2>1. HostFn("recoverPipe", h) \in Frame /\ [Top EXCEPT !.fn = "HTTPRecovered"] \in Frame
    BY <1>1, <1>2, FrameType, SameFrame DEF FrameNames, EventTypes
  <2>2. UNCHANGED host /\ net' \in [Nets -> NetRec] /\ stack' \in Seq(Frame)
    BY <1>1, <1>4, <1>5, <1>6, <2>1, StackType DEF HTTPRecoverPipe
  <2> QED BY <1>3, <2>2 DEF NoConn, TypeOK
<1>7. CASE HTTPRecovered
  <2>1. [Top EXCEPT !.fn = "HTTPEvent"] \in Frame
    BY <1>1, SameFrame DEF FrameNames
  <2>2. UNCHANGED host /\ net' \in [Nets -> NetRec] /\ stack' \in Seq(Frame)
    BY <1>1, <1>4, <1>5, <1>7, <2>1, StackType DEF HTTPRecovered
  <2> QED BY <1>3, <2>2 DEF NoConn, TypeOK
<1>8. CASE HTTPKillPipe
  <2>1. UNCHANGED <<host, net>>
    BY <1>8 DEF HTTPKillPipe
  <2>2. stack' \in Seq(Frame)
    <3>1. CASE h = NoHost
      BY <1>1, <1>8, <3>1, StackType DEF HTTPKillPipe
    <3>2. CASE h # NoHost
      <4>1. KillFrames(h, "CLOSE") \in Seq(Frame)
        BY <1>2, <3>2, KillFramesType DEF EventTypes
      <4> QED BY <1>1, <1>8, <3>2, <4>1, CallType DEF HTTPKillPipe
    <3> QED BY <3>1, <3>2
  <2> QED BY <1>3, <2>1, <2>2 DEF NoConn, TypeOK
<1>9. CASE HTTPDone
  <2>1. Cleanup(n, "NONE") /\ UNCHANGED net /\ "NONE" \in EventTypes
    BY <1>9 DEF HTTPDone, EventTypes
  <2> QED BY <1>1, <1>3, <2>1, CleanupType DEF NoConn, TypeOK
<1> QED BY <1>6, <1>7, <1>8, <1>9

(***************************************************************************)
(* The steps of the world outside.                                         *)
(***************************************************************************)
\* What the event loop and the application call keeps every variable well typed.
LEMMA WorldType ==
    ASSUME TypeOK, World
    PROVE  TypeOK'
<1>1. \A s \in Seq(Frame) : Start(s) => stack' \in Seq(Frame)
  BY DEF Start
<1>2. \A h \in Hosts, fd \in Fds \cup {NoFd}, t \in EventTypes :
         HostEventFrame(h, fd, t) \in Frame
  <2> TAKE h \in Hosts, fd \in Fds \cup {NoFd}, t \in EventTypes
  <2>1. HostFn("HostEvent", h) \in Frame
    BY FrameType DEF FrameNames, EventTypes
  <2> QED BY <2>1, SameFrame DEF HostEventFrame
<1>3. \A n \in Nets, t \in EventTypes : NetEv("HTTPEvent", n, t) \in Frame
  BY FrameType DEF FrameNames
<1>4. ASSUME NEW n \in Nets, NEW h \in Hosts, NewRequest(n, h)
      PROVE  TypeOK'
  <2>1. <<NetEv("HTTPEvent", n, "BEGIN")>> \in Seq(Frame)
    BY <1>3 DEF EventTypes
  <2> QED BY <1>1, <1>4, <2>1, NewClientType DEF NewRequest, TypeOK
<1>5. ASSUME NEW e \in ev, SocketReady(e) \/ SocketTimeout(e)
      PROVE  TypeOK'
  <2>1. e.host \in Hosts /\ e.fd \in Fds /\ e.index \in EventTypes
    BY DEF TypeOK, Event, EventTypes
  <2>2. \A t \in EventTypes : <<HostEventFrame(e.host, e.fd, t)>> \in Seq(Frame)
    BY <1>2, <2>1
  <2>3. stack' \in Seq(Frame) /\ Rest /\ UNCHANGED <<host, net>>
    BY <1>1, <1>5, <2>1, <2>2 DEF SocketReady, SocketTimeout, EventTypes
  <2> QED BY <2>3 DEF Rest, TypeOK
<1>6. ASSUME NEW h \in Hosts, IdleTimeoutEvent(h)
      PROVE  TypeOK'
  <2>1. <<HostEventFrame(h, host[h].fd, "CLOSE")>> \in Seq(Frame)
    BY <1>2, ObjectUpdates, HostFields DEF EventTypes
  <2>2. host' \in [Hosts -> HostRec]
    BY <1>6, ObjectUpdates, HostAssignments DEF IdleTimeoutEvent
  <2> QED BY <1>1, <1>6, <2>1, <2>2 DEF IdleTimeoutEvent, Rest, TypeOK
<1>7. ASSUME NEW h \in Hosts, FlushEvent(h)
      PROVE  TypeOK'
  <2>1. [HostFn("flush", h) EXCEPT !.type = "TIMEOUT"] \in Frame
    BY FrameType, SameFrame DEF FrameNames, EventTypes
  <2>2. host' \in [Hosts -> HostRec]
    BY <1>7, ObjectUpdates, HostAssignments DEF FlushEvent
  <2>3. <<[HostFn("flush", h) EXCEPT !.type = "TIMEOUT"]>> \in Seq(Frame)
    BY <2>1
  <2>4. stack' \in Seq(Frame)
    BY <1>1, <1>7, <2>3 DEF FlushEvent
  <2> QED BY <1>7, <2>2, <2>4 DEF FlushEvent, Rest, TypeOK
<1>8. ASSUME NEW n \in Nets, Kill(n)
      PROVE  TypeOK'
  <2>1. <<NetEv("HTTPEvent", n, "CLOSE")>> \in Seq(Frame)
    BY <1>3 DEF EventTypes
  <2> QED BY <1>1, <1>8, <2>1 DEF Kill, Rest, TypeOK
<1>9. ASSUME NEW n \in Nets, KillPipe(n)
      PROVE  TypeOK'
  <2>1. net[n].host \in Hosts
    BY <1>9, ObjectUpdates DEF KillPipe, NetRec
  <2>2. KillFrames(net[n].host, "CLOSE") \in Seq(Frame)
    BY <2>1, KillFramesType DEF EventTypes
  <2> QED BY <1>1, <1>9, <2>2 DEF KillPipe, Rest, TypeOK
<1> QED BY <1>4, <1>5, <1>6, <1>7, <1>8, <1>9 DEF World

(***************************************************************************)
(* The theorems.                                                           *)
(***************************************************************************)
\* The process starts well typed.
LEMMA InitType == Init => TypeOK
<1> SUFFICES ASSUME Init
             PROVE  TypeOK
  OBVIOUS
<1>1. NewHost \in HostRec
  BY DEF NewHost, HostRec, TcpStates, Modes, NoFd
<1>2. NewNet \in NetRec
  BY DEF NewNet, NetRec, HttpStates
<1>3. host \in [Hosts -> HostRec] /\ net \in [Nets -> NetRec]
  BY <1>1, <1>2 DEF Init, ConnInit
<1>4. wire \in [Fds -> Seq(Nets)] /\ stack \in Seq(Frame) /\ pendHost \in Seq(Hosts)
  BY DEF Init, ConnInit
<1>5. ret \in Status
  BY DEF Init, ConnInit, Status
<1> QED BY <1>3, <1>4, <1>5 DEF Init, ConnInit, TypeOK

\* Every function that runs keeps every variable well typed.
LEMMA RunType ==
    ASSUME TypeOK, Run
    PROVE  TypeOK'
<1>1. CASE \/ ClearChannel \/ RecoverPipe \/ Recovered \/ HostFree \/ DeleteNet
           \/ LaunchPending \/ KillPending \/ KillPiped \/ KillClose
  BY <1>1, ClearChannelType, RecoverPipeType, RecoveredType, HostFreeType,
     DeleteNetType, LaunchPendingType, KillPendingType, KillPipedType, KillCloseType
<1>2. CASE \/ HostEventRead \/ HostEventNext \/ HostEventWrite \/ HostEventTimeout
           \/ ConnectLookup \/ ConnectLock \/ Connected
  BY <1>2, HostEventType, HostConnectType
<1>3. CASE \/ HTDoConnect
           \/ HTNet_delete \/ UnregisterNet \/ FreeNet \/ AfterFilters
  BY <1>3, TcpStepsType, NetStepsType
<1>4. CASE \/ Flush \/ HTTPClose \/ HTTPTimeout \/ HTTPBegin \/ HTTPConnected
           \/ HTTPWrite \/ HTTPWritten \/ HTTPRead \/ HTTPRecoverPipe
           \/ HTTPRecovered \/ HTTPKillPipe \/ HTTPDone
  BY <1>4, FlushType, HttpEventType, ReadType, HttpEndType
<1> QED BY <1>1, <1>2, <1>3, <1>4 DEF Run

\* TypeOK is inductive on its own.
LEMMA NextType == TypeOK /\ [Next]_vars => TypeOK'
<1> SUFFICES ASSUME TypeOK, [Next]_vars
             PROVE  TypeOK'
  OBVIOUS
<1>1. CASE World
  BY <1>1, WorldType
<1>2. CASE Run
  BY <1>2, RunType
<1>3. CASE UNCHANGED vars
  BY <1>3 DEF vars, TypeOK
<1> QED BY <1>1, <1>2, <1>3 DEF Next, Finished

\* Whatever the outside world does, every record, queue, counter and stack
\* frame of the connection code stays in its type: a queue holds only Net
\* objects, the counters of HTNet.c and the semaphores of the channels do not
\* go below zero, and no list operation is applied outside its domain.
THEOREM TypeCorrect == Spec => []TypeOK
  BY InitType, NextType, PTL DEF Spec

(***************************************************************************)
(* Persistent connections.  HTNet_availablePersistentSockets is asked once *)
(* per response, on whatever host, while other hosts come and go: the      *)
(* counter only grows in ReadHeader and only shrinks in ClearChannel.      *)
(***************************************************************************)
PersistInv == TypeOK /\ PersistLeavesTwo

\* The headers of a response count a persistent socket only when asking
\* HTNet_availablePersistentSockets has just said there is one.
LEMMA HeaderCountsPersistent ==
    ASSUME TypeOK, ReadHeader
    PROVE  \/ persistent' = persistent
           \/ persistent' = persistent + 1 /\ AvailablePersistentSockets
<1> DEFINE h == Reader
           c == HostWithHeaders(host[h], Server[h])
<1>1. h \in Hosts /\ host[h] \in HostRec /\ Server[h] \in ServerKinds
  BY ObjectUpdates, ConnAssumption DEF ReadHeader, CanRead, Reading, Reader
<1>2. persistent' = IF c.persistent /\ ~host[h].persistent THEN persistent + 1
                                                           ELSE persistent
  BY DEF ReadHeader
<1>3. ASSUME NEW d \in HostRec, NEW b \in BOOLEAN
      PROVE  [d EXCEPT !.persistent = b].persistent = b
  BY DEF HostRec
<1>4. ASSUME NEW mode \in Modes
      PROVE  MakePersistent(host[h], mode).persistent
                => host[h].persistent \/ AvailablePersistentSockets
  <2> DEFINE d == IF mode = "PIPELINE" /\ host[h].recovered > MaxRecover
                  THEN host[h] ELSE [host[h] EXCEPT !.mode = mode]
             b == d.persistent \/ AvailablePersistentSockets
  <2>1. d \in HostRec /\ d.persistent = host[h].persistent
    <3>1. /\ [host[h] EXCEPT !.mode = mode] \in HostRec
          /\ [host[h] EXCEPT !.mode = mode].persistent = host[h].persistent
      BY <1>1, ZenonT(60) DEF HostRec
    <3> QED BY <1>1, <3>1
  <2>2. b \in BOOLEAN
    OBVIOUS
  <2>3. MakePersistent(host[h], mode) = [d EXCEPT !.persistent = b]
    BY Zenon DEF MakePersistent
  <2> HIDE DEF d, b
  <2>4. MakePersistent(host[h], mode).persistent = b
    BY <1>3, <2>1, <2>2, <2>3
  <2> QED BY <2>1, <2>4 DEF b
<1>5. c.persistent => host[h].persistent \/ AvailablePersistentSockets
  BY <1>1, <1>4 DEF HostWithHeaders, ServerKinds, Modes
<1> QED BY <1>2, <1>5

\* Nothing but ReadHeader and ClearChannel touches the counter.
LEMMA OthersKeepPersistent ==
    ASSUME [Next]_vars, ~ReadHeader, ~ClearChannel
    PROVE  persistent' = persistent
<1>1. CASE World
  BY <1>1 DEF World, NewRequest, NewClient, SocketReady, SocketTimeout,
     IdleTimeoutEvent, FlushEvent, Kill, KillPipe, Rest
<1>2. CASE \/ RecoverPipe \/ Recovered \/ HostFree \/ DeleteNet
           \/ LaunchPending \/ KillPending \/ KillPiped \/ KillClose
  BY <1>2 DEF RecoverPipe, Recovered, HostFree, DeleteNet, LaunchPending,
     KillPending, KillPiped, KillClose
<1>3. CASE \/ HostEventRead \/ HostEventNext \/ HostEventWrite \/ HostEventTimeout
           \/ ConnectLookup \/ ConnectLock \/ Connected
  BY <1>3 DEF HostEventRead, HostEventNext, HostEventWrite, HostEventTimeout,
     ConnectLookup, ConnectLock, Connected
<1>4. CASE HTDoConnect
  BY <1>4 DEF HTDoConnect, TcpBegin, TcpChannel, TcpDns, TcpNoSocket,
     TcpNeedSocket, TcpConnected, TcpWouldBlock, TcpUse, TcpInUse, TcpDnsError,
     TcpError, NoIO
<1>5. CASE HTNet_delete \/ UnregisterNet \/ FreeNet \/ AfterFilters
  BY <1>5 DEF HTNet_delete, UnregisterNet, FreeNet, AfterFilters, NewClient
<1>6. CASE Flush
  BY <1>6 DEF Flush, FlushSent, FlushBlocked, FlushDelayed, FlushError,
     FlushClosed, NoConn
<1>7. CASE \/ HTTPClose \/ HTTPTimeout \/ HTTPBegin \/ HTTPConnected
           \/ HTTPWrite \/ HTTPWritten
  BY <1>7 DEF HTTPClose, HTTPTimeout, HTTPBegin, HTTPConnected, HTTPWrite,
     HTTPWritten, NoConn
<1>8. CASE HTTPRead
  BY <1>8 DEF HTTPRead, ReadNotFirst, ReadNoStream, ReadMore, ReadLoaded,
     ReadClosed, ReadError, NoConn
<1>9. CASE HTTPRecoverPipe \/ HTTPRecovered \/ HTTPKillPipe \/ HTTPDone
  BY <1>9 DEF HTTPRecoverPipe, HTTPRecovered, HTTPKillPipe, HTTPDone, NoConn
<1>10. CASE UNCHANGED vars
  BY <1>10 DEF vars
<1> QED BY <1>1, <1>2, <1>3, <1>4, <1>5, <1>6, <1>7, <1>8, <1>9, <1>10
        DEF Next, Run, Finished

\* PersistInv is preserved by every step.
LEMMA PersistStep == PersistInv /\ [Next]_vars => PersistInv'
<1> SUFFICES ASSUME TypeOK, PersistLeavesTwo, [Next]_vars
             PROVE  PersistLeavesTwo'
  BY NextType DEF PersistInv
<1>1. persistent \in Nat /\ MaxActive \in Nat
  BY ConnAssumption DEF TypeOK
<1>2. CASE ReadHeader
  BY <1>1, <1>2, HeaderCountsPersistent DEF AvailablePersistentSockets, PersistLeavesTwo
<1>3. CASE ClearChannel
  <2>1. persistent' = persistent \/ persistent' = Max0(persistent - 1)
    BY <1>3 DEF ClearChannel
  <2> QED BY <1>1, <2>1 DEF PersistLeavesTwo, Max0
<1>4. CASE ~ReadHeader /\ ~ClearChannel
  BY <1>4, OthersKeepPersistent DEF PersistLeavesTwo
<1> QED BY <1>2, <1>3, <1>4

\* HTNet.html: "The number of persistent connections can never be more than the
\* max number of sockets-2".  For any number of sockets and hosts, in whatever
\* order responses are read and channels are cleared, that is so.
THEOREM PersistentLeaveTwoSockets == Spec => []PersistLeavesTwo
<1>1. Init => PersistInv
  BY InitType DEF PersistInv, PersistLeavesTwo, Init, ConnInit
<1>2. PersistInv => PersistLeavesTwo
  BY DEF PersistInv
<1> QED BY <1>1, <1>2, PersistStep, PTL DEF Spec

(***************************************************************************)
(* The counter of persistent sockets and the flags of the hosts it counts. *)
(* They change together in ReadHeader and in ClearChannel, so that what    *)
(* PersistentCounted says of the event loop holds inside functions, too.   *)
(***************************************************************************)
PersistentHosts == {h \in Hosts : host[h].persistent}

CountInv ==
    /\ TypeOK
    /\ IsFiniteSet(PersistentHosts)
    /\ persistent = Cardinality(PersistentHosts)

SameFlags == \A h \in Hosts : host'[h].persistent = host[h].persistent

\* What the functions that update a Host leave alone.
LEMMA FlagKept ==
    ASSUME NEW c \in HostRec
    PROVE  /\ \A n : AddNetHost(c, n).persistent = c.persistent
           /\ \A n : Locked(c, n).persistent = c.persistent
           /\ \A n : WithoutNet(c, n).persistent = c.persistent
           /\ \A r, t : RegHost(c, r, t).persistent = c.persistent
           /\ \A r, types : UnregHost(c, r, types).persistent = c.persistent
           /\ \A closes : FailedWrite(c, closes).persistent = c.persistent
           /\ LeftChannel(c).persistent = c.persistent
           /\ RecoveredHost(c).persistent = c.persistent
           /\ Popped(c).persistent = c.persistent
           /\ PoppedToPipe(c).persistent = c.persistent
<1>1. /\ \A n : AddNetHost(c, n).persistent = c.persistent
      /\ \A n : Locked(c, n).persistent = c.persistent
      /\ \A n : WithoutNet(c, n).persistent = c.persistent
  BY DEF HostRec, AddNetHost, Locked, WithoutNet
<1>2. /\ \A r, t : RegHost(c, r, t).persistent = c.persistent
      /\ \A r, types : UnregHost(c, r, types).persistent = c.persistent
      /\ \A closes : FailedWrite(c, closes).persistent = c.persistent
  BY DEF HostRec, RegHost, UnregHost, FailedWrite
<1>3. /\ LeftChannel(c).persistent = c.persistent
      /\ RecoveredHost(c).persistent = c.persistent
      /\ Popped(c).persistent = c.persistent
  BY DEF HostRec, LeftChannel, RecoveredHost, Popped
<1>4. PoppedToPipe(c).persistent = c.persistent
  BY DEF HostRec, Popped, PoppedToPipe
<1> QED BY <1>1, <1>2, <1>3, <1>4

\* A step that leaves the hosts alone, or updates one of them and leaves its flag,
\* leaves the flags.
LEMMA FlagsStay ==
    ASSUME TypeOK
    PROVE  /\ UNCHANGED host => SameFlags
           /\ \A h, c : /\ host' = [host EXCEPT ![h] = c]
                        /\ h \in Hosts => c.persistent = host[h].persistent
                        => SameFlags
  BY DEF TypeOK, SameFlags

\* The functions of HTHost.c but for HTHost_clearChannel.
LEMMA HostKeepsFlags ==
    ASSUME TypeOK,
           \/ RecoverPipe \/ Recovered \/ HostFree \/ DeleteNet
           \/ LaunchPending \/ KillPending \/ KillPiped \/ KillClose
    PROVE  SameFlags
<1> DEFINE h == Top.host
<1>0. /\ \A g \in Hosts : host[g] \in HostRec
      /\ host \in [Hosts -> HostRec]
  BY DEF TypeOK
<1>1. CASE RecoverPipe
  BY <1>0, <1>1, FlagKept, FlagsStay DEF RecoverPipe, AtHost
<1>2. CASE Recovered
  <2>1. h \in Hosts /\ host' = [host EXCEPT ![h].doRecover = FALSE]
    BY <1>2 DEF Recovered, AtHost
  <2>2. [host[h] EXCEPT !.doRecover = FALSE].persistent = host[h].persistent
    BY <1>0, <2>1 DEF HostRec
  <2> QED BY <2>1, <2>2, FlagsStay
<1>3. CASE HostFree
  <2> DEFINE c == [host[h] EXCEPT !.wtimer = @ /\ Top.type = "NONE"]
             d == LeftChannel(c)
  <2>1. h \in Hosts
    BY <1>3 DEF HostFree, AtHost
  <2>2. c \in HostRec /\ c.persistent = host[h].persistent
    <3>1. (host[h].wtimer /\ Top.type = "NONE") \in BOOLEAN /\ host[h] \in HostRec
      BY <1>0, <2>1
    <3>2. c \in HostRec
      BY <3>1, HostAssignments
    <3>3. c.persistent = host[h].persistent
      BY <3>1 DEF HostRec
    <3> QED BY <3>2, <3>3
  <2>3. d \in HostRec /\ d.persistent = host[h].persistent
    BY <2>2, LeftChannelType, FlagKept
  <2>4. \/ UNCHANGED host
        \/ \E b : host' = [host EXCEPT ![h] = [d EXCEPT !.timer = b]]
        \/ \E k : host' = [host EXCEPT ![h] = [d EXCEPT !.reqsPerConn = k, !.doRecover = TRUE]]
        \/ host' = [host EXCEPT ![h] = [c EXCEPT !.sem = 0]]
    BY <1>3 DEF HostFree
  <2> HIDE DEF c, d
  <2>5. /\ \A b : [d EXCEPT !.timer = b].persistent = d.persistent
        /\ \A k : [d EXCEPT !.reqsPerConn = k, !.doRecover = TRUE].persistent = d.persistent
        /\ [c EXCEPT !.sem = 0].persistent = c.persistent
    BY <2>2, <2>3 DEF HostRec
  <2> QED BY <2>2, <2>3, <2>4, <2>5, FlagsStay
<1>4. CASE DeleteNet
  <2> DEFINE g == net[Top.net].host
  <2>1. host' = [host EXCEPT ![g] = WithoutNet(host[g], Top.net)]
    BY <1>4 DEF DeleteNet
  <2> QED BY <1>0, <2>1, FlagKept, FlagsStay
<1>5. CASE LaunchPending
  <2>1. h \in Hosts
    BY <1>5 DEF LaunchPending, AtHost
  <2>2. \/ UNCHANGED host
        \/ host' = [host EXCEPT ![h] = Popped(host[h])]
        \/ \E p : /\ p = Head(pendHost) /\ pendHost # <<>>
                  /\ host' = [[host EXCEPT ![p] = PoppedToPipe(host[p])] EXCEPT ![h].reqsMade = @ + 1]
    BY <1>5 DEF LaunchPending, LaunchOwn, LaunchOther
  <2>3. ASSUME NEW p, p = Head(pendHost), pendHost # <<>>,
               host' = [[host EXCEPT ![p] = PoppedToPipe(host[p])] EXCEPT ![h].reqsMade = @ + 1]
        PROVE  SameFlags
    <3> DEFINE popped == [host EXCEPT ![p] = PoppedToPipe(host[p])]
    <3>1. p \in Hosts
      BY <2>3 DEF TypeOK
    <3>2. /\ DOMAIN PoppedToPipe(host[p]) = DOMAIN host[p]
          /\ PoppedToPipe(host[p]).persistent = host[p].persistent
      BY <1>0, <3>1, FlagKept DEF Popped, PoppedToPipe
    <3>3. /\ DOMAIN popped = Hosts
          /\ \A g \in Hosts : popped[g].persistent = host[g].persistent
          /\ DOMAIN popped[h] = DOMAIN host[h]
      BY <1>0, <2>1, <3>1, <3>2
    <3>4. host' = [popped EXCEPT ![h] = [popped[h] EXCEPT !.reqsMade = popped[h].reqsMade + 1]]
      BY <2>3
    <3> HIDE DEF popped
    <3>5. [popped[h] EXCEPT !.reqsMade = popped[h].reqsMade + 1].persistent = popped[h].persistent
      BY <1>0, <2>1, <3>3 DEF HostRec
    <3> QED BY <2>1, <3>3, <3>4, <3>5 DEF SameFlags
  <2> QED BY <1>0, <2>1, <2>2, <2>3, FlagKept, FlagsStay
<1>6. CASE KillPending
  <2> DEFINE c == [host[h] EXCEPT
                      !.lock = IF Top.net # NoNet /\ @ = Top.net THEN NoNet ELSE @]
  <2>1. h \in Hosts
    BY <1>6 DEF KillPending, AtHost
  <2>2. \/ host' = [host EXCEPT ![h] = c]
        \/ host' = [host EXCEPT ![h] = [c EXCEPT !.pending = AllButLast(c.pending)]]
    BY <1>6 DEF KillPending
  <2>3. c.persistent = host[h].persistent
        /\ [c EXCEPT !.pending = AllButLast(c.pending)].persistent = host[h].persistent
    BY <1>0, <2>1 DEF HostRec
  <2> HIDE DEF c
  <2> QED BY <2>1, <2>2, <2>3, FlagsStay
<1>7. CASE KillPiped
  BY <1>7, FlagsStay DEF KillPiped
<1>8. CASE KillClose
  <2>1. h \in Hosts /\ host' = [host EXCEPT ![h] = [host[h] EXCEPT !.sem = 0]]
    BY <1>8 DEF KillClose, AtHost
  <2>2. [host[h] EXCEPT !.sem = 0].persistent = host[h].persistent
    BY <1>0, <2>1 DEF HostRec
  <2> QED BY <2>1, <2>2, FlagsStay
<1> QED BY <1>1, <1>2, <1>3, <1>4, <1>5, <1>6, <1>7, <1>8
\* The events of a Host and HTHost_connect.
LEMMA ConnectKeepsFlags ==
    ASSUME TypeOK,
           \/ HostEventRead \/ HostEventNext \/ HostEventWrite \/ HostEventTimeout
           \/ ConnectLookup \/ ConnectLock \/ Connected
    PROVE  SameFlags
<1>0. \A g \in Hosts : host[g] \in HostRec
  BY DEF TypeOK
<1>1. CASE HostEventRead
  <2> DEFINE h == Top.host
  <2>1. h \in Hosts
        /\ (UNCHANGED host \/ host' = [host EXCEPT ![h] = [host[h] EXCEPT !.rem = FALSE]])
    BY <1>1 DEF HostEventRead, AtHost
  <2>2. [host[h] EXCEPT !.rem = FALSE].persistent = host[h].persistent
    BY <1>0, <2>1 DEF HostRec
  <2> QED BY <2>1, <2>2, FlagsStay
<1>2. CASE HostEventNext \/ HostEventWrite \/ HostEventTimeout \/ ConnectLookup
  BY <1>2, FlagsStay DEF HostEventNext, HostEventWrite, HostEventTimeout, ConnectLookup
<1>3. CASE ConnectLock
  <2> DEFINE n == Top.net
             h == net[n].to
             c == IF net[n].host = NoHost THEN Locked(host[h], n) ELSE host[h]
  <2>1. h \in Hosts /\ n \in Nets
        /\ (host' = [host EXCEPT ![h] = c] \/ host' = [host EXCEPT ![h] = AddNetHost(c, n)])
    BY <1>3 DEF ConnectLock, AtNet
  <2>2. c \in HostRec /\ c.persistent = host[h].persistent
    BY <1>0, <2>1, LockedType, FlagKept
  <2> HIDE DEF c
  <2>3. AddNetHost(c, n).persistent = c.persistent
    BY <2>2, FlagKept
  <2> QED BY <2>1, <2>2, <2>3, FlagsStay
<1>4. CASE Connected
  <2> DEFINE h == net[Top.net].host
  <2>1. UNCHANGED host \/ \E m : host' = [host EXCEPT ![h] = [host[h] EXCEPT !.lock = m]]
    BY <1>4 DEF Connected
  <2>2. h \in Hosts => \A m : [host[h] EXCEPT !.lock = m].persistent = host[h].persistent
    BY <1>0 DEF HostRec
  <2> QED BY <2>1, <2>2, FlagsStay
<1> QED BY <1>1, <1>2, <1>3, <1>4

\* HTDoConnect.
LEMMA TcpKeepsFlags ==
    ASSUME TypeOK, HTDoConnect
    PROVE  SameFlags
<1>1. H \in Hosts /\ host[H] \in HostRec
  BY DEF TypeOK, HTDoConnect, TcpBegin, TcpChannel, TcpDns, TcpNoSocket, TcpNeedSocket,
         TcpConnected, TcpWouldBlock, TcpUse, TcpInUse, TcpDnsError, TcpError, InTcp
<1> DEFINE c == host[H]
           added == AddNetHost(c, N)
           dialled == RegHost(c, net[N], "CONNECT")
           used == UnregHost(c, net[N], {"CONNECT"})
<1>2. /\ DOMAIN added = DOMAIN c /\ added.persistent = c.persistent
      /\ DOMAIN dialled = DOMAIN c /\ dialled.persistent = c.persistent
      /\ DOMAIN used = DOMAIN c /\ used.persistent = c.persistent
  BY <1>1, FlagKept DEF AddNetHost, RegHost, UnregHost
<1>3. CASE TcpBegin \/ TcpInUse
  <2>1. \/ host' = [host EXCEPT ![H] = [added EXCEPT !.tcp = "CHANNEL"]]
        \/ host' = [host EXCEPT ![H] = added]
        \/ host' = [host EXCEPT ![H] = [added EXCEPT !.sem = added.sem + 1]]
    BY <1>3 DEF TcpBegin, TcpInUse
  <2> HIDE DEF added
  <2>2. [added EXCEPT !.tcp = "CHANNEL"].persistent = c.persistent
        /\ [added EXCEPT !.sem = added.sem + 1].persistent = c.persistent
    BY <1>1, <1>2 DEF HostRec
  <2> QED BY <1>2, <2>1, <2>2, FlagsStay
<1>4. CASE TcpChannel \/ TcpDns \/ TcpNoSocket \/ TcpConnected
  <2>1. \/ \E s : host' = [host EXCEPT ![H] = [c EXCEPT !.tcp = s]]
        \/ host' = [host EXCEPT ![H] = [c EXCEPT !.sem = c.sem + 1, !.tcp = "CONNECTED"]]
        \/ \E k : host' = [host EXCEPT ![H] = [c EXCEPT !.retry = k, !.tcp = "NEED_SOCKET"]]
    <3>1. CASE TcpChannel
      BY <1>1, <3>1 DEF TcpChannel, GoTo, TypeOK
    <3>2. CASE TcpDns
      <4>1. \/ host' = [host EXCEPT ![H].tcp = "DNS_ERROR"]
            \/ \E k : host' = [host EXCEPT ![H].retry = k, ![H].tcp = "NEED_SOCKET"]
        BY <3>2 DEF TcpDns, GoTo
      <4>2. \A k : [host EXCEPT ![H].retry = k, ![H].tcp = "NEED_SOCKET"]
                      = [host EXCEPT ![H] = [c EXCEPT !.retry = k, !.tcp = "NEED_SOCKET"]]
        BY <1>1 DEF TypeOK
      <4>3. CASE host' = [host EXCEPT ![H].tcp = "DNS_ERROR"]
        BY <4>3
      <4>4. CASE \E k : host' = [host EXCEPT ![H].retry = k, ![H].tcp = "NEED_SOCKET"]
        <5>1. PICK k : host' = [host EXCEPT ![H].retry = k, ![H].tcp = "NEED_SOCKET"]
          BY <4>4
        <5>2. host' = [host EXCEPT ![H] = [c EXCEPT !.retry = k, !.tcp = "NEED_SOCKET"]]
          BY <4>2, <5>1
        <5> QED BY <5>2
      <4> QED BY <4>1, <4>3, <4>4
    <3>3. CASE TcpNoSocket \/ TcpConnected
      BY <1>1, <3>3 DEF TcpNoSocket, TcpConnected, GoTo, TypeOK
    <3> QED BY <1>4, <3>1, <3>2, <3>3
  <2>2. /\ \A s : [c EXCEPT !.tcp = s].persistent = c.persistent
        /\ [c EXCEPT !.sem = c.sem + 1, !.tcp = "CONNECTED"].persistent = c.persistent
        /\ \A k : [c EXCEPT !.retry = k, !.tcp = "NEED_SOCKET"].persistent = c.persistent
    BY <1>1 DEF HostRec
  <2> QED BY <2>1, <2>2, FlagsStay
<1>5. CASE TcpNeedSocket
  <2>1. \E fd : host' = [host EXCEPT ![H] =
                            [c EXCEPT !.fd = fd, !.sem = 1, !.buf = FALSE, !.out = 0,
                                      !.wtimer = FALSE, !.tcp = "NEED_CONNECT"]]
    BY <1>5 DEF TcpNeedSocket
  <2>2. \A fd : [c EXCEPT !.fd = fd, !.sem = 1, !.buf = FALSE, !.out = 0, !.wtimer = FALSE,
                          !.tcp = "NEED_CONNECT"].persistent = c.persistent
    BY <1>1 DEF HostRec
  <2> QED BY <2>1, <2>2, FlagsStay
<1>6. CASE TcpWouldBlock
  BY <1>2, <1>6, FlagsStay DEF TcpWouldBlock
<1>7. CASE TcpUse
  <2>1. host' = [host EXCEPT ![H] = [used EXCEPT !.retry = 0, !.tcp = "IN_USE"]]
    BY <1>7 DEF TcpUse
  <2> HIDE DEF used
  <2>2. [used EXCEPT !.retry = 0, !.tcp = "IN_USE"].persistent = c.persistent
    BY <1>1, <1>2 DEF HostRec
  <2> QED BY <2>1, <2>2, FlagsStay
<1>8. CASE TcpDnsError \/ TcpError
  <2>1. \E k, s : host' = [host EXCEPT ![H] = [c EXCEPT !.retry = k, !.tcp = s]]
    BY <1>1, <1>8 DEF TcpDnsError, TcpError, TypeOK
  <2>2. \A k, s : [c EXCEPT !.retry = k, !.tcp = s].persistent = c.persistent
    BY <1>1 DEF HostRec
  <2> QED BY <2>1, <2>2, FlagsStay
<1> QED BY <1>3, <1>4, <1>5, <1>6, <1>7, <1>8 DEF HTDoConnect
\* The streams of the channel and the HTTP machine, but for the header of a response.
LEMMA HttpKeepsFlags ==
    ASSUME TypeOK,
           \/ Flush \/ HTTPClose \/ HTTPTimeout \/ HTTPBegin \/ HTTPConnected
           \/ HTTPWrite \/ HTTPWritten \/ HTTPRead \/ HTTPRecoverPipe
           \/ HTTPRecovered \/ HTTPKillPipe \/ HTTPDone,
           ~ReadHeader
    PROVE  SameFlags
<1>0. \A g \in Hosts : host[g] \in HostRec
  BY DEF TypeOK
<1>1. CASE Flush
  <2> DEFINE h == Top.host
             c == host[h]
             w == Last(c.pipeline)
             blocked == RegHost(c, net[w], "WRITE")
             delayed(starts) == IF starts THEN UnregHost(c, net[w], {"WRITE"}) ELSE c
  <2>1. h \in Hosts /\ c \in HostRec
    BY <1>0, <1>1 DEF Flush, FlushSent, FlushBlocked, FlushDelayed, FlushError, FlushClosed,
                      AtFlush, AtHost
  <2>2. \/ host' = [host EXCEPT ![h] = [c EXCEPT !.out = 0]]
        \/ \E k : host' = [host EXCEPT ![h] = [blocked EXCEPT !.out = k, !.wtimer = FALSE]]
        \/ \E k, starts : host' = [host EXCEPT ![h] =
                                      [delayed(starts) EXCEPT !.out = k, !.wtimer = TRUE]]
        \/ \E closes : host' = [host EXCEPT ![h] = FailedWrite(c, closes)]
        \/ host' = [host EXCEPT ![h] = [c EXCEPT !.broken = TRUE, !.out = 0,
                                                 !.wtimer = FALSE, !.reg = {}]]
    <3>1. CASE FlushSent \/ FlushError \/ FlushClosed
      BY <2>1, <3>1 DEF FlushSent, FlushError, FlushClosed, TypeOK
    <3>2. CASE FlushBlocked
      BY <3>2 DEF FlushBlocked
    <3>3. CASE FlushDelayed
      BY <3>3 DEF FlushDelayed
    <3> QED BY <1>1, <3>1, <3>2, <3>3 DEF Flush
  <2>3. /\ DOMAIN blocked = DOMAIN c /\ blocked.persistent = c.persistent
        /\ \A starts : /\ DOMAIN delayed(starts) = DOMAIN c
                       /\ delayed(starts).persistent = c.persistent
    BY <2>1, FlagKept DEF RegHost, UnregHost
  <2> HIDE DEF blocked, delayed
  <2>4. /\ [c EXCEPT !.out = 0].persistent = c.persistent
        /\ [c EXCEPT !.broken = TRUE, !.out = 0, !.wtimer = FALSE, !.reg = {}].persistent
              = c.persistent
        /\ \A k : [blocked EXCEPT !.out = k, !.wtimer = FALSE].persistent = c.persistent
        /\ \A k, starts : [delayed(starts) EXCEPT !.out = k, !.wtimer = TRUE].persistent
                             = c.persistent
    BY <2>1, <2>3 DEF HostRec
  <2>5. \A closes : FailedWrite(c, closes).persistent = c.persistent
    BY <2>1, FlagKept
  <2> QED BY <2>2, <2>4, <2>5, FlagsStay
<1>2. CASE HTTPClose \/ HTTPTimeout \/ HTTPDone
  <2> DEFINE h == net[Top.net].host
  <2>1. UNCHANGED host \/ host' = [host EXCEPT ![h].wtimer = FALSE]
    BY <1>2 DEF HTTPClose, HTTPTimeout, HTTPDone, Cleanup
  <2>2. h \in Hosts => [host[h] EXCEPT !.wtimer = FALSE].persistent = host[h].persistent
    BY <1>0 DEF HostRec
  <2> QED BY <2>1, <2>2, FlagsStay
<1>3. CASE \/ HTTPBegin \/ HTTPConnected \/ HTTPWrite \/ HTTPWritten
           \/ HTTPRecoverPipe \/ HTTPRecovered \/ HTTPKillPipe
  BY <1>3, FlagsStay DEF HTTPBegin, HTTPConnected, HTTPWrite, HTTPWritten, HTTPRecoverPipe,
                         HTTPRecovered, HTTPKillPipe
<1>4. CASE HTTPRead /\ ~ReadHeader
  <2> DEFINE h == Reader
             c == host[h]
             waiting == RegHost(c, net[Top.net], "READ")
  <2>1. h \in Hosts /\ c \in HostRec
    BY <1>0, <1>4 DEF HTTPRead, ReadNotFirst, ReadNoStream, ReadMore, ReadLoaded, ReadClosed,
                      ReadError, CanRead, Reading, Reader
  <2>2. \/ UNCHANGED host
        \/ host' = [host EXCEPT ![h] = waiting]
        \/ \E b : host' = [host EXCEPT ![h] = [waiting EXCEPT !.rem = b, !.buf = FALSE]]
        \/ \E b : host' = [host EXCEPT ![h] = [c EXCEPT !.buf = b, !.rem = b]]
        \/ host' = [host EXCEPT ![h] = [c EXCEPT !.reg = {}]]
    <3>1. CASE ReadNotFirst \/ ReadNoStream \/ ReadError
      BY <3>1 DEF ReadNotFirst, ReadNoStream, ReadError
    <3>2. CASE ReadMore
      BY <3>2 DEF ReadMore
    <3>3. CASE ReadLoaded
      BY <3>3 DEF ReadLoaded
    <3>4. CASE ReadClosed
      BY <3>4 DEF ReadClosed
    <3> QED BY <1>4, <3>1, <3>2, <3>3, <3>4 DEF HTTPRead
  <2>3. DOMAIN waiting = DOMAIN c /\ waiting.persistent = c.persistent
    BY <2>1, FlagKept DEF RegHost
  <2> HIDE DEF waiting
  <2>4. /\ \A b : [waiting EXCEPT !.rem = b, !.buf = FALSE].persistent = c.persistent
        /\ \A b : [c EXCEPT !.buf = b, !.rem = b].persistent = c.persistent
        /\ [c EXCEPT !.reg = {}].persistent = c.persistent
    BY <2>1, <2>3 DEF HostRec
  <2> QED BY <2>2, <2>3, <2>4, FlagsStay
<1> QED BY <1>1, <1>2, <1>3, <1>4

\* Whatever a step does to the objects, the flags and the counter stay as they are
\* unless it reads the header of a response or clears a channel.
LEMMA OthersKeepCount ==
    ASSUME TypeOK, [Next]_vars, ~ReadHeader, ~ClearChannel
    PROVE  SameFlags /\ UNCHANGED persistent
<1>1. UNCHANGED persistent
  BY OthersKeepPersistent
<1>2. CASE World
  <2>1. \/ UNCHANGED host
        \/ \E h \in Hosts : host' = [host EXCEPT ![h] = [host[h] EXCEPT !.timer = FALSE]]
        \/ \E h \in Hosts : host' = [host EXCEPT ![h] = [host[h] EXCEPT !.wtimer = FALSE]]
    BY <1>2 DEF World, NewRequest, NewClient, SocketReady, SocketTimeout, IdleTimeoutEvent,
                FlushEvent, Kill, KillPipe
  <2>2. \A h \in Hosts : /\ [host[h] EXCEPT !.timer = FALSE].persistent = host[h].persistent
                         /\ [host[h] EXCEPT !.wtimer = FALSE].persistent = host[h].persistent
    BY DEF TypeOK, HostRec
  <2> QED BY <1>1, <2>1, <2>2, FlagsStay
<1>3. CASE Run
  <2>1. CASE HTNet_delete
    <3> DEFINE h == net[Top.net].host
               types == {"READ", "WRITE"}
    <3>1. UNCHANGED host \/ host' = [host EXCEPT ![h] = UnregHost(host[h], net[Top.net], types)]
      BY <2>1 DEF HTNet_delete
    <3>2. h \in Hosts => UnregHost(host[h], net[Top.net], types).persistent = host[h].persistent
      BY FlagKept DEF TypeOK
    <3> QED BY <1>1, <3>1, <3>2, FlagsStay
  <2>2. CASE UnregisterNet \/ FreeNet \/ AfterFilters
    BY <1>1, <2>2, FlagsStay DEF UnregisterNet, FreeNet, AfterFilters, NewClient
  <2> QED BY <1>1, <1>3, <2>1, <2>2, HostKeepsFlags, ConnectKeepsFlags, TcpKeepsFlags,
             HttpKeepsFlags DEF Run
<1>4. CASE UNCHANGED vars
  BY <1>4, FlagsStay DEF vars
<1> QED BY <1>1, <1>2, <1>3, <1>4 DEF Next, Finished

\* A flag that is set joins the hosts that are counted, one that is reset leaves them.
LEMMA CountStep == CountInv /\ [Next]_vars => CountInv'
<1> SUFFICES ASSUME CountInv, [Next]_vars
             PROVE  /\ IsFiniteSet(PersistentHosts')
                    /\ persistent' = Cardinality(PersistentHosts')
  BY NextType DEF CountInv
<1> DEFINE P == PersistentHosts
<1>0. /\ TypeOK /\ IsFiniteSet(P) /\ persistent = Cardinality(P) /\ Cardinality(P) \in Nat
  BY FS_CardinalityType DEF CountInv
<1>1. CASE ReadHeader
  <2> DEFINE h == Reader
             c == HostWithHeaders(host[h], Server[h])
  <2>1. h \in Hosts /\ host[h] \in HostRec /\ Server[h] \in ServerKinds /\ c \in HostRec
    <3>1. h \in Hosts /\ host[h] \in HostRec /\ Server[h] \in ServerKinds
      BY <1>0, <1>1, ObjectUpdates, ConnAssumption DEF ReadHeader, CanRead, Reading, Reader
    <3> QED BY <3>1, HeadersType
  <2>2. \E b : host' = [host EXCEPT ![h] = [c EXCEPT !.closeNotif = b]]
    BY <1>1 DEF ReadHeader
  <2>3. persistent' = IF c.persistent /\ ~host[h].persistent THEN persistent + 1 ELSE persistent
    BY <1>1 DEF ReadHeader
  <2>4. host[h].persistent => c.persistent
    <3>1. ASSUME NEW mode \in Modes, host[h].persistent
          PROVE  MakePersistent(host[h], mode).persistent
      BY <2>1, <3>1 DEF MakePersistent, HostRec
    <3> QED BY <2>1, <3>1 DEF HostWithHeaders, ServerKinds, Modes
  <2> HIDE DEF c
  <2>5. \A b : [c EXCEPT !.closeNotif = b].persistent = c.persistent
    BY <2>1 DEF HostRec
  <2>6. PersistentHosts' = IF c.persistent THEN P \cup {h} ELSE P
    BY <1>0, <2>1, <2>2, <2>4, <2>5 DEF PersistentHosts, TypeOK
  <2>7. h \in P <=> host[h].persistent
    BY <2>1 DEF PersistentHosts
  <2> HIDE DEF P
  <2>8. /\ IsFiniteSet(P \cup {h})
        /\ Cardinality(P \cup {h}) = IF h \in P THEN Cardinality(P) ELSE Cardinality(P) + 1
    BY <1>0, FS_AddElement
  <2> QED BY <1>0, <2>3, <2>6, <2>7, <2>8
<1>2. CASE ClearChannel
  <2> DEFINE h == Top.host
             c == host[h]
  <2>1. h \in Hosts /\ c \in HostRec
    BY <1>0, <1>2 DEF ClearChannel, AtHost, TypeOK
  <2>2. CASE c.fd = NoFd
    BY <1>0, <1>2, <2>2 DEF ClearChannel, PersistentHosts
  <2>3. CASE c.fd # NoFd
    <3>1. /\ persistent' = IF c.persistent THEN Max0(persistent - 1) ELSE persistent
          /\ host' = [host EXCEPT ![h] = ClearedHost(c)]
      BY <1>2, <2>3 DEF ClearChannel
    <3>2. ~ClearedHost(c).persistent
      BY <2>1 DEF ClearedHost, HostRec
    <3>3. PersistentHosts' = P \ {h}
      BY <1>0, <2>1, <3>1, <3>2 DEF PersistentHosts, TypeOK
    <3>4. h \in P <=> c.persistent
      BY <2>1 DEF PersistentHosts
    <3> HIDE DEF P
    <3>5. /\ IsFiniteSet(P \ {h})
          /\ Cardinality(P \ {h}) = IF h \in P THEN Cardinality(P) - 1 ELSE Cardinality(P)
      BY <1>0, FS_RemoveElement
    <3>6. Cardinality(P \ {h}) \in Nat
      BY <3>5, FS_CardinalityType
    <3> QED BY <1>0, <3>1, <3>3, <3>4, <3>5, <3>6 DEF Max0
  <2> QED BY <2>2, <2>3
<1>3. CASE ~ReadHeader /\ ~ClearChannel
  <2>1. SameFlags /\ UNCHANGED persistent
    BY <1>0, <1>3, OthersKeepCount
  <2>2. PersistentHosts' = P
    BY <2>1 DEF PersistentHosts, SameFlags
  <2> QED BY <1>0, <2>1, <2>2
<1> QED BY <1>1, <1>2, <1>3

\* HTNet_increasePersistentSocket and HTNet_decreasePersistentSocket are called where
\* the flag of a host is set and reset and nowhere else: however connections come and
\* go, the counter of the Net manager is the number of hosts that are persistent.
THEOREM PersistentAreCounted == Spec => []PersistentCounted
<1>1. Init => CountInv
  <2> SUFFICES ASSUME Init
               PROVE  CountInv
    OBVIOUS
  <2>1. PersistentHosts = {} /\ persistent = 0
    BY DEF Init, ConnInit, NewHost, PersistentHosts
  <2> QED BY <2>1, InitType, FS_EmptySet DEF CountInv
<1>2. CountInv => PersistentCounted
  BY DEF CountInv, PersistentHosts, PersistentCounted
<1> QED BY <1>1, <1>2, CountStep, PTL DEF Spec
=============================================================================
