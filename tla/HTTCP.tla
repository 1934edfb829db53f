------------------------------- MODULE HTTCP -------------------------------
(***************************************************************************)
(* HTDoConnect of HTTCP.c: the machine that gets a Host a connected        *)
(* socket.  Its state is host->tcpstate, shared by all nets of the host;   *)
(* one action per case of its switch, looping on its frame until a case    *)
(* returns.                                                                *)
(***************************************************************************)
EXTENDS HTHost

\* The net that connects, its host, and that the machine is in state s.
N == Top.net
H == net[N].host
InTcp(s) == AtNet("HTDoConnect") /\ H \in Hosts /\ host[H].tcp = s

GoTo(s) == host' = [host EXCEPT ![H].tcp = s]
Done(r) == ret' = r /\ Return
Loop    == UNCHANGED <<ret, stack>>

NoIO == UNCHANGED <<active, persistent, openFd, wire>>

TcpBegin ==
    /\ InTcp("BEGIN")
    /\ host' = [host EXCEPT ![H] = [AddNetHost(@, N) EXCEPT !.tcp = "CHANNEL"]]
    /\ pendHost' = AddNetPendHost(host[H], H)
    /\ IF AddsToPipe(host[H], N) THEN Loop ELSE Done("PENDING")
    /\ NoIO /\ UNCHANGED <<net, ev>>

TcpChannel ==
    /\ InTcp("CHANNEL")
    /\ IF host[H].fd = NoFd
       THEN GoTo("DNS")
       ELSE host' = [host EXCEPT ![H].sem = @ + 1, ![H].tcp = "CONNECTED"]
    /\ Loop /\ NoIO /\ UNCHANGED <<net, pendHost, ev>>

\* HTParseInet: the number of homes of the host, or an error.
TcpDns ==
    /\ InTcp("DNS")
    /\ \/ "noName" \in Env /\ GoTo("DNS_ERROR")
       \/ \E homes \in IF "homes" \in Env THEN {1, 2} ELSE {1} :
             host' = [host EXCEPT
                 ![H].retry = IF @ = 0 /\ homes > 1 THEN homes ELSE @,
                 ![H].tcp = "NEED_SOCKET"]
    /\ Loop /\ NoIO /\ UNCHANGED <<net, pendHost, ev>>

\* socket() gives the lowest descriptor that is free.
FreeFd == Fds \ openFd

TcpNoSocket ==
    /\ InTcp("NEED_SOCKET")
    /\ FreeFd = {} \/ "noSocket" \in Env
    /\ GoTo("ERROR")
    /\ Loop /\ NoIO /\ UNCHANGED <<net, pendHost, ev>>

TcpNeedSocket ==
    /\ InTcp("NEED_SOCKET")
    /\ \E fd \in FreeFd :
          /\ \A f \in FreeFd : fd <= f
          /\ openFd' = openFd \cup {fd}
          /\ wire' = [wire EXCEPT ![fd] = <<>>]
          /\ host' = [host EXCEPT ![H] =
                [@ EXCEPT !.fd = fd, !.sem = 1, !.buf = FALSE, !.out = 0,
                          !.wtimer = FALSE, !.tcp = "NEED_CONNECT"]]
    /\ active' = active + 1
    /\ Loop /\ UNCHANGED <<net, pendHost, persistent, ev>>

\* connect() succeeds at once, reports that it has (EISCONN), or fails.
TcpConnected ==
    /\ InTcp("NEED_CONNECT")
    /\ \/ GoTo("CONNECTED")
       \/ Env \cap {"refused", "unreachable"} # {} /\ GoTo("ERROR")
    /\ Loop /\ NoIO /\ UNCHANGED <<net, pendHost, ev>>

TcpWouldBlock ==
    /\ InTcp("NEED_CONNECT")
    /\ net' = [net EXCEPT ![N] = RegNet(@, "CONNECT")]
    /\ host' = [host EXCEPT ![H] = RegHost(@, net[N], "CONNECT")]
    /\ ev' = RegEv(H, net[N], "CONNECT")
    /\ Done("WOULD_BLOCK")
    /\ NoIO /\ UNCHANGED pendHost

TcpUse ==
    /\ InTcp("CONNECTED")
    /\ net' = [net EXCEPT ![N] = UnregNet(@, {"CONNECT"})]
    /\ host' = [host EXCEPT ![H] =
          [UnregHost(@, net[N], {"CONNECT"}) EXCEPT !.retry = 0, !.tcp = "IN_USE"]]
    /\ ev' = UnregEv(H, N, {"CONNECT"})
    /\ Done("OK")
    /\ NoIO /\ UNCHANGED pendHost

TcpInUse ==
    /\ InTcp("IN_USE")
    /\ LET c == AddNetHost(host[H], N)
           ok == AddsToPipe(host[H], N)
       IN  /\ host' = [host EXCEPT ![H] =
                 IF ok /\ c.fd # NoFd THEN [c EXCEPT !.sem = c.sem + 1] ELSE c]
           /\ Done(IF ok THEN "OK" ELSE "PENDING")
    /\ pendHost' = AddNetPendHost(host[H], H)
    /\ NoIO /\ UNCHANGED <<net, ev>>

TcpDnsError ==
    /\ InTcp("DNS_ERROR")
    /\ host' = [host EXCEPT ![H].retry = 0, ![H].tcp = "BEGIN"]
    /\ Done("NO_HOST")
    /\ NoIO /\ UNCHANGED <<net, pendHost, ev>>

\* The socket is closed, without HTNet_decreaseSocket and without giving up
\* the channel; then the next home is tried if the last was unreachable.
TcpError ==
    /\ InTcp("ERROR")
    /\ openFd' = openFd \ {host[H].fd}
    /\ LET retry == Max0(host[H].retry - 1)
       IN  \/ /\ retry > 0 /\ "unreachable" \in Env
              /\ host' = [host EXCEPT ![H].retry = retry, ![H].tcp = "DNS"]
              /\ Loop
           \/ /\ host' = [host EXCEPT ![H].retry = 0, ![H].tcp = "BEGIN"]
              /\ Done("ERROR")
    /\ UNCHANGED <<net, pendHost, active, persistent, ev, wire>>

HTDoConnect ==
    \/ TcpBegin \/ TcpChannel \/ TcpDns \/ TcpNoSocket \/ TcpNeedSocket
    \/ TcpConnected \/ TcpWouldBlock \/ TcpUse \/ TcpInUse \/ TcpDnsError
    \/ TcpError
=============================================================================
