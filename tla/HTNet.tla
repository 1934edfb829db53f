------------------------------- MODULE HTNet -------------------------------
(***************************************************************************)
(* The Net manager (HTNet.c): a Net object is created for a request, and   *)
(* deleted by its protocol module, which gives the Host a chance to launch *)
(* what is pending and then calls the AFTER filters of the application.    *)
(***************************************************************************)
EXTENDS HTTCP

\* HTNet_newClient for a request to host h, and HTLoadHTTP.
NewClient(n, h) ==
    /\ net[n].life = "new"
    /\ net' = [net EXCEPT ![n].life = "live", ![n].to = h]
    /\ UNCHANGED <<host, pendHost, active, persistent, openFd, ev, wire, ret>>

HTNet_delete ==
    /\ AtNet("HTNet_delete")
    /\ LET n == Top.net
           h == net[n].host
           types == {"READ", "WRITE"}
           deleteNet == NetEv("HTHost_deleteNet", n, Top.type)
       IN  IF h = NoHost
           THEN /\ Call(<<NetFn("unregister_net", n)>>)
                /\ UNCHANGED <<host, net, ev>>
           ELSE /\ net' = [net EXCEPT ![n] = UnregNet(@, types)]
                /\ host' = [host EXCEPT ![h] = UnregHost(@, net[n], types)]
                /\ ev' = UnregEv(h, n, types)
                /\ IF In(n, host[h].pipeline)
                   THEN Call(<<Fn("HTHost_free", NoNet, h, Top.type), deleteNet>>)
                   ELSE Call(<<deleteNet>>)
    /\ UNCHANGED <<pendHost, active, persistent, openFd, wire, ret>>

\* Mutant: no check_pending.
UnregisterNetOnly ==
    /\ AtNet("unregister_net")
    /\ Call(<<NetFn("free_net", Top.net)>>)
    /\ UNCHANGED <<host, net, pendHost, active, persistent, openFd, ev, wire, ret>>

\* unregister_net: check_pending launches for the host of the net.
UnregisterNet ==
    /\ AtNet("unregister_net")
    /\ LET n == Top.net
           h == net[n].host
       IN  IF h = NoHost
           THEN Call(<<NetFn("free_net", n)>>)
           ELSE Call(<<HostFn("launchPending", h), NetFn("free_net", n)>>)
    /\ UNCHANGED <<host, net, pendHost, active, persistent, openFd, ev, wire, ret>>

FreeNet ==
    /\ AtNet("free_net")
    /\ net' = [net EXCEPT ![Top.net].life = "freed"]
    /\ Call(<<HostFn("AfterFilters", NoHost)>>)
    /\ UNCHANGED <<host, pendHost, active, persistent, openFd, ev, wire, ret>>

\* HTNet_executeAfterAll: the application may start another request there.
AfterFilters ==
    /\ At("AfterFilters")
    /\ \/ /\ Return
          /\ UNCHANGED <<host, net, pendHost, active, persistent, openFd, ev,
                         wire, ret>>
       \/ /\ "restart" \in Env
          /\ \E n \in Nets, h \in Hosts :
                NewClient(n, h) /\ Call(<<NetEv("HTTPEvent", n, "BEGIN")>>)
=============================================================================
