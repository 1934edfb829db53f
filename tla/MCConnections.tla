---------------------------- MODULE MCConnections ----------------------------
(***************************************************************************)
(* Small instances of HTConnections for TLC.                               *)
(***************************************************************************)
EXTENDS HTConnections, TLC

CONSTANTS n1, n2, n3, h1, h2

TwoFds == {1, 2}

AllPipelining == [h \in Hosts |-> "http11"]
AllSimple     == [h \in Hosts |-> "http10"]
AllKeepAlive  == [h \in Hosts |-> "keepalive"]

\* Nets are interchangeable; hosts are not, Server tells them apart.
Symmetry == Permutations(Nets)
=============================================================================
