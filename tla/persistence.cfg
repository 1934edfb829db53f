\* Two hosts that keep connections alive, room for one persistent socket.
CONSTANTS
    n1 = n1  n2 = n2  n3 = n3  h1 = h1  h2 = h2
    NoHost = NoHost  NoNet = NoNet
    Hosts = {h1, h2}
    Nets = {n1, n2, n3}
    Fds <- TwoFds
    MaxActive = 3
    MaxPipes = 2
    MaxRecover = 1
    Server <- AllKeepAlive
    Env = {"idle", "cold", "peerClose", "refused"}
SPECIFICATION Spec
SYMMETRY Symmetry
INVARIANTS
    PersistLeavesTwo
    IdleTimerOnlyWhenIdle
