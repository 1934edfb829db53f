\* Two HTTP/1.0 hosts share one socket.
CONSTANTS
    n1 = n1  n2 = n2  n3 = n3  h1 = h1  h2 = h2
    NoHost = NoHost  NoNet = NoNet
    Hosts = {h1, h2}
    Nets = {n1, n2}
    Fds <- TwoFds
    MaxActive = 1
    MaxPipes = 2
    MaxRecover = 1
    Server <- AllSimple
    Env = {"refused", "noName", "block"}
SPECIFICATION FairSpec
INVARIANTS
    ActiveCountsOpenSockets
    ActiveWithinMax
PROPERTIES
    RequestsEnd
