\* One HTTP/1.1 host, three requests: connecting fails and the server closes.
CONSTANTS
    n1 = n1  n2 = n2  n3 = n3  h1 = h1  h2 = h2
    NoHost = NoHost  NoNet = NoNet
    Hosts = {h1}
    Nets = {n1, n2, n3}
    Fds <- TwoFds
    MaxActive = 3
    MaxPipes = 2
    MaxRecover = 1
    Server <- AllPipelining
    Env = {"refused", "noName", "noSocket", "peerClose", "closeNotif", "idle"}
SPECIFICATION Spec
SYMMETRY Symmetry
INVARIANTS
    QueuedOnce
    NoRequestForgotten
    EventsCurrent
    WrittenHasChannel
    PipelineIsAwaited
