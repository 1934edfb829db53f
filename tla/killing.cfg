\* One HTTP/1.1 host, two requests: the application kills, streams fail.
CONSTANTS
    n1 = n1  n2 = n2  n3 = n3  h1 = h1  h2 = h2
    NoHost = NoHost  NoNet = NoNet
    Hosts = {h1}
    Nets = {n1, n2}
    Fds <- TwoFds
    MaxActive = 3
    MaxPipes = 2
    MaxRecover = 1
    Server <- AllPipelining
    Env = {"kill", "killPipe", "timeout", "writeError", "readError", "delay", "homes", "unreachable"}
SPECIFICATION Spec
SYMMETRY Symmetry
INVARIANTS
    TypeOK
    NoUseAfterFree
    SemaphoreCountsUsers
