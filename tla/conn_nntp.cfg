CONSTANTS
    c1 = c1  c2 = c2  c3 = c3
    d1 = d1  d2 = d2
    a1 = a1  b1 = b1  file = file
    hostA = hostA  hostB = hostB
    NoConn = NoConn  NoUri = NoUri  NoHost = NoHost
    Conns = {c1, c2, c3}
    Downloads = {d1, d2}
    Uris = {a1, file}
    Hosts = {hostA}
    HostOf <- HostAndFile
    PostUris = {}
    QuitUris = {a1}
    MaxConns = 1
    MaxConnsToHost = 1
    Retries = 2
    MaxKeepalive = 1
    PRI_CANCEL = 1
    MaxOrphaned = 1
SPECIFICATION FairSpec
INVARIANTS
    SocketBudget
PROPERTIES
    DownloadsServed
    CheckQueueTerminates
