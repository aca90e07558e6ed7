\* Clients on both ports that send anything and leave at any time; one element in threadPool.
SPECIFICATION Spec
CONSTANTS
    a = a
    b = b
    d = d
    s = s
    t = t
    None = None
    HttpClients = {a, b}
    HttpsClients = {s}
    Patient = {}
    PoolSize = 1
    MaxFd = 2
    Backlog = 1
    Urls <- McOneUrl
    SlashUrls = {}
    IndexUrl <- McIndex
    HttpKinds <- McTwo
    HttpsKinds <- McTwo
    Loaded <- McLoaded
INVARIANTS
    TypeOK
    FdOwnership
    DescriptorsAccounted
    PagesSafe
CHECK_DEADLOCK FALSE
