\* Clients on both ports that send anything, shut their side and leave; two HTTPS
\* clients, one of whom may get what is left of the other's request.
SPECIFICATION FairSpec
CONSTANTS
    a = a
    b = b
    d = d
    s = s
    t = t
    None = None
    HttpClients = {a}
    HttpsClients = {s, t}
    Patient = {}
    PoolSize = 1
    MaxFd = 3
    Backlog = 1
    Urls <- McOneUrl
    SlashUrls = {}
    IndexUrl <- McIndex
    HttpKinds <- McTwo
    HttpsKinds <- McBare
    Loaded <- McLoaded
INVARIANTS
    RightReply
PROPERTIES
    ImplementsService
    ConnectionsEnd
CHECK_DEADLOCK FALSE
