\* Patient clients on both ports, with a pool slot and a descriptor for each.
SPECIFICATION FairSpec
CONSTANTS
    a = a
    b = b
    d = d
    s = s
    t = t
    None = None
    HttpClients = {a, b}
    HttpsClients = {s}
    Patient = {a, b, s}
    PoolSize = 2
    MaxFd = 3
    Backlog = 2
    Urls <- McPages
    SlashUrls <- McSlash
    IndexUrl <- McIndex
    HttpKinds <- McFull
    HttpsKinds <- McBare
    Loaded <- McLoaded
INVARIANTS
    HandlesKept
PROPERTIES
    PageServed
CHECK_DEADLOCK FALSE
