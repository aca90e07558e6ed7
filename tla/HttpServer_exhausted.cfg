\* One client more than threadPool has elements, and a descriptor for each.
SPECIFICATION FairSpec
CONSTANTS
    a = a
    b = b
    d = d
    s = s
    t = t
    None = None
    HttpClients = {a, b, d}
    HttpsClients = {}
    Patient = {a, b, d}
    PoolSize = 2
    MaxFd = 3
    Backlog = 2
    Urls <- McOneUrl
    SlashUrls = {}
    IndexUrl <- McIndex
    HttpKinds <- McFull
    HttpsKinds <- McBare
    Loaded <- McLoaded
PROPERTIES
    PageServed
CHECK_DEADLOCK FALSE
