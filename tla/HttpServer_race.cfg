\* Two HTTP clients whose urls are preloaded or not: who meets in the file map.
SPECIFICATION Spec
CONSTANTS
    a = a
    b = b
    d = d
    s = s
    t = t
    None = None
    HttpClients = {a, b}
    HttpsClients = {}
    Patient = {a, b}
    PoolSize = 2
    MaxFd = 2
    Backlog = 2
    Urls <- McTwoUrls
    SlashUrls = {}
    IndexUrl <- McIndex
    HttpKinds <- McFull
    HttpsKinds <- McBare
    Loaded <- McLoaded
INVARIANTS
    MapRaceFree
CHECK_DEADLOCK FALSE
