\* Three clients; files that they exhaust and one they do not, whose last block is short.
SPECIFICATION FairSpec
CONSTANTS
    c1 = c1
    c2 = c2
    c3 = c3
    None = None
    Clients = {c1, c2, c3}
    Options = {"zero", "other", "partial"}
    Blocks = {0, 1, 3}
    LastShort = TRUE
INVARIANTS
    TypeOK
    ValuesForOption
    
    StaleTail
PROPERTIES
    ClientsServed
CHECK_DEADLOCK FALSE
