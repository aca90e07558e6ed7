\* A readable tree of two levels.
SPECIFICATION SiteSpec
CONSTANTS
    None = None
    Start <- McStart
    Root = "htdocs"
    Names = {"srv", "htdocs", "a", "b", "c", "f", "index.html"}
    Trees <- TwoLevels
    BufferSize = 15
    Frames <- McFrames
    Messages <- McMessages
    Served = {}
    Index = "index.html"
    MaxRequests = 0
INVARIANTS
    LoadsEveryFile
CHECK_DEADLOCK FALSE
