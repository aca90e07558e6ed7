\* Plain trees, trees of two levels some of whose directories are closed, and requests
\* for two of the plain ones.
SPECIFICATION SiteSpec
CONSTANTS
    None = None
    Start <- McStart
    Root = "htdocs"
    Names = {"srv", "htdocs", "a", "b", "c", "f", "index.html"}
    Trees <- McTrees
    BufferSize = 15
    Frames <- McFrames
    Messages <- McMessages
    Served <- McServed
    Index = "index.html"
    MaxRequests = 2
INVARIANTS
    SiteTypeOK
    PlainTreesLoaded
    RequestAnswered
PROPERTIES
    LoadingEnds
CHECK_DEADLOCK FALSE
