\* Six urls that collide, two servlets, growth from 2 buckets to 32.
SPECIFICATION Spec
CONSTANTS
    Urls <- McUrls
    Servlets = {s1, s2}
    None = None
    Hash <- McHash
    InitSize = 2
    MaxSize = 32
INVARIANTS
    Placed
    OneNodeEach
    CountsNodes
PROPERTIES
    ImplementsTable
