\* Values that fit their reserve and values that do not, and buffers small enough to grow.
SPECIFICATION CspSpec
CONSTANTS
    Types = {"int", "long long", "float", "double"}
    Reserves <- McReserves
    Prints <- McPrints
    Texts = {0, 1, 7}
    Counts = {0, 1, 3}
    Seps = {0, 2}
    InitSizes = {1, 2, 11, 16}
    InitTexts = {}
    MaxLength = 36
    Names = {"a", "b", "x"}
    Given <- McGiven
    Bases <- McBases
    NoFile = NoFile
    Rounds <- McRounds
    DefaultSize = 16
    Width <- McWidth
INVARIANTS
    CspTypeOK
    InBounds
    NothingHidden
    PageCompiled
    PagePrinted
PROPERTIES
    CompilationEnds
CHECK_DEADLOCK FALSE
