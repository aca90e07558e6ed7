\* Texts of up to six blocks, and numbers whose length in bytes is no int.
SPECIFICATION Spec
CONSTANTS
    Numbers <- McNumbers
    Count = 2
    TextLen = 43
    Room = 128
    Stack = 200
    IntMax = 127
INVARIANTS
    TypeOK
    InBounds
    RoundTrip
CHECK_DEADLOCK FALSE
