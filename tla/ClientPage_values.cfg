SPECIFICATION PageSpec
CONSTANTS
    Templates <- McTemplates
    StdioSize = 4096
    Values = 3
    Addresses = 2
    VarLength = 9
    PlacesSize = 12
    Width = 2
    Groups = 3
    Bits = 16
    IntBits = 6
    Prec = 1
    Places = 2
    DigPrec = 4
    DigMax = 6
    Signed <- McSigned
    Unsigned <- McUnsigned
    Doubles <- McDoubles
    Sizeof <- McSizeof
    Usual <- McUsual
    Others <- McOthers
    Astray <- McAstray
    Probe <- McProbe
    Wide <- McWide
INVARIANTS
    PageTypeOK
    LengthsFirst
    PageMerged
    TextsFirst
    SplittersAgree
    IntegersRight
    DoublesRight
    ValuesShown
PROPERTIES
    MergeFinishes
CHECK_DEADLOCK FALSE
