CONSTANTS
    b1 = b1
    b2 = b2
    b3 = b3
    b4 = b4
    b5 = b5
    b6 = b6
    NULL = NULL
    Blocks <- MCBlocks
SPECIFICATION Spec
SYMMETRY Symmetry
INVARIANTS
    TypeOK
    PointersSound
    StartedIsUsable
PROPERTY LeaksOnlyWhenNotStarted
