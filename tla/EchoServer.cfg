CONSTANTS
    Lens <- MCLens
    SndBuf = 2
    Wnd = 4
SPECIFICATION FairSpec
CHECK_DEADLOCK FALSE
INVARIANTS
    TypeOK
    EchoInOrder
    RefsRight
    ClosesWhole
PROPERTIES
    EchoedInTheEnd
    ClosedInTheEnd
