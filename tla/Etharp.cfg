CONSTANTS
    Size = 2
    IPs = {"a", "b", "c"}
    Cards <- MCCards
    Packets = {"p", "q", "r"}
    MaxAge = 2
    Rerequest = 1
    MaxPending = 2
SPECIFICATION FairSpec
CHECK_DEADLOCK FALSE
INVARIANTS
    TypeOK
    OneEntryEach
    KeptByPending
    CopiesExact
    
PROPERTIES
    WaitEnds
