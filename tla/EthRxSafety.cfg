CONSTANTS
    N = 3
    PoolSize = 2
    FifoCap = 1
    MaxBurst = 2
    IdMod = 5
SPECIFICATION FairSpec
INVARIANTS
    TypeOK
    RingShape
    CopiesNextFrame
    NoLostResume
    PoolConserved
PROPERTIES
    TakenUnderTraffic
