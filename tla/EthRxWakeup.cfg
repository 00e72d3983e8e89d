CONSTANTS
    N = 3
    PoolSize = 1
    FifoCap = 1
    MaxBurst = 2
    IdMod = 2
SPECIFICATION FairSpec
PROPERTIES
    TakenWhenReady
