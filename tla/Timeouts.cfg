CONSTANTS
    Periodic = {"fine", "reass", "arp"}
    OneShot = {"app1", "app2"}
    Programs <- MCPrograms
    Msecs <- MCMsecs
    PoolSize = 4
    MaxLag = 3
    TimeMod = 11
    Horizon = 16
SPECIFICATION HistorySpec
CHECK_DEADLOCK FALSE
INVARIANTS
    TypeOK
    KeepsTime
PROPERTIES
    ImplementsService
    KeepsFiring
