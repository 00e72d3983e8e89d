CONSTANTS
    N = 5
    Contexts = {"isr"}
    Rereads = FALSE
    NoMod = 7
SPECIFICATION FairSpec
INVARIANTS
    TypeOK
    RingShape
    QueueIntact
    QueueInOrder
    NoLostResume
PROPERTIES
    EverySent
