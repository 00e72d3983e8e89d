CONSTANTS
    N = 3
    Contexts = {"main", "isr"}
    Rereads = FALSE
    NoMod = 2
SPECIFICATION FairSpec
PROPERTIES
    EverySent
