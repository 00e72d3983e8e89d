CONSTANTS
    Readers = {r1}
    Writers = {w1}
    Others = {}
    PcbMax = 3
    Ports = 4
    DataMax = 2
    FileLen = 5
    UploadLen = 5
    BlockMod = 8
    Retries = 1
    Lossy = TRUE
    Faults = {"args", "send"}
SPECIFICATION Spec
CHECK_DEADLOCK FALSE
INVARIANTS
    TypeOK
    NoOrphan
    DoneIsWhole
    ReadsInSequence
    UploadIntact
