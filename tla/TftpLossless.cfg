CONSTANTS
    Readers = {r1, r2}
    Writers = {w1}
    Others = {x1}
    PcbMax = 4
    Ports = 4
    DataMax = 2
    FileLen = 4
    UploadLen = 12
    BlockMod = 5
    Retries = 0
    Lossy = FALSE
    Faults = {}
SPECIFICATION FairSpec
CHECK_DEADLOCK FALSE
PROPERTIES
    TransfersComplete
    SessionsEnd
