CONSTANTS
    Readers = {r1}
    Writers = {}
    Others = {}
    PcbMax = 2
    Ports = 2
    DataMax = 2
    FileLen = 5
    UploadLen = 3
    BlockMod = 8
    Retries = 0
    Lossy = FALSE
    Faults = {}
SPECIFICATION Spec
CHECK_DEADLOCK FALSE
PROPERTIES
    ResendsCurrent
