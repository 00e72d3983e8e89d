CONSTANTS
    Struct = {s1, s2, s3}
    Null = Null
    MaxPbufs = 3
    MaxAge = 1
    Datagrams = {a}
    Length = 4
    Frags <- OneCut
SPECIFICATION Spec
SYMMETRY Symmetry
CHECK_DEADLOCK FALSE
INVARIANTS
    OutWhole
