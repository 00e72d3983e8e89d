CONSTANTS
    Struct = {s1, s2, s3}
    Null = Null
    MaxPbufs = 3
    MaxAge = 1
    Datagrams = {a, b, c, d}
    Length = 4
    Frags <- TwoCuts
SPECIFICATION Spec
SYMMETRY Symmetry
CHECK_DEADLOCK FALSE
INVARIANTS
    TypeOK
    CountExact
    OneStructEach
    OutOrdered
PROPERTIES
    DamageBounded
