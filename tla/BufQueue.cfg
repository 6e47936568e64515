SPECIFICATION Spec
CONSTANTS
    Packets = {p1, p2, p3}
    Null = null
    Size = 4
INVARIANT TypeOK
PROPERTY IsFifo
