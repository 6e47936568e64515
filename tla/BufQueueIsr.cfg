SPECIFICATION Spec
CONSTANTS
    Packets = {p1, p2, p3, p4}
    Null = null
    Size = 3
    LinkIsr = TRUE
SYMMETRY Symmetry
INVARIANTS
    TypeOK
    OnlyTheseWindowsHarm
    CountNeverOverstates
