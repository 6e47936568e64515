SPECIFICATION Spec
CONSTANTS
    Packets = {p1, p2, p3}
    Null = null
    Size = 2
    LinkIsr = FALSE
SYMMETRY Symmetry
INVARIANT UsesLivePacket
