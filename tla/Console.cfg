SPECIFICATION Spec
SYMMETRY Symmetry
CONSTANTS
    ReceiveMax = 3
    StateMod = 2
    TableSize = 2
    Slaves = {s1, s2, s3}
    Unset = unset
    Offsets = {1, 2}
INVARIANTS
    TypeOK
    LineAsSent
    NothingLeftBehind
    EntriesAreLastReports
    OutsideNeedsOneTooMany
