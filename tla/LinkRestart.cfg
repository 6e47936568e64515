SPECIFICATION LinkSpec
CONSTANTS
    Masters = {m1, m2}
    Self = self
    SeqIds = {0}
    DelayMechanism = "E2E"
    LowClockClasses = {FALSE, TRUE}
SYMMETRY Symmetry
INVARIANTS
    OnlyTornRestartStrands
    SlaveOnlyNeverServes
    ParentMatchesRole
PROPERTY ChoosesAsPromised
