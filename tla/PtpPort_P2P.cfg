SPECIFICATION FairSpec
CONSTANTS
    Masters = {m1, m2}
    Self = self
    SeqIds = {0}
    DelayMechanism = "P2P"
    LowClockClasses = {FALSE, TRUE}
INVARIANTS
    TypeOK
    TimersMatchState
    RecommendationSound
    FollowUpAwaitedOnlyWhileFollowing
PROPERTIES
    NewMasterUncalibrates
    SilentMasterAbandoned
    ListenerDecides
