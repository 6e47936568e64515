SPECIFICATION FairSpec
CONSTANTS
    Peers = {p1, p2}
    Self = self
    Other = other
    SeqMod = 3
    Stragglers = 1
INVARIANTS
    TypeOK
    StampOfTheRequest
    MixedAnswersNeedOvertaking
    MixedPeersNeedSecond
    UnsentRequestNotMeasured
    PathDelayOfOneMaster
PROPERTY PeerDelayMeasuredAgain
