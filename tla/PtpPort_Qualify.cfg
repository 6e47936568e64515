SPECIFICATION QualifyingSpec
CONSTANTS
    Masters = {m1}
    Self = self
    SeqIds = {0}
    DelayMechanism = "P2P"
    LowClockClasses = {FALSE}
PROPERTY QualificationEnds
