SPECIFICATION Spec
CONSTANTS
    Announces <- MCAnnounces
    Own <- MCOwn
    Capacity = 3
    Classes = {"low", "default", "slaveOnly"}
INVARIANTS
    TypeOK
    NoEmptyRecordUsed
    DistinctSenders
PROPERTIES
    AnnouncedTakesPart
    ChoosesAsPromised
