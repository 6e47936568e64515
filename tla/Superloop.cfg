SPECIFICATION FairSpec
CONSTANTS
    LED = LED
    ADJ = ADJ
    LED_CallBack = LED
    List <- MCList
    Period <- MCPeriod
    receipt = receipt
    management = management
    Timers = {receipt, management}
    Intervals <- MCIntervals
    Wrap = 12
    WatchdogLimit = 9
    StepMax = 1
    PassMax = 1
    PendingMax = 2
INVARIANTS
    TypeOK
    Reckoning
    BitesOnlyInFlood
PROPERTIES
    ExpiresNotEarly
    TimersAsPromised
    EveryTaskRuns
