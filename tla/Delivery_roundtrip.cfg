CONSTANTS
    a = a
    b = b
    Jobs = {a, b}
    ErpJobs = {a}
    QueueMaxSize = 1
    SendCapacity = 2
    MaxBreaks = 1
    MaxLapses = 1
SPECIFICATION Spec
INVARIANTS
    ReprintNeedsAmnesia
    SilenceIsExplained
PROPERTIES
    EveryJobAnswered
