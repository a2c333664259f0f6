SPECIFICATION Spec
CONSTANTS
    Total = 5
    Required = 1
    Trigger = 1
    MaxRequired = 2
    MaxConcurrent = 2
    PendingCap = 3
    Partial = FALSE
    TestFreq = 2
    MaxFailures = 1
INVARIANTS UnderWayBounded NoLostWakeup StalenessBounded ProcessorOrderly
PROPERTIES TrainerEnds
CHECK_DEADLOCK FALSE
