SPECIFICATION Spec
CONSTANTS
    Total = 7
    Required = 2
    Trigger = 2
    MaxRequired = 4
    MaxConcurrent = 3
    PendingCap = 2
    Partial = FALSE
    TestFreq = 2
    MaxFailures = 1
INVARIANTS SynchronousAtZero
PROPERTIES ImplementsSampleFlow
CHECK_DEADLOCK FALSE
