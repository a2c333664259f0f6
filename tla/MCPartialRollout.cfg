SPECIFICATION Spec
CONSTANTS
    Total = 4
    Required = 1
    Trigger = 1
    MaxRequired = 2
    MaxConcurrent = 2
    PendingCap = 3
    Partial = TRUE
    TestFreq = 2
    MaxFailures = 1
INVARIANTS Conservation
CHECK_DEADLOCK FALSE
