SPECIFICATION Spec
CONSTANTS
    Total = 6
    Required = 2
    Trigger = 1
    MaxRequired = 3
    MaxConcurrent = 2
    PendingCap = 2
    Partial = TRUE
    TestFreq = 2
    MaxFailures = 0
PROPERTIES InterruptedContinue
CHECK_DEADLOCK FALSE
