SPECIFICATION Spec
CONSTANTS
    N = 3
    NumWorkers = 2
    LoopOf <- TwoAndOne
    W = 2
    MaxConcurrent = 1
    MaxAttempts = 2
    MaxPrmRetries = 2
    MaxChanges = 1
INVARIANTS CountsCoverRequests LossesBounded StepRaisesOnTimeouts
PROPERTIES EveryBatchEnds
CHECK_DEADLOCK FALSE
