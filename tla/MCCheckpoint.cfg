SPECIFICATION Spec
CONSTANTS
    r1 = r1
    r2 = r2
    Ranks = {r1, r2}
    Groups <- ActorCritic
    Keep <- KeepTwoThree
    T = 5
    SaveFreq = 2
    MaxCrashes = 2
INVARIANTS TypeOK RestartPointIntact RestartPointOfOneAttempt
PROPERTIES RotationKeepsNewer TrainingEnds ImplementsDurableProgress
CHECK_DEADLOCK FALSE
