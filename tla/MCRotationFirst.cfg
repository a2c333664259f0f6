SPECIFICATION Spec
CONSTANTS
    r1 = r1
    r2 = r2
    Ranks = {r1, r2}
    Groups <- ActorOnly
    Keep <- KeepOne
    T = 4
    SaveFreq = 2
    MaxCrashes = 2
INVARIANTS RestartPointIntact
CHECK_DEADLOCK FALSE
