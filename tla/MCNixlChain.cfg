SPECIFICATION FairSpec
CONSTANTS
    TrainerRanks = 2
    R = 3
    Size <- MCSizes
    BucketSize = 3
INVARIANTS BuffersStable
PROPERTIES ImplementsWeightStream EveryRankReturns
CHECK_DEADLOCK FALSE
