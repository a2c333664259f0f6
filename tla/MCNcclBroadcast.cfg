SPECIFICATION FairSpec
CONSTANTS
    R = 3
    Tensors = 7
    Size <- MCSizes
    BucketSize = 2
    Updates = 2
INVARIANTS MetadataOfBucket HandedIntact
PROPERTIES EveryUpdateEnds
CHECK_DEADLOCK FALSE
