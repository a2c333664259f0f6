SPECIFICATION Spec
CONSTANTS
    Rounds = 2
    MaxCrashes = 2
    MaxVersion = 2
INVARIANTS TrainedOnFreshData GpusFree EvaluationsJudged
PROPERTIES EveryRoundTrains
CHECK_DEADLOCK FALSE
