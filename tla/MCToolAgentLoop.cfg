SPECIFICATION Spec
CONSTANTS
    t1 = t1
    Trajectories = {t1}
    ResponseLength = 4
    MaxAssistantTurns = 0
    MaxUserTurns = 1
    Interaction = TRUE
    MaxLength = 6
    MaxVersion = 2
INVARIANTS OutputsMatch VersionsRecorded
PROPERTIES CallsSeen PauseEnds ImplementsAgentTurns
CHECK_DEADLOCK FALSE
