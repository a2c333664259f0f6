SPECIFICATION SpecData
CONSTANTS
  MaxIter = 4
  MaxImgs = 1
INVARIANTS
  PromptWellFormed
  InstructionKept
  StepsFollowIterations
  ImagesAligned
  TrainedTrajectoriesSound
  OneTaskStopsRound
PROPERTIES
  Terminates
CHECK_DEADLOCK FALSE
