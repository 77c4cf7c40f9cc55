CONSTANTS
  Size = 4
  Circle = 8
  Unit = 17
  Cos <- CosOf
  Moves <- FewMoves
  Starts <- FewStarts
  Shapes = {"complete", "ring", "star", "sparse", "small_world"}
  Extra = 0
  Degree = 1
  StartGain <- Two
  MinGain <- One
  MaxGain <- Three
  LoopGain <- One
  SupervisorMin <- One
  SupervisorMax <- Three
  SupervisorUp <- One
  SupervisorDown <- One
  Enough = 2
  LoopSteps = 2
  Interval = 1
  SimSteps = 1
  RunSteps = 2
  Settle = 0
  Limits = {1, 2}
  MaxCalls = 1
SPECIFICATION Spec
CHECK_DEADLOCK FALSE
PROPERTIES ImprovementIsApplied
