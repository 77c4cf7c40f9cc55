CONSTANTS
  Size = 4
  Circle = 8
  Unit = 17
  Cos <- CosOf
  Moves <- FewMoves
  Starts <- FewStarts
  Shapes = {"complete", "ring", "star", "sparse", "small_world"}
  Extra = 0
  Degree = 1
  StartGain <- Two
  MinGain <- One
  MaxGain <- Three
  LoopGain <- One
  SupervisorMin <- One
  SupervisorMax <- Three
  SupervisorUp <- One
  SupervisorDown <- One
  Enough = 2
  LoopSteps = 2
  Interval = 1
  SimSteps = 1
  RunSteps = 2
  Settle = 0
  Limits = {1, 2}
  MaxCalls = 2
  Stations = 4
  Quarters = 3
  Beta = 5
  Delays = {0, 7}
  Ends <- OneEnd
  Parallel = {{0, 1}}
  Most = 2
  Scale = 60
  Far = 10000
  Peer = {n1, n2}
  Turn = 3
  Tolerance = 0
  Window = 1
  Phases <- TwoPhases
  MaxDrift = 1
  MaxOperations = 3
  Peers <- FullMesh
  SeenLimit = 6
  Lossy = TRUE
  MaxClock = 2
  MaxPulses = 2
  Mutation = {m1, m2}
  State <- FewStates
  Adaptability = {830, 930}
  MaxCycles = 3
  Star = {10, 30, 58}
  NoStar = NoStar
  Scores = {690, 900}
  MaxHistory = 3
  Clusterings <- TwoClusterings
  MaxMemory = 5
  Energy <- Bands
  Overshoot = 25000000
  MaxLength = 5
  MaxSteps = 2
  Shocks = {2, 4}
  MaxHealing = 6
SPECIFICATION PartsSpec
SYMMETRY Symmetric
CHECK_DEADLOCK FALSE
INVARIANTS TypeOK NetworkTypeOK NothingDangles GainsAreDeclared RouteIsOptimal ReleasesAreRecorded AttractorsAreFresh
PROPERTIES DeadReturnsOnlyByPulse GuardFollowsEnergy RepairNeverHarms
