CONSTANTS
  Node = {n1, n2}
  Circle = 3
  Tolerance = 0
  Window = 1
  Phases <- FewPhases
  MaxDrift = 1
  MaxOperations = 5
  Peers <- FullMesh
  SeenLimit = 6
  Lossy = TRUE
  MaxClock = 2
  MaxPulses = 2
SPECIFICATION Spec
SYMMETRY Permuted
CHECK_DEADLOCK FALSE
PROPERTIES RecoveryIsAlignment
