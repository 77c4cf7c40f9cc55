CONSTANTS
  Node = {n1, n2, n3}
  Circle = 8
  Pattern <- ShortPattern
  MinNodes = 3
  Geometries = {1000}
  Reports = {0, 2}
  Rounds <- AllNodes
  MaxReadings = 3
  MaxSignatures = 1
SPECIFICATION Spec
SYMMETRY Permuted
INVARIANTS TypeOK CredibilityIsEarned ConsensusIsMajority
PROPERTIES ApprovalIsEarned
