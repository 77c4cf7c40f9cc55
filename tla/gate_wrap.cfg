CONSTANTS
  Node = {n1, n2, n3}
  Circle = 101
  Pattern <- TwoThree
  MinNodes = 3
  Geometries = {950}
  Reports = {0, 1}
  Rounds <- AllNodes
  MaxReadings = 0
  MaxSignatures = 0
SPECIFICATION UniformSpec
PROPERTIES UniformDriftKeepsConsensus
