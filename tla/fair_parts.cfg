CONSTANTS
  r1 = r1
  r2 = r2
  r3 = r3
  Request = {r1, r2, r3}
  Size <- Sizes
  BatchSize = 2
  Peer = {n1}
  Turn = 72
  Tolerance = 4
  Window = 1
  Phases <- FewPhases
  MaxDrift = 3
  MaxOperations = 2
  a = a
  b = b
  c = c
  Payload = {p1, p2}
  SeenLimit = 4
  MaxClock = 1
  MaxPulses = 2
SPECIFICATION PartsSpec
CHECK_DEADLOCK FALSE
INVARIANTS TypeOK EventHasOnePlace PendingIsQueue ChainKeepsOrder AliveMeansAligned
PROPERTIES EventsSettle HealingShrinksError RecoveryEnds FloodEnds PulseReachesAll
