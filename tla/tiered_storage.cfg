CONSTANTS
  Key = {k1, k2}
  v1 = v1
  v2 = v2
  Vector = {v1, v2}
  NoVector = NoVector
  TargetL <- Targets
  InitialL = {2}
  MaxCalls = 3
SPECIFICATION FairSpec
INVARIANTS TypeOK MigrationsArePaidFor
PROPERTIES VectorIsLastStored EveryRecordCools
