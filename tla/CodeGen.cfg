CONSTANTS
  Block <- MCBlock
  Set3 <- MCSet3
  Slice <- MCSlice
  S1 = 2
  S2 = 8
  SL = 2
  Or <- MCOr
  Leader <- MCLeader
  L1Pool <- MCL1Pool
  L2Pool <- MCL2Pool
  Targets <- MCTargets
  Thrash <- MCThrash
  EV1 = 1
  EV2 = 1
  MARGIN = 3
  EvictSize = 2
  CodeAreas <- MCCodeAreas
  Limit = 22
  AskMax = 2
  Id <- MCId
  Queries <- MCQueries
  Confs <- MCConfs
  Ways = 2
SPECIFICATION Spec
INVARIANTS TypeOK NamesAreBlocks AsksCounted MeasuresQuery CalibrationMeasures
