SPECIFICATION Spec
CONSTANTS
  i1 = i1
  i2 = i2
  r1 = r1
  Free = Free
  Orphan = Orphan
  Instances <- TwoInstances
  Requests <- OneRequest
  HeaderTimeout = 2
  WriteTimeout = 1
  DrainLimit = 3
  MaxFaults = 0
  MaxLosses = 0
  MaxCrashes = 1
INVARIANTS
  TypeOK
  DatabasesReady
PROPERTIES
  AnswerableNotCut
  SignalEnds
  WorkGoesOn
