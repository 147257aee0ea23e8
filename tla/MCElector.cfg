SPECIFICATION ElectorSpec
CONSTANTS
  i1 = i1
  i2 = i2
  i3 = i3
  Free = Free
  Orphan = Orphan
  Instances <- ThreeInstances
  MaxFaults = 1
  MaxLosses = 1
  MaxCrashes = 1
INVARIANTS
  ElectorTypeOK
  ExclusiveWork
PROPERTIES
  LeadershipSpec
  Progress
CHECK_DEADLOCK FALSE
