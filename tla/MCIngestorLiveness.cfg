SPECIFICATION Spec
CONSTANTS
  i1 = i1
  i2 = i2
  a1 = a1
  a2 = a2
  a3 = a3
  Free = Free
  Orphan = Orphan
  Instances <- TwoInstances
  Accounts <- ThreeAccounts
  NWarnings = 4
  AccountOf <- FeedTwins
  Poison <- PoisonLast
  PageLimit = 2
  MaxFaults = 1
  MaxLosses = 0
  MaxCrashes = 1
  MaxApiReports = 0
  MaxRemovals = 0
  MaxCollisions = 0
PROPERTIES
  Delivered
  StopEnds
CHECK_DEADLOCK FALSE
