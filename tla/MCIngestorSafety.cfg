SPECIFICATION Spec
CONSTANTS
  i1 = i1
  i2 = i2
  a1 = a1
  a2 = a2
  a3 = a3
  Free = Free
  Orphan = Orphan
  Instances <- TwoInstances
  Accounts <- TwoAccounts
  NWarnings = 3
  AccountOf <- FeedAlternating
  Poison <- NoPoison
  PageLimit = 2
  MaxFaults = 1
  MaxLosses = 1
  MaxCrashes = 0
  MaxApiReports = 1
  MaxRemovals = 1
  MaxCollisions = 1
INVARIANTS
  TypeOK
  NothingMissed
PROPERTIES
  InsertsAtTip
  DeliversInOrder
SYMMETRY Symmetry
CHECK_DEADLOCK FALSE
