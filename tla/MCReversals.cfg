SPECIFICATION Spec
CONSTANTS
  r1 = r1
  r2 = r2
  r3 = r3
  a1 = a1
  a2 = a2
  m1 = m1
  m2 = m2
  Nobody = Nobody
  Requests <- MCRequests
  Accounts <- MCAccounts
  Slugs <- MCSlugs
  Batches <- MCBatches
  Updates <- MCUpdates
  FirstRows <- MCFirstRows
  MaxId = 4
SYMMETRY Symmetry
INVARIANTS
  TypeOK
  AckedStands
  AuditTrail
  OwnerExpunges
  SourceConsistent
PROPERTIES
  KeepsRegistry
CHECK_DEADLOCK FALSE
