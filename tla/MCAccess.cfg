CONSTANTS
  Requests = {r1, r2}
  Instances = {i1, i2}
  Slugs <- TwoSlugs
  Grants <- AdminOrManage
  FirstDatabases <- EmptyOrEstablished
  MaxKey = 5
  NoKey = NoKey
  Seeded = Seeded
SPECIFICATION Spec
INVARIANTS
  TypeOK
  DeadStaysDead
  ExactTrail
  DeletedOnce
PROPERTIES
  KeepsAuthority
  CSFloatStands
SYMMETRY Symmetry
