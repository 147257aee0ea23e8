CONSTANTS
  Clients = {c1}
  Accounts = {a1, a2}
  Slugs = {csfloat, market}
  Any = Any
  Endpoints <- ListAndExport
  DefaultLimit <- SmallDefault
  MaxLimit <- SmallMax
  LimitsAsked <- NoneTwoOrFour
  MaxId = 3
SPECIFICATION Spec
INVARIANTS
  TypeOK
  PagesDescend
  NothingSkipped
PROPERTY WalkEnds
CHECK_DEADLOCK FALSE
