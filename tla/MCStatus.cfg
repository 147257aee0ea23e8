SPECIFICATION Spec
CONSTANTS
  a1 = a1
  a2 = a2
  q1 = q1
  q2 = q2
  Accounts <- TwoAccounts
  Requests <- TwoRequests
  DaysAsked = {1, 2}
  DayLength = 2
  Epoch = 2
  Limits = {1, 2}
  MaxId = 3
  MaxTime = 3
INVARIANTS
  TypeOK
  EndpointsAgree
  LastReversalSound
  SearchesCounted
PROPERTIES
  DaysAddUp
SYMMETRY Symmetry
