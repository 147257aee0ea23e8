SPECIFICATION Spec
CONSTANTS
  g1 = g1
  g2 = g2
  Generators <- MCGenerators
  WorkerId <- AllZero
  ProcessId <- AllZero
  SequenceSpace = 3
  Epoch = 1
  MaxTime = 3
  MaxIssued = 4
INVARIANT
  UniqueAcrossGenerators
