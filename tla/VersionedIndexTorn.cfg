CONSTANTS
  i1 = i1
  i2 = i2
  Ids <- MCIds
  CheckpointEvery = 2
  Faults = {"torn"}
  FailingSteps = {}
  MaxLog = 3
  MaxVersion = 2
SPECIFICATION Spec
SYMMETRY MCSymmetry
INVARIANTS
  Durable
