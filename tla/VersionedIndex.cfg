CONSTANTS
  i1 = i1
  i2 = i2
  Ids <- MCIds
  CheckpointEvery = 2
  Faults = {"torn", "open", "whole"}
  FailingSteps = {"write", "commit", "prune"}
  MaxLog = 3
  MaxVersion = 3
SPECIFICATION Spec
SYMMETRY MCSymmetry
INVARIANTS
  TypeOK
  DurableWhileIntact
  ManifestWhole
  PreviousKept
  ReplayIsFold
PROPERTIES
  PublishedImmutable
  ImplementsDurableIndex
