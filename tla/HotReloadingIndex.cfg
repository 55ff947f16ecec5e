CONSTANTS
  i1 = i1
  Ids <- OneId
  CheckpointEvery = 1
  Faults = {}
  FailingSteps = {"write"}
  MaxLog = 1
  MaxVersion = 4
  Segments = 2
SPECIFICATION FairReplicaSpec
INVARIANTS
  ReplicaTypeOK
  ServesPublishedOrPruned
  LabelHonest
  ReadsMonotone
PROPERTIES
  FollowsManifest
