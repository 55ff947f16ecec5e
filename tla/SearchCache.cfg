CONSTANTS
  s1 = s1
  s2 = s2
  Worker = Worker
  Shared = Shared
  Searchers <- TwoSearchers
  Deployments = {"worker", "shared", "own"}
  MaxChanges = 2
SPECIFICATION FairSpec
INVARIANTS
  TypeOK
  ReachableIsFreshUnlessOverlapped
PROPERTIES
  EventuallyFresh
