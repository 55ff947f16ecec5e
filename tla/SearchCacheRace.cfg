CONSTANTS
  s1 = s1
  s2 = s2
  Worker = Worker
  Shared = Shared
  Searchers <- OneSearcher
  Deployments = {"worker"}
  MaxChanges = 2
SPECIFICATION Spec
INVARIANTS
  ReachableIsFresh
