CONSTANTS
  j1 = j1
  j2 = j2
  Jobs <- TwoJobs
  Expiry = FALSE
  MaxCrashes = 1
SPECIFICATION FairSpec
PROPERTIES
  QueuedSettles
