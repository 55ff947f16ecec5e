CONSTANTS
  j1 = j1
  j2 = j2
  Jobs <- TwoJobs
  Expiry = TRUE
  MaxCrashes = 2
SPECIFICATION FairSpec
INVARIANTS
  TypeOK
  RunsOnce
  AckedIsSettled
PROPERTIES
  NoResurrection
  QueuedAcked
