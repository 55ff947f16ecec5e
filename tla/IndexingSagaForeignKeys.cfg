CONSTANTS
  t1 = t1
  t2 = t2
  p1 = p1
  p2 = p2
  d1 = d1
  d2 = d2
  None = None
  Orders <- TwoOrders
  Topologies = {"local"}
  ForeignKeys = TRUE
  Failing <- NothingFails
  Processes <- OneProcess
  Texts <- OneText
  Docs <- OneDoc
SPECIFICATION Spec
PROPERTIES
  FailsOnlyByFault
