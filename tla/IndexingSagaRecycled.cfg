CONSTANTS
  t1 = t1
  t2 = t2
  p1 = p1
  p2 = p2
  d1 = d1
  d2 = d2
  None = None
  Orders <- TwoOrders
  Topologies = {"local"}
  ForeignKeys = FALSE
  Failing <- NothingFails
  Processes <- OneProcess
  Texts <- TwoTexts
  Docs <- TwoDocs
SPECIFICATION Spec
INVARIANTS
  AnsweredSurvives
