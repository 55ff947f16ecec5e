CONSTANTS
  t1 = t1
  t2 = t2
  p1 = p1
  p2 = p2
  d1 = d1
  d2 = d2
  None = None
  Orders <- TwoOrders
  Topologies = {"worker", "local"}
  ForeignKeys = FALSE
  Failing <- AnyStepFails
  Processes <- TwoProcesses
  Texts <- TwoTexts
  Docs <- TwoDocs
SYMMETRY Symmetry
SPECIFICATION Spec
INVARIANTS
  TypeOK
  CommittedComplete
  VectorsStayOwned
  DeletedIsGone
  SurvivesWithOneOwner
  OneRowPerText
