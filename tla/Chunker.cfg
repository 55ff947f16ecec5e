CONSTANTS
  Length = 10
  MinTokens = 3
  MaxTokens = 5
  OverlapNum = 1
  OverlapDen = 5
SPECIFICATION FairSpec
CHECK_DEADLOCK FALSE
INVARIANTS
  TypeOK
  Covered
  OverlapExact
  OnlyLastShort
  LongByOneUnit
PROPERTIES
  Terminates
