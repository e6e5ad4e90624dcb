SPECIFICATION FairSpec
CONSTANTS
  Plans <- AllPlans
  Kind = {"aws", "download"}
  MaxOut = 3
  Faults = {}
INVARIANTS ResultTellsDelivery AnswerWhole
PROPERTIES ChatEnds
CHECK_DEADLOCK FALSE
