SPECIFICATION FairSpec
CONSTANTS
  v1 = v1
  v2 = v2
  a1 = a1
  f1 = f1
  x1 = x1
  Server = {v1, v2}
  NoServer = NoServer
  Ask = {a1}
  Forward = {f1}
  SubSocket = {x1}
  Faults = {"die", "absent", "busy"}
PROPERTIES AnswersKept NoneLeft
CHECK_DEADLOCK FALSE
