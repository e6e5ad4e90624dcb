SPECIFICATION FairSpec
CONSTANTS
  o1 = o1
  o2 = o2
  tab = tab
  r1 = r1
  r2 = r2
  Obj = {o1, o2}
  NoObj = NoObj
  Id = {tab}
  Req = {r1, r2}
  Faults = {}
INVARIANTS BrowserKept
PROPERTIES NoneLeft
CHECK_DEADLOCK FALSE
