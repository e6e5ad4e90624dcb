SPECIFICATION FairSpec
CONSTANTS
  p1 = p1
  p2 = p2
  c1 = c1
  c2 = c2
  c3 = c3
  c4 = c4
  None = None
  Project = {p1}
  Child = {c1, c2, c3}
  MaxRestarts = 1
  MaxToken = 2
  Faults = {"crash", "bad_start", "drain", "remove", "wedged", "parent"}
INVARIANTS PoolSound
PROPERTIES PoolProgresses TokenFollows
CHECK_DEADLOCK FALSE
