SPECIFICATION FairSpec
CONSTANTS
  w = w
  r = r
  y = y
  b1 = b1
  b2 = b2
  Work = {w}
  Reboots = {r}
  Syncs = {y}
  Beats = {b1}
  Faults = {"connect"}
  MaxStops = 1
PROPERTIES ConnectFailureRetried
CHECK_DEADLOCK FALSE
