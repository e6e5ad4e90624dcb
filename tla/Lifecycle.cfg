SPECIFICATION FairSpec
CONSTANTS
  w = w
  r = r
  y = y
  b1 = b1
  b2 = b2
  Work = {w}
  Reboots = {r}
  Syncs = {y}
  Beats = {b1}
  Faults = {"token", "late_reply", "config", "lost", "no_url", "connect", "unacked", "drain"}
  MaxStops = 3
INVARIANTS OneLiveRestart
PROPERTIES ShutdownSound StandbyKept LifeProgresses
CHECK_DEADLOCK FALSE
