SPECIFICATION FairSpec
CONSTANTS
  p1 = p1
  p2 = p2
  Project = {p1, p2}
  MaxCust = 2
  MaxVersion = 1
  MaxFaults = 4
  Faults = {"reboot", "update", "exit", "customize", "write", "build", "install", "signal", "crash", "start", "auto"}
INVARIANTS CustomizationKept
PROPERTIES HandedOver ComesBack
CHECK_DEADLOCK FALSE
