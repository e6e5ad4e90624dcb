SPECIFICATION FairSpec
CONSTANTS
  p1 = p1
  p2 = p2
  h1 = h1
  h2 = h2
  c1 = c1
  c2 = c2
  NoInst = NoInst
  Proc = {p1, p2}
  Host = {h1, h2}
  Command = {c1}
  HostOf <- ReplicaHostOf
  Serves <- ReplicaServes
  Slot = {1, 2}
  MaxGen = 2
  MaxInst = 2
  MaxFaults = 2
  Faults = {"revoke", "timeout", "lost", "error", "stop", "drain", "crash", "unsaved"}
INVARIANTS CallsKeptApart ResultsKept
PROPERTIES ImplementsLedger DeliveryProgresses
