SPECIFICATION FairLinkSpec
CONSTANTS
  s1 = s1
  s2 = s2
  c1 = c1
  c2 = c2
  NoSlot = NoSlot
  Slot = {s1, s2}
  Command = {c1, c2}
  MaxMissed = 3
  Threshold = 2
  MaxScans = 3
  AuthCode = FALSE
  Faults = {"refuse", "drop", "vanish"}
  LinkFaults = {}
PROPERTIES SocketSound GoneIsNoticed ImplementsLink LinkRecovers
CHECK_DEADLOCK FALSE
