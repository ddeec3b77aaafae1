\* Phones join, attach and are started, two calls at once.
SPECIFICATION Spec
CONSTANTS
  p1 = p1  p2 = p2  p3 = p3  c1 = c1  c2 = c2
  Phones = {p1, p2, p3}  Calls = {c1, c2}
  Setups <- EverySetup  Races = {}
  MaxDevices = 3  DeviceFloor = 2  DeviceHardCap = 3  MaxFaults = 1
INVARIANTS CountedOnce BurstBounded ConsentBeforePlay ClosedForEveryTeam
SYMMETRY Symmetric
CHECK_DEADLOCK FALSE
