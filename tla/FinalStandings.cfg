SPECIFICATION LiveSpec
CONSTANTS
  a = a
  b = b
  Teams = {a, b}
  Calls = {c1, c2}
  Platform = platform
  Setups <- EverySetup
  Refreshes <- RefreshKinds
  MaxScore = 1
  MaxHolds = 2
  MaxFaults = 1
  MaxDeliveries = 2
INVARIANTS TypeOK ConsolidatedOnce
PROPERTIES FrozenBoardStands FinishersRecorded SoloRunEnds
CHECK_DEADLOCK FALSE
