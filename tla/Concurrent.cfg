\* Any two calls interleaved at every database step, crashes included.
SPECIFICATION Spec
CONSTANTS
  k1 = k1  k2 = k2  k3 = k3  t1 = t1  t2 = t2  t3 = t3  c1 = c1  c2 = c2
  Tasks = {k1, k2}  Teams = {t1, t2}  Calls = {c1, c2}
  NumStages = 1
  StageOf <- OneStage  Required <- RequireAll  Cap <- CapOne
  Locationless = {}  Expirable = {}  TimeLimited = {}
  Tools <- Routed  Serial = FALSE  MaxLeaks = 1
  NoTask = NoTask  NoTeam = NoTeam  None = None
INVARIANTS SlotAccounting OneMissionInHand NeverStranded NeverOvercrowded
PROPERTIES ImplementsLedger StampsYieldOnlyToOlderReads
SYMMETRY Symmetric
VIEW NoScores
CHECK_DEADLOCK FALSE
