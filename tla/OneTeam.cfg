\* One team through two stages, every entry point, crashes included.
SPECIFICATION Spec
CONSTANTS
  k1 = k1  k2 = k2  k3 = k3  t1 = t1  t2 = t2  t3 = t3  c1 = c1  c2 = c2
  Tasks = {k1, k2, k3}  Teams = {t1}  Calls = {c1}
  NumStages = 2
  StageOf <- OneEach  Required <- RequireOne  Cap <- CapOne
  Locationless = {}  Expirable = {k1}  TimeLimited = {k2}
  Tools <- AllTools  Serial = TRUE  MaxLeaks = 1
  NoTask = NoTask  NoTeam = NoTeam  None = None
INVARIANTS SlotAccounting ActiveIsAssigned
PROPERTIES LeaksHealAtFinish
VIEW NoScores
CHECK_DEADLOCK FALSE
