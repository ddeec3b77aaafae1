\* Players alone, at stations that hold one team.
SPECIFICATION LiveSpec
CONSTANTS
  k1 = k1  k2 = k2  k3 = k3  t1 = t1  t2 = t2  t3 = t3  c1 = c1  c2 = c2
  Tasks = {k1, k2, k3}  Teams = {t1, t2}  Calls = {c1, c2}
  NumStages = 2
  StageOf <- TwoThenOne  Required <- RequireAll  Cap <- CapOne
  Locationless = {}  Expirable = {}  TimeLimited = {}
  Tools <- Playing  Serial = TRUE  MaxLeaks = 1
  NoTask = NoTask  NoTeam = NoTeam  None = None
PROPERTIES EveryTeamFinishes
CHECK_DEADLOCK FALSE
