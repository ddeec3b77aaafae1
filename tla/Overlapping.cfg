\* Two calls overlapped at every step, the plain team writes and crashes
\* included: one mission, closed and reopened while two teams play it.
SPECIFICATION Spec
CONSTANTS
  k1 = k1  k2 = k2  k3 = k3  t1 = t1  t2 = t2  t3 = t3  c1 = c1  c2 = c2
  Tasks = {k1}  Teams = {t1, t2}  Calls = {c1, c2}
  NumStages = 1
  StageOf <- OneStage  Required <- RequireAll  Cap <- CapOne
  Locationless = {}  Expirable = {}  TimeLimited = {k1}
  Tools <- NoFinalize  Serial = FALSE  MaxLeaks = 0
  NoTask = NoTask  NoTeam = NoTeam  None = None
INVARIANTS ClosedMeansGone
SYMMETRY Symmetric
VIEW NoPayments
CHECK_DEADLOCK FALSE
