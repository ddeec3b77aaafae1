\* A photo is approved, rejected, and approved again.
SPECIFICATION Spec
CONSTANTS
  p1 = p1  p2 = p2  w1 = w1  w2 = w2  c1 = c1  c2 = c2  c3 = c3
  Phones = {p1, p2}  Calls = {c1}  Wrong = {w1, w2}  Right = Right  None = None
  Setups <- JustReviewed  Races = {}  Returned = {}
  FreeAttempts = 1  PointStep = 1  MaxPoints = 4
  Award = 1  HintPenalty = 1  Steps = 2  Deltas <- Changes
  MaxChanges = 2  MaxAttempts = 4  MaxFaults = 0
INVARIANTS StatusMatchesScore
CHECK_DEADLOCK FALSE
