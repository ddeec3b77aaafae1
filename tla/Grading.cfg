\* A quiz, a sequence or a photo, three calls at once.
SPECIFICATION Spec
CONSTANTS
  p1 = p1  p2 = p2  w1 = w1  w2 = w2  c1 = c1  c2 = c2  c3 = c3
  Phones = {p1, p2}  Calls = {c1, c2, c3}  Wrong = {w1, w2}  Right = Right  None = None
  Setups <- EveryMission  Races = {}  Returned = {"quiz", "photo"}
  FreeAttempts = 1  PointStep = 1  MaxPoints = 4
  Award = 1  HintPenalty = 1  Steps = 2  Deltas <- Changes
  MaxChanges = 2  MaxAttempts = 4  MaxFaults = 2
INVARIANTS TypeOK ScoreIsEarned PenaltyIsOwed AttemptsBounded ProofIsCounted RejectedMeansUnpaid FeedOnce
SYMMETRY Symmetric
CHECK_DEADLOCK FALSE
