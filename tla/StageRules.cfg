SPECIFICATION LiveSpec
CONSTANTS
  a = a
  b = b
  c = c
  e = e
  Missions = {a, b, c, e}
  Games <- Templates
  ToolSets <- EveryToolbox
INVARIANTS TypeOK StagesInOrder OneAlternative RetiresOnlyTheDead PlanTellsTheOutcome RoutineNeverStrands SentBackStaysThere
PROPERTIES TeamFinishes
CHECK_DEADLOCK FALSE
