SPECIFICATION MCSpec
CONSTANTS
  SmartCap = 2
  DeepCap = 3
  PlannerTools <- MCPlannerTools
  PlannerRounds = {1, 4}
  Sources = {wikipedia, arxiv}
  MaxHits = 2
  EnoughFindings = 6
  MaxSubtasks = 3
SYMMETRY Alike
\* A run ends.
CHECK_DEADLOCK FALSE
INVARIANT DisabledModeNeverRuns
