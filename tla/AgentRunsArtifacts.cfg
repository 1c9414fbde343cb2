SPECIFICATION Spec
CONSTANTS
  w1 = w1
  w2 = w2
  N = 2
  ModelSteps = {1}
  RequestSteps = {}
  HighCost = {}
  Workers = {w1, w2}
  MaxAttempts = 2
  PublishLimit = 1
  PublicRestart = FALSE
  MaxRestarts = 0
  MaxFaults = 1
INVARIANT ArtifactsAtMostOnce
SYMMETRY Symmetry
CHECK_DEADLOCK FALSE
