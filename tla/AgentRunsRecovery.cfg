SPECIFICATION Spec
CONSTANTS
  w1 = w1
  w2 = w2
  N = 2
  ModelSteps = {1}
  RequestSteps = {}
  HighCost = {}
  Workers = {w1, w2}
  MaxAttempts = 2
  PublishLimit = 1
  PublicRestart = TRUE
  MaxRestarts = 0
  MaxFaults = 1
INVARIANTS FencedDeliveries WorkIsNeverLost DeadLetterExplained ArtifactsBoundedByFaults
INVARIANTS AttemptsArePaidFor
SYMMETRY Symmetry
CHECK_DEADLOCK FALSE
