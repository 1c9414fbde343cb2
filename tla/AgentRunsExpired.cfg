SPECIFICATION Spec
CONSTANTS
  w1 = w1
  w2 = w2
  N = 1
  ModelSteps = {1}
  RequestSteps = {}
  HighCost = {1}
  Workers = {w1}
  MaxAttempts = 2
  PublishLimit = 1
  PublicRestart = TRUE
  MaxRestarts = 1
  MaxFaults = 0
INVARIANT ExpiredApprovalNeedsNewRun
CHECK_DEADLOCK FALSE
