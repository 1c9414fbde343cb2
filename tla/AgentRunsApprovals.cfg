SPECIFICATION Spec
CONSTANTS
  w1 = w1
  w2 = w2
  N = 4
  ModelSteps = {1}
  RequestSteps = {2}
  HighCost = {1}
  Workers = {w1}
  MaxAttempts = 1
  PublishLimit = 1
  PublicRestart = TRUE
  MaxRestarts = 1
  MaxFaults = 0
INVARIANTS TypeOK PrefixOrder RunMatchesSteps ApprovalGate PendingIsDecidable
PROPERTY ImplementsContract
CHECK_DEADLOCK FALSE
