SPECIFICATION ProgressSpec
CONSTANTS
  SafetyDeadline = 7
  PhaseLimit = 4
  Reserve = 2
  RetryReserve = 0
  RepairReserve = 1
  MinBudget = 1
  CallLimit = 2
  Backoff = 1
  Overrun = 1
  LocalWork = 1
  Horizon = 8
  MaxAttempts = 2
  PublishLimit = 2
  MaxFaults = 1
INVARIANTS DeadlineKept AnswerIsRecorded
PROPERTIES ImplementsLedger EveryRequestAnswered RunSettles
CHECK_DEADLOCK FALSE
