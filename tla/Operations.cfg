SPECIFICATION OperationsSpec
CONSTANTS
  Files = {f1}
  Targets <- MCTargets
  Policies <- MCPolicies
  NoRows = NoRows
  MaxSequence = 1
  MaxBackups = 1
  MaxRestores = 2
  Threads = {x, y}
  NoFile = NoFile
  Workflows = {w1}
  Outcomes = {"completed", "failed"}
  Runs = {r1}
  Cases = {k1, k2}
  Cleaners = {a1, a2}
  NoSkill = NoSkill
  Asked <- MCAsked
  Replies <- MCContents
  Repairs <- MCRepairs
  Unsupported <- MCUnsupported
  Covering <- MCCovering
  Rank <- MCRank
  MaxListed = 4
  NoKey = NoKey
  Missing = Missing
  Editions = {"v1", "v2"}
  Chunks <- MCChunks
  FullText = {"v1"}
  Scanned = {"v1", "v2"}
  MaxDocuments = 2
  Addresses = {"here", "there"}
  MaxFailed = 2
  LockoutTime = 1
  IdleTimeout = 1
  AbsoluteTimeout = 2
  RememberTime = 3
  TouchInterval = 1
  LastTime = 2
  MaxSessions = 2
  MaxPassword = 1
  Steps = {"draft", "letter", "other"}
  RunOf <- MCRunOf
  Projected = 2
  Spent = {0, 3}
  StepTokenLimit = 2
  RunTokenLimit = 4
  DailyTokenLimit = 4
  MaxAttempts = 2
  LastDay = 2
  Keys = {"key", "other"}
  Postings <- MCPostings
  Oversized <- MCOversized
  NoUrl = "none"
  MaxRequests = 3
  MaxVersions = 3
  MaxDefects = 2
INVARIANTS OperationsTypeOK  IndexWhole TelemetryWhole AnswerHidesNothing
INVARIANTS SignedOutForGood SpendingBounded DescribedOnce ReleaseIsEarned
PROPERTIES TargetKept
SYMMETRY Symmetry
CHECK_DEADLOCK FALSE
