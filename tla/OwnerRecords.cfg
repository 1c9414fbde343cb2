SPECIFICATION RecordsSpec
CONSTANTS
  c1 = c1
  c2 = c2
  t1 = t1
  t2 = t2
  u1 = u1
  NoUrl = NoUrl
  None = None
  Blank = Blank
  NoYears = NoYears
  Clients <- MCClients
  Packages = {p1}
  Required = {"cover_letter"}
  MaxMaterials = 1
  MaxVersions = 3
  MaxRevision = 2
  MaxRequests = 4
  Contents <- MCContents
  Requiring = {t1}
  NearTexts <- MCNearTexts
  Files <- MCFiles
  Stored <- MCStored
  Analyses = {"a1"}
  MaxJobs = 3
  MaxApplications = 2
  MaxRows = 2
  MaxLibraryRequests = 3
  MaxTracked = 5
  Datas = {"short", "garbled"}
  Unstructured = {"garbled"}
  Unencodable = {"garbled"}
  MaxResumes = 3
  MaxResumeVersions = 2
  MaxFiles = 2
  MaxServed = 5
  Values = {"x"}
  Copies <- MCCopies
  MaxItems = 3
  MaxProfiles = 4
  MatchedJobs = {1, 2}
  Names = {"python", "english"}
  Relation <- MCRelation
  Demands <- MCDemands
  Snapshots <- MCSnapshots
  WeightConfigs <- MCWeightConfigs
  Factors <- MCFactors
  MaxRequirements = 2
  MaxRevisions = 2
  MaxAnalyses = 2
INVARIANTS RecordsTypeOK ActiveIsLatest ApprovalHasBasis LibraryAccounted
INVARIANTS HistoryIsAPath RowsHaveFiles ProfileHistory AnalysesAreGrounded
SYMMETRY Symmetry
CHECK_DEADLOCK FALSE
