SPECIFICATION Spec
CONSTANTS
  Clients = {c1}
  Packages = {p1}
  Required = {"tailored_resume", "cover_letter"}
  MaxMaterials = 2
  MaxVersions = 3
  MaxRevision = 2
  MaxRequests = 7
INVARIANT FinalizedWasReviewed
CHECK_DEADLOCK FALSE
