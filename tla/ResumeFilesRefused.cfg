SPECIFICATION Spec
CONSTANTS
  Clients = {c1, c2}
  Datas = {"short", "garbled"}
  Unstructured = {"garbled"}
  Unencodable = {"garbled"}
  MaxResumes = 1
  MaxVersions = 1
  MaxFiles = 2
  MaxServed = 3
INVARIANT FailureRollsBack
CHECK_DEADLOCK FALSE
