SPECIFICATION Spec
CONSTANTS
  r1 = r1
  r2 = r2
  r3 = r3
  Requests = {r1, r2, r3}
  NoRequest = NoRequest
  Fingerprints = {1}
  Bindings = {"local"}
PROPERTY OnlyExpiredTerminalDeleted
SYMMETRY Symmetry
CHECK_DEADLOCK FALSE
