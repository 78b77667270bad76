SPECIFICATION Spec
CONSTANTS
  Calls = {c1, c2}
  A = A
  B = B
  Targets = {A, B}
  NoTarget = NoTarget
  GroupLimit = 10
  Requests <- MCRequests
  Policies <- MCPolicies
  Responses <- MCResponses
INVARIANTS
  WithinTheMatrix
  UnattendedIsBacked
  OnItsOwnTarget
SYMMETRY Symmetry
CHECK_DEADLOCK FALSE
