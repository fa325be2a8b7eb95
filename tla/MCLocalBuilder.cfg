CONSTANTS
  server = server
  check = check
  Requests = {q1, q2, q3}
  Responses <- MCResponses
  SafePaths = {server, check}
  CheckPath = check
  MaxFiles = 2
  MaxBytes = 1
  Incidents = {"fail", "leave"}
  None = None
SPECIFICATION Spec
SYMMETRY Symmetry
CHECK_DEADLOCK FALSE
INVARIANTS
  TypeOK
  RecordMatchesCell
