SPECIFICATION Spec
CONSTANTS
  Ventures = {v1}
  Owners = {o1}
  Manifests = {m1}
  Requests = {r1, r2, r3}
  MaxVersion = 2
  None = None
SYMMETRY Symmetry
INVARIANT CommittedIsNotRefused
CHECK_DEADLOCK FALSE
