CONSTANTS
  Names = {a, b}
  Texts = {t}
  Requests = {r1, r2, r3}
  Ops = {"create", "fork", "patch", "snapshot", "delete", "build", "improve"}
  Incidents = {"fail", "restart"}
  None = None
SPECIFICATION Spec
SYMMETRY Symmetry
CHECK_DEADLOCK FALSE
INVARIANTS
  TypeOK
  DeletedStaysDeleted
  SnapshotsAreAccounted
  VersionReuseIsARace
  CellGoneIsADeletion
PROPERTIES
  SnapshotsAreKept
  ImplementsCatalogue
