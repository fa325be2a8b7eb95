SPECIFICATION Spec
CONSTANTS
  Ventures = {v1}
  Owners = {o1, o2}
  Manifests = {m1, m2}
  Requests = {r1, r2, r3}
  MaxVersion = 3
  None = None
SYMMETRY Symmetry
INVARIANTS
  OneLineOfVersions
  NoLostUpdate
  CommitsAtMostOnce
  BusMatchesTable
  CleanAnswerIsOnTheBus
  ReadsAreCommitted
PROPERTIES
  DeletedIsFinal
  ImplementsLedger
CHECK_DEADLOCK FALSE
