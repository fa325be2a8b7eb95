CONSTANTS
  la = la
  lb = lb
  Calls = {c1, c2, c3}
  Hosts <- MCHosts
  Targets <- MCTargets
  Labels = {la, lb}
  MaxResends = 1
  NoRoute = NoRoute
SPECIFICATION Spec
SYMMETRY Symmetry
CHECK_DEADLOCK FALSE
INVARIANTS
  TypeOK
  AnswersAreTrue
  NewestPutWins
  EdgeFollowsRoutes
