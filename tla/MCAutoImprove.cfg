CONSTANTS
  Runs = {r1, r2}
  Toggles = {t1}
  Looks = {l1, l2}
  MaxShips = 2
SPECIFICATION FairSpec
INVARIANTS
  TypeOK
PROPERTIES
  NobodyForksAChain
  RegressionIsARace
  OffStopsTheChain
