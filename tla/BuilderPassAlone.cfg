SPECIFICATION Spec
CONSTANTS
  Passes = {p1}
  OtherRuns = {old}
  Prior = {old}
  PriorAge = 2
  Stages = {"live", "service-error", "shipped", "done", "error"}
  MaxEntries = 2
  MaxSteps = 2
  MaxFeed = 1
  MaxVersion = 1
  RunTimeout = 3
  InvokeGrace = 1
  FeedTail = 1
  MatchSkew = 1
  HostLag = 1
  HostStamps = TRUE
  LastInvoke = 0
  Incidents = {"invoke", "restart", "disconnect"}
  None = None
INVARIANTS
  TypeOK
  RelayIsFaithful
  DoneIsEarned
  UnavailableMeansSilence
  FailureSurfaces
  RegistryMatchesCell
CHECK_DEADLOCK FALSE
