SPECIFICATION FairSpec
CONSTANTS
  Passes = {p1}
  OtherRuns = {}
  Prior = {}
  PriorAge = 0
  Stages = {"live", "done", "error"}
  MaxEntries = 1
  MaxSteps = 1
  MaxFeed = 1
  MaxVersion = 1
  RunTimeout = 2
  InvokeGrace = 1
  FeedTail = 1
  MatchSkew = 1
  HostLag = 0
  HostStamps = TRUE
  LastInvoke = 0
  Incidents = {"kv", "invoke", "restart", "crash", "disconnect", "delete"}
  None = None
PROPERTIES
  EveryPassEnds
CHECK_DEADLOCK FALSE
