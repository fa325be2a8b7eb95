SPECIFICATION Spec
CONSTANTS
  Passes = {p1}
  OtherRuns = {auto}
  Prior = {}
  PriorAge = 0
  Stages = {"file", "done", "error"}
  MaxEntries = 2
  MaxSteps = 2
  MaxFeed = 0
  MaxVersion = 0
  RunTimeout = 2
  InvokeGrace = 1
  FeedTail = 1
  MatchSkew = 1
  HostLag = 0
  HostStamps = FALSE
  LastInvoke = 0
  Incidents = {"kv"}
  None = None
INVARIANTS
  VerdictIsOwn
CHECK_DEADLOCK FALSE
