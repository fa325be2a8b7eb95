SPECIFICATION Spec
CONSTANTS
  Names = {"fs", "write"}
  Literals = {"v", "b", "c"}
  WildcardSegment = "*"
  Whole = Whole
  Requests = {r1}
  Calls = {c1, c2}
  Principals = {p1}
  ScopeSets <- MCScopeSets
  Policies <- MCPolicies
  NoPolicy = NoPolicy
  Corrupt = Corrupt
  Ttls = {2}
  NoTtl = NoTtl
  MaxTtl = 2
  ConfiguredMax = 1
  DefaultTtl = 1
  Tolerance = 1
  MaxScopes = 2
  Needs <- MCNeeds
  NoToken = NoToken
  Unreadable = Unreadable
  Forged = Forged
  Horizon = 2
  MaxEdits = 1
  MaxTokens = 1
  MaxWork = 5
CHECK_DEADLOCK FALSE
INVARIANT ConfiguredCeilingHolds
