\* Convergence by proactive fetching alone, with Redis failing until it is calm
CONSTANTS
  r1 = r1
  r2 = r2
  p1 = p1
  None = None
  Requests = {r1}
  Processors = {p1}
  Strict <- NobodyStrict
  Backend = "redis"
  CacheMayFail = TRUE
  MaxVersion = 2
  Policies <- Enforcing
  Grace = 1
  Recheck = 2
  Resolution = 1
  MaxFlight = 1
  Horizon = 4
SPECIFICATION FairSpec
PROPERTIES
  Convergence
