\* Two requests race over an SQL cache that stores whole seconds
CONSTANTS
  r1 = r1
  r2 = r2
  p1 = p1
  None = None
  Requests = {r1, r2}
  Processors = {}
  Strict <- NobodyStrict
  Backend = "sql"
  CacheMayFail = FALSE
  MaxVersion = 2
  Policies <- Enforcing
  Grace = 1
  Recheck = 1
  Resolution = 2
  MaxFlight = 1
  Horizon = 4
SPECIFICATION Spec
INVARIANTS
  TypeOK
  BodyNotOlderThanId
  NoDowngrade
PROPERTIES
  SupersededByNewer
