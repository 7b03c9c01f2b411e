\* A request and a proactive fetch over the internal cache; the owner publishes
\* a usable policy, then a broken file, then a testing one that expires at once
CONSTANTS
  r1 = r1
  r2 = r2
  p1 = p1
  None = None
  Requests = {r1}
  Processors = {p1}
  Strict <- EverybodyStrict
  Backend = "internal"
  CacheMayFail = FALSE
  MaxVersion = 3
  Policies <- Mixed
  Grace = 2
  Recheck = 1
  Resolution = 1
  MaxFlight = 1
  Horizon = 4
SPECIFICATION FairSpec
INVARIANTS
  OnlyValidPolicies
  ServedUnexpired
PROPERTIES
  Convergence
