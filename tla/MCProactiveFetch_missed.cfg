\* A request uses a domain between two scans of the internal cache
CONSTANTS
  Domains = {d1, d2, d3}
  Processors = {p1}
  Backends = {"internal"}
  CacheSize = 3
  DomainQueueLimit = 1
  ScanExcess = 1
  CacheMayFail = FALSE
  CancelMayBeLost = FALSE
  None = None
SPECIFICATION Spec
INVARIANTS
  AllDomainsFetched
