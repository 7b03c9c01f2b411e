\* Databases that may raise, with up to three domains; a Redis scan may return one
\* more than it was asked for
CONSTANTS
  Domains = {d1, d2, d3}
  Processors = {p1, p2}
  Backends = {"sql", "redis"}
  CacheSize = 1
  DomainQueueLimit = 1
  ScanExcess = 1
  CacheMayFail = TRUE
  CancelMayBeLost = TRUE
  None = None
SPECIFICATION FairSpec
INVARIANTS
  RoundCovers
  NoStrayProcessor
PROPERTIES
  StopEnds
  FetchingRecursUnlessRaised
