\* Four domains compete for an internal cache of three, so a round takes three
\* scans; cancellations may get lost
CONSTANTS
  Domains = {d1, d2, d3, d4}
  Processors = {p1, p2}
  Backends = {"internal"}
  CacheSize = 3
  DomainQueueLimit = 1
  ScanExcess = 0
  CacheMayFail = TRUE
  CancelMayBeLost = TRUE
  None = None
SPECIFICATION FairSpec
INVARIANTS
  TypeOK
  RoundCovers
PROPERTIES
  FetchingRecursUnlessRaised
