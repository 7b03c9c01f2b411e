\* The cache raises once
CONSTANTS
  Domains = {d1, d2}
  Processors = {p1}
  Backends = {"sql"}
  CacheSize = 1
  DomainQueueLimit = 1
  ScanExcess = 1
  CacheMayFail = TRUE
  CancelMayBeLost = FALSE
  None = None
SPECIFICATION FairSpec
PROPERTIES
  FetchingRecurs
