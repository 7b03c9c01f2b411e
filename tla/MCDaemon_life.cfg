\* Two clients and the fetcher compete for one connection (SqliteConnPool has its own run with
\* more of them)
CONSTANTS
  Clients = {a, b}
  Fetch = fetch
  Threads = 1
  Conns = {c1}
  None = None
  CancelMayBeLost = TRUE
SPECIFICATION FairSpec
INVARIANTS
  TypeOK
  QuietTeardown
  HandlersKnown
  ConnectionsClosed
  NotifierQuiet
PROPERTIES
  SignalEnds
CHECK_DEADLOCK FALSE
