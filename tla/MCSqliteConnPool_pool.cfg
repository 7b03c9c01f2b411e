\* Four tasks compete for two connections
CONSTANTS
  Threads = 2
  Conns = {c1, c2}
  Borrowers = {b1, b2, b3, b4}
  None = None
SPECIFICATION FairSpec
INVARIANTS
  TypeOK
  ExclusiveUse
  CleanWhenFree
  SlotsAccounted
  StopClosesAll
PROPERTIES
  BorrowersLeave
  StopSettles
CHECK_DEADLOCK FALSE
