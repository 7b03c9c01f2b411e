\* More requests than the queue holds, cancellations that may get lost
CONSTANTS
  QueueLimit = 2
  MaxRequests = 5
  CancelMayBeLost = TRUE
SPECIFICATION FairSpec
INVARIANTS
  TypeOK
  RepliesInOrder
  NoForgottenLookup
  EveryRequestAnswered
PROPERTIES
  PromiseKept
  StopCloses
  GoneClientReleased
  PromiseKeptFairly
CHECK_DEADLOCK FALSE
