\* A task fails while more requests are buffered than the queue holds
CONSTANTS
  QueueLimit = 2
  MaxRequests = 4
  CancelMayBeLost = FALSE
SPECIFICATION FairSpec
PROPERTIES
  QueueMoves
CHECK_DEADLOCK FALSE
