CONSTANTS
  MaxSendAttempts = 5
  InitialBackoff = 1
  MaxWait = 30
  RetryAfters <- MCRetryAfters
  PostTimes = {0, 30}
SPECIFICATION FairRetrySpec
INVARIANTS WaitsBeforeRetry HoldsLoopBounded
PROPERTIES RetryReturns
CHECK_DEADLOCK FALSE
