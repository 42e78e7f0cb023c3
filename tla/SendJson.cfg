SPECIFICATION FairSpec
CONSTANTS
  MaxRetries = 3
  RetryBase = 1
  RetryCap = 3
  Statuses = {200, 404, 429, 500, 503}
  RetryAfters = {0, 5}
  HttpDate = HttpDate
  Cancellable = TRUE
  None = None
INVARIANTS TypeOK DuplicatesNeedFault EarlyErrorMeansExecuted WaitJustified HooksAddUp
PROPERTIES RetryAfterHonoured CallReturns ImplementsRpc
