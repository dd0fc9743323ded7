SPECIFICATION FairSpec
CONSTANTS
  Calls = {c1}
  Retries = 2
  PoolSize = 1
  GcCap = 1
  Streaming = FALSE
  MayClose = TRUE
  None = None
PROPERTIES ImplementsPromise CallReturns
CHECK_DEADLOCK FALSE
