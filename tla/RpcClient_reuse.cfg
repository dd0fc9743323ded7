SPECIFICATION Spec
CONSTANTS
  Calls = {c1}
  Retries = 2
  PoolSize = 1
  GcCap = 1
  Streaming = TRUE
  MayClose = FALSE
  None = None
INVARIANT PooledUsable
CHECK_DEADLOCK FALSE
