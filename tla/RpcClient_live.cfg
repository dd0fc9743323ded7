SPECIFICATION FairSpec
CONSTANTS
  Calls = {c1}
  Retries = 2
  PoolSize = 1
  GcCap = 1
  Streaming = TRUE
  MayClose = FALSE
  None = None
INVARIANTS AnswerStays
PROPERTIES NoLateWrite AttemptsEnd ConnsReclaimed
CHECK_DEADLOCK FALSE
