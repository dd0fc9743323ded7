SPECIFICATION FairSpec
CONSTANTS
  Urls = {u1, u2}
  Callers = {k1}
  TTL = 1
  MaxNow = 2
  MaxChanges = 2
  MaxLost = 1
  None = None
INVARIANTS TypeOK Settled CopiesStable
PROPERTIES UpdateExact CloseReturns Learned
CHECK_DEADLOCK FALSE
