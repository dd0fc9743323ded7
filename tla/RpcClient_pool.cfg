SPECIFICATION Spec
CONSTANTS
  Calls = {c1, c2}
  Retries = 1
  PoolSize = 1
  GcCap = 1
  Streaming = TRUE
  MayClose = TRUE
  None = None
SYMMETRY CallSymmetry
INVARIANTS TypeOK ConnExclusive OwnResponse PooledQuiet ConnInv
CHECK_DEADLOCK FALSE
