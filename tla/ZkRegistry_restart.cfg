SPECIFICATION FairSpec
CONSTANTS
  Users = {u1, u2}
  Confs = {c1, c2}
  Provider = TRUE
  MaxSessions = 3
  MaxList = 4
  MayClose = TRUE
  MayRefuse = TRUE
  HR = HR
  None = None
INVARIANTS TypeOK NoSessionLeak
PROPERTIES RestartComplete CloseEnds
CHECK_DEADLOCK FALSE
