SPECIFICATION FairSpec
CONSTANTS
  Users = {u1}
  Confs = {c1}
  Provider = FALSE
  MaxSessions = 2
  MaxList = 2
  MayClose = FALSE
  MayRefuse = FALSE
  HR = HR
  None = None
PROPERTY Reconnected
CHECK_DEADLOCK FALSE
