SPECIFICATION Spec
CONSTANTS
  Protocols <- MC_Protocols
  ServiceConf <- MC_Conf
  Handlers <- MC_Handlers
  Sig <- MC_Sig
  Packages <- MC_Packages
  Conns = {c1}
  MaxConn = 2
  FreeCap = 1
  MaxReqs = 1
  MaxActors = 3
  None = None
INVARIANT ServedAtOwnAddr
CHECK_DEADLOCK FALSE
