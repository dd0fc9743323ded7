SPECIFICATION FairSpec
CONSTANTS
  Protocols <- MC_Protocols
  ServiceConf <- MC_Conf
  Handlers <- MC_Handlers
  Sig <- MC_Sig
  Packages <- MC_Packages
  Conns = {c1, c2}
  MaxConn = 2
  FreeCap = 1
  MaxReqs = 2
  MaxActors = 3
  None = None
INVARIANTS TypeOK ObjectsExclusive SlotsExact AnswerOwn Advertised
PROPERTIES StopReturns ListenersClose PackageServed
CHECK_DEADLOCK FALSE
