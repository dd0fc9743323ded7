SPECIFICATION FairSpec
CONSTANTS
  Nodes = {n1, n2}
  EventsCap = 1
  DirCap = 4
  MaxChanges = 1
  MayEnd = TRUE
  None = None
INVARIANTS TypeOK DirDelTrue DirUpToDate DirInv
PROPERTIES NewNodeHeard 
CHECK_DEADLOCK FALSE
