SPECIFICATION Spec
CONSTANTS
  Nodes = {n1, n2}
  EventsCap = 2
  DirCap = 4
  MaxChanges = 1
  MayEnd = FALSE
  None = None
INVARIANT DelTrue
CHECK_DEADLOCK FALSE
