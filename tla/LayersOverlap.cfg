SPECIFICATION Spec
CONSTANTS
  Works = {w1}
  Artists = {a1}
  Tags = {t1}
  MaxDepth = 2
  ZBase = 1
  MaxZ = 6
  MaxTimers = 1
  Users = {"hurried"}
  Reloads = {"hurried"}
  None = None
PROPERTY ClosedForGood
CHECK_DEADLOCK FALSE
