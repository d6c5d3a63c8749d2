SPECIFICATION FairSpec
CONSTANTS
  Works = {w1, w2}
  Artists = {a1}
  Tags = {t1, t2}
  MaxDepth = 2
  ZBase = 1
  MaxZ = 5
  MaxTimers = 1
  Users = {"patient", "hurried"}
  Reloads = {"patient"}
  None = None
INVARIANTS TopIsVisible BooksAgree SavedWhenQuiet
PROPERTIES OnlyClosedLeave ReloadFaithful SlideOutsEnd
CHECK_DEADLOCK FALSE
