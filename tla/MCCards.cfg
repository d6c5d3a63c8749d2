SPECIFICATION CardSpec
CONSTANTS
  Parts = {"taps", "hearts", "images", "player"}
  Strip = {s1, s2}
  Cells = {g1}
  TapWindow = 1
  Suppress = 1
  Life = 2
  Late = 1
  MaxOwed = 2
  MaxEaten = 1
  Slots = {c1, c2}
  Works = {w1, w2}
  Cap = 2
  Users = {"patient"}
  LastPage = 2
  Size = 1
  Loads = {l1, l2}
  None = None
INVARIANTS NoGhostClicks ChromeFollows  WindowAtRest PlaysOnScreenOnly
PROPERTIES SpinnerEnds
CHECK_DEADLOCK FALSE
