SPECIFICATION Spec
CONSTANTS
  Parts = {"feed", "search", "pages", "prefs", "button", "mover", "kept"}
  Tabs = {"home", "top", "bookmarks"}
  Works = {w1, w2}
  Queries = {q1, q2}
  Filters = {f1, f2}
  SearchPages = 3
  WorksKept = 1
  UsersKept = 1
  Slow = FALSE
  Owners = {o1, o2}
  Tags = {t1, t2}
  Values = {v1, v2}
  Faults = {"seed lost", "write lost"}
  Artists = {1, 2, 3}
  Returns = FALSE
  Lossy = FALSE
  LastPage = 2
  MaxLoads = 2
  MaxCalls = 3
  MaxTaps = 4
  MoverTaps = 7
  Ids = {1, 2}
  Hard = 2
  None = None
INVARIANTS ShowsSelected SpinnersHonest PrefsAgree ButtonHonest LossIsTold RestoresSound
PROPERTIES Settles
CHECK_DEADLOCK FALSE
