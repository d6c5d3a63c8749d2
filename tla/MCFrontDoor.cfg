SPECIFICATION DoorSpec
CONSTANTS
  Doors = {"credentials", "gate", "limiter", "flows", "env", "server"}
  Attempts = {a1, a2, a3}
  HashSlots = 2
  SleepSlots = 1
  Tier = 2
  Gap = 1
  Decay = 2
  Sources = {x1, x2, x3}
  Limit = 2
  Parts = 3
  Multiplier = 2
  MaxSources = 2
  Flows = {f1, f2, f3, f4}
  MaxEntries = 2
  TTL = 2
  Keys = {k1, k2, k3}
  Groups = {{k1, k2}, {k3}}
  Values = {v1, v2}
  Candidates = 3
  Handlers = {h1, h2}
  Nobody = Nobody
  Callers = {main, c1}
  Main = main
  Probes = {p1}
  Scrapers = {s1}
  Logins = {l1, l2}
  Home = home
  MaxSerial = 2
  MaxCrashes = 1
  NoOne = NoOne
  None = None
  Absent = Absent
INVARIANTS MemoryNotAhead LoginSticks OneAskPerExpiry PairsMatch OwnerGetsIn FewNeverStarve FlowsSingleUse EnvRoundTrip NoWriteAfterClose
CHECK_DEADLOCK FALSE
