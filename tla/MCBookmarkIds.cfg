SPECIFICATION FairSpec
CONSTANTS
  Readers = {r1, r2}
  Logins = {l1}
  MaxPages = 2
  NoReader = NoReader
  None = None
  Failed = Failed
  Throttled = Throttled
INVARIANTS SingleFlight OldListsGone
PROPERTY RequestsReturn
