SPECIFICATION Spec
CONSTANTS
  Requests = {q1, q2, q3}
  Urls = {u1, u2}
  Sizes = {1, 3, 4}
  Slots = 1
  MaxWaiters = 1
  MaxEntries = 2
  MaxBytes = 2
  MaxEntryBytes = 3
  TTL = 2
  None = None
INVARIANT CachedWhole
