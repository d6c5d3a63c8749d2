SPECIFICATION Spec
CONSTANTS
  Ids = {i1}
  Readers = {r1, r2}
  Togglers = {t1}
  Swappers = {tokens}
  TokenLogin = tokens
  Retries = 1
  MaxSession = 1
  MaxVersion = 1
  NoReader = NoReader
  Unknown = Unknown
INVARIANTS SingleFlight CacheFresh NoDeadEpochs
PROPERTY KeepsPromise
