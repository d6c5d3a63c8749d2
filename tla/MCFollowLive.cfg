SPECIFICATION FairSpec
CONSTANTS
  Ids = {i1}
  Readers = {r1, r2}
  Togglers = {}
  Swappers = {tokens, web}
  TokenLogin = tokens
  Retries = 1
  MaxSession = 1
  MaxVersion = 0
  NoReader = NoReader
  Unknown = Unknown

PROPERTIES CallsReturn
