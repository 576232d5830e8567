CONSTANTS
  URL = {u, v}
  hash_code <- MCHash
  MAX_CACHE_COUNT = 1
  MAX_CACHE_OBJECT = 4
  MAXBUF = 2
  Response <- TwoResponses
  SocketBuffer = 1
  MaxSent = 0
  StaleByte <- MCStaleByte
  ClientsLeave = FALSE
  Threads = {t1}
SPECIFICATION Spec
INVARIANTS
  HitIsExact
