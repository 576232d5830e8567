CONSTANTS
  URL = {u, v}
  hash_code <- MCHash
  MAX_CACHE_COUNT = 2
  MAX_CACHE_OBJECT = 4
  MAXBUF = 2
  Response <- OneResponse
  SocketBuffer = 1
  MaxSent = 0
  StaleByte <- MCStaleByte
  ClientsLeave = FALSE
  Threads = {t1, t2}
SPECIFICATION LockSpec
INVARIANTS
  HitRepeatsMiss
  CopiesBounded
PROPERTIES
  WaitersServed
