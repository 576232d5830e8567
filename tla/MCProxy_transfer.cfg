CONSTANTS
  URL = {u}
  hash_code <- MCHash
  MAX_CACHE_COUNT = 1
  MAX_CACHE_OBJECT = 7
  MAXBUF = 2
  Response <- MCResponse
  SocketBuffer = 1
  MaxSent = 2
  StaleByte <- MCStaleByte
  ClientsLeave = TRUE
  Threads = {t1}
SPECIFICATION TunnelSpec
INVARIANTS
  PutIsComplete
  TunnelIntact
PROPERTIES
  TunnelRelays
  TunnelEnds
