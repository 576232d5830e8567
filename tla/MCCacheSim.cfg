CONSTANTS
  s = 1
  b = 1
  E = 3
  SizeMax = 15
  MaxAccess = 7
  Address <- MCAddress
SPECIFICATION Spec
CHECK_DEADLOCK FALSE
INVARIANTS
  RingIntact
  CountersAgree
PROPERTIES
  ModifyHits
  LRUSpec
