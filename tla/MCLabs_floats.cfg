CONSTANTS
  MAXJOBS = 3
  Pids = {p1, p2, p3, p4}
  NoPid = NoPid
  MaxJid = 6
  Inputs <- FloatInputs
  Clients = {c1, c2}
  Uris <- MCUris
  Requests <- MCRequests
  Removed = {"f", "p"}
  Kind <- MCKind
  RIO_BUFSIZE = 2
  NewLine = "newline"
  W = 8
  F = 3
  Unroll = 2
  UWord = 4
  kbest = 2
  maxsamples = 4
  epsilon = 25
  WordBytes = 2
  MEM_SIZE = 40
  AddressDigits = 2
  IntArgs = {"a"}
  BoolArgs = {"p", "q"}
  MaxCalls = 3
  Counts = {1, 3}
  Times = {4, 5, 6, 9}
  Graded <- MCGraded
  Signals <- MCSignals
SPECIFICATION LabsSpec
INVARIANTS
  FloatsMatchTests
CHECK_DEADLOCK FALSE
