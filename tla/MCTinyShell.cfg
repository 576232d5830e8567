CONSTANTS
  MAXJOBS = 2
  Pids = {p1, p2}
  NoPid = NoPid
  Keyboard = {"INT"}
SPECIFICATION Spec
SYMMETRY PidSymmetry
INVARIANTS
  ChildrenListed
  ForegroundIsWaitedFor
  NoInternalError
PROPERTIES
  SignalsOnlyForeground
  JobControlSpec
