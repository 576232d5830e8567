CONSTANTS
  MAXJOBS = 1
  Pids = {p1, p2}
  NoPid = NoPid
  Keyboard = {"INT", "TSTP"}
SPECIFICATION Spec
SYMMETRY PidSymmetry
INVARIANTS
  ShellInv
