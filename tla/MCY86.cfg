CONSTANTS
  WordBytes = 1
  MEM_SIZE = 32
  InstrLimit = 12
  Simulators <- MCSimulators
  Programs <- MCPrograms
SPECIFICATION
  Spec
INVARIANTS
  HazardControl
  CheckSucceeds
PROPERTIES
  ImplementsISA
\* A run ends.
CHECK_DEADLOCK
  FALSE
