\* Two workers that may die serve requests, one after the other or at once.
SPECIFICATION Spec
CONSTANTS
  N = 2
  MaxLaunches = 2
  Client = {c1, c2}
SYMMETRY ClientSymmetry
INVARIANTS TypeOK OutcomesBacked RequestsComplete
PROPERTIES OrderlyLifecycle
CHECK_DEADLOCK FALSE
