\* Two requests at once drain a log of three messages, one is killed.
SPECIFICATION LogSpec
CONSTANTS
  Drain = {d1, d2}
  MaxMessages = 3
  MaxFails = 1
INVARIANTS NothingSkipped OnceAlone
CHECK_DEADLOCK FALSE
