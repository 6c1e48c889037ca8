\* A remote form and one that is not; two calls, one with a timeout.
CONSTANTS
  Form = {f1, f2}
  Remote = {f1}
  NoForm = NoForm
  Call = {c1, c2}
  Timed = {c1}
  Held = {c1}
  Extra = {x}
SPECIFICATION FairSpec
CHECK_DEADLOCK FALSE
INVARIANTS CallsInOrder ButtonBack
PROPERTIES OnceSpec ButtonReturns
