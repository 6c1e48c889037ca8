\* Two routes, one of which the certificate matches, and two requests at once.
SPECIFICATION Spec
CONSTANTS
  Route = {r1, r2}
  Matching = {r1}
  Client = {c1, c2}
  NoClient = NoClient
  MaxUpdates = 2
SYMMETRY ClientSymmetry
INVARIANTS TypeOK GatewayFollows SentUnless
CHECK_DEADLOCK FALSE
