\* Two functions, two registrations, two events (one inside the other).
CONSTANTS
  Fn = {f, g}
  MaxBinds = 2
  MaxEvents = 2
SYMMETRY FnSymmetry
SPECIFICATION Spec
CHECK_DEADLOCK FALSE
INVARIANTS RegistryExact RunsOnce NoStray InsideOut
