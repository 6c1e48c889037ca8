\* Two instances, one port, one save and one rollback.
SPECIFICATION Spec
CONSTANTS
  Instance = {i1, i2}
  PortMin = 1
  PortMax = 1
  MaxSaves = 1
  MaxFails = 1
SYMMETRY InstanceSymmetry
INVARIANTS PortsDistinct NoPortClash AgentFollows
CHECK_DEADLOCK FALSE
