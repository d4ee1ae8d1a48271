CONSTANTS
  Modulus = 10
  MaxPackets = 4
  MaxSwitches = 3
SPECIFICATION Spec
PROPERTY NumberFollowsLast
CHECK_DEADLOCK FALSE
