CONSTANTS
  Packets <- MCPackets
  Capacity = 2
SPECIFICATION Spec
PROPERTY IceStateAdvances
CHECK_DEADLOCK FALSE
