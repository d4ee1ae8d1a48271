CONSTANTS
  Packets <- MCPackets
  VideoPackets <- MCVideo
  Capacity = 2
SPECIFICATION FairSpec
INVARIANTS AcceptedInOrder AtMostOneLatePacket
PROPERTIES NoStrandedPacket StopEndsBusyOrWaitingSender
CHECK_DEADLOCK FALSE
