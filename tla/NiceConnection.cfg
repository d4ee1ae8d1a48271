CONSTANTS
  Packets <- MCPackets
  Capacity = 2
SPECIFICATION FairSpec
INVARIANTS WaiterIsSignalled OrderedAndPromptlyStopped TerminatesOnlyAfterIceFailure
PROPERTIES CloseReturnsUnlessOverwritten QueuedPacketLeaves
CHECK_DEADLOCK FALSE
