CONSTANTS
  Rooms = {"r"}
  Own = {1}
  Members = {2}
  NextStates = {2, 4}
  MaxSockets = 2
  MaxSent = 7
  MaxUp = 1
  MaxPosted = 1
  Capacity = 4
  Block = 1
SPECIFICATION Spec
INVARIANTS StreamIntact SpeaksProtocol CipherAtHand RoomToLeave
PROPERTY RoomViewAgrees
