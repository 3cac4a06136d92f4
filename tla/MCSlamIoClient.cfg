CONSTANTS
  Peer = {p1}
  Client = {k1}
  Listener = Listener
  None = None
  Fd = {1, 2}
  MqSize = 3
  SendSize = 2
  SendRoom = 1
  MaxPackage = 0
  MaxResponse = 1
SPECIFICATION Spec
INVARIANTS TableIsOpen SlotTakenOnlyWhileForgetting
INVARIANTS NullMeansClosedOrOpening 
\* the peers may be silent for ever
CHECK_DEADLOCK FALSE
