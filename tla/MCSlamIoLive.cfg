CONSTANTS
  Peer = {p1}
  Client = {}
  Listener = Listener
  None = None
  Fd = {1, 2}
  MqSize = 3
  SendSize = 2
  SendRoom = 1
  MaxPackage = 1
  MaxResponse = 1
SPECIFICATION Spec
PROPERTIES MessagesHandled   CloseDestroys
\* the peers may be silent for ever
CHECK_DEADLOCK FALSE
