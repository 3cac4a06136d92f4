CONSTANTS
  Peer = {p1, p2}
  Client = {}
  Listener = Listener
  None = None
  Fd = {1, 2}
  MqSize = 3
  SendSize = 2
  SendRoom = 1
  MaxPackage = 1
  MaxResponse = 1
SPECIFICATION Spec
INVARIANTS NoLostWakeup NoForgottenResponse
PROPERTIES EventOrder MisdirectedOnlyBeforeLost
SYMMETRY PeerSymmetry
\* the peers may be silent for ever
CHECK_DEADLOCK FALSE
