CONSTANTS
  LenSize = 2
  MinSize = 3
  MaxSize = 6
  Size = {3, 4, 6}
  SendSize = 3
  MqSize = 3
  Room = 4
  MaxMessage = 3
SPECIFICATION Spec
INVARIANTS StreamConserved
PROPERTIES ImplementsFifo AllArrive
\* the sender may be silent for ever
CHECK_DEADLOCK FALSE
