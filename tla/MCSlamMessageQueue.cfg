CONSTANTS
  Message = {m1, m2}
  NoMessage = NoMessage
  MaxSize = 3
  MaxPush = 6
SPECIFICATION Spec
INVARIANTS FifoOrder NoUnreadOverwrite DeleteFreesTheRest
PROPERTIES FrontIsPopped ImplementsFifo
\* the process stops when an assert fails and when the queue is deleted
CHECK_DEADLOCK FALSE
