CONSTANTS
  Message = {m1, m2}
  NoMessage = NoMessage
  MaxSize = 3
  MaxPush = 6
SPECIFICATION Spec
INVARIANT AssertQueueHolds
CHECK_DEADLOCK FALSE
