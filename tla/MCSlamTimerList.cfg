CONSTANTS
  Ref = {r1, r2, r3}
  Null = Null
  Interval = {1, 2}
  MaxTime = 3
SPECIFICATION Spec
INVARIANTS DoublyLinked Ordered NoDanglingNode ClosureHeld
PROPERTIES RunEnds DueTimerFires
