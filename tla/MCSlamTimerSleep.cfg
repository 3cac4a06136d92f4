CONSTANTS
  Ref = {r1, r2}
  Null = Null
  Interval = {1, 2}
  MaxTime = 4
SPECIFICATION Spec
INVARIANT SleepForeverOnlyIdle
