CONSTANTS
  a = a
  b = b
  Worker = {a, b}
  Caller = {a}
  MaxCalls = 1
  MaxHops = 2
  EndTimes = {2}
  Infinite = 2
  BadEnds = {}
SPECIFICATION Spec
INVARIANT JoinedMeansDone
CHECK_DEADLOCK FALSE
