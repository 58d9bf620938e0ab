CONSTANTS
  a = a
  b = b
  Worker = {a, b}
  Caller = {a}
  MaxCalls = 1
  MaxHops = 1
  EndTimes = {1, 2}
  Infinite = 2
  BadEnds = {2}
SPECIFICATION FairSpec
INVARIANT NeverOversleeps
INVARIANT CountsBalance
INVARIANT ActiveCallsBalance
PROPERTY JoinReturns
CHECK_DEADLOCK FALSE
