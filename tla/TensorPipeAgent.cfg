SPECIFICATION FairSpec
CONSTANTS
  a = a
  b = b
  Worker = {a, b}
  Name = {"n", "m"}
  Caller = {a}
  MaxCalls = 1
  Chains <- SomeChains
  Expiries = {1, 2}
  Never = 2
  Breaks <- FromCaller
  Unmapped <- Unchained
INVARIANTS
  CountMatches
  JoinedMeansDone
PROPERTY
  JoinReturns
CHECK_DEADLOCK FALSE
