SPECIFICATION FairSpec
CONSTANTS
  a = a
  b = b
  c = c
  Worker = {a, b, c}
  Starter = a
  Plans <- TwiceAndNested
  Top = 0
  Root = Root
  MaxFails = 0
INVARIANTS
  BackwardComplete
CHECK_DEADLOCK FALSE
