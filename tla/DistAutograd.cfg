SPECIFICATION FairSpec
CONSTANTS
  a = a
  b = b
  c = c
  Worker = {a, b, c}
  Starter = a
  Plans <- SomePlans
  Top = 0
  Root = Root
  MaxFails = 1
INVARIANTS
  BackwardComplete
  FailsOnlyByRpc
PROPERTIES
  BackwardReturns
  ContextsReleased
CHECK_DEADLOCK FALSE
