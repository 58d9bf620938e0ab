CONSTANTS
  N = 3
  MaxGroups = 3
  Stores = {1, 2}
  Scripts <- SomeScripts
SPECIFICATION FairSpec
INVARIANTS SetUpTogether CommsAgree WaitMeansDone
PROPERTY EveryoneEnds
CHECK_DEADLOCK FALSE
