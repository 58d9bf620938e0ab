CONSTANTS
  c1 = c1
  c2 = c2
  k1 = k1
  k2 = k2
  Client = {c1, c2}
  Key = {k1, k2}
  Text = Text
  None = None
  SetValue = {Text}
  WaitKeys <- Singletons
  Calls = {"set", "add", "check", "getNumKeys", "wait", "get"}
  Timeouts = FALSE
  Exits = FALSE
  SizeT = 16
  MaxAhead = 1
  MaxStale = 1
  MaxWaiting = 3
  MaxWrap = 1
  MaxCount = 2
SPECIFICATION FairSpec
PROPERTY ImplementsStore
PROPERTY CallsReturn
CHECK_DEADLOCK FALSE
