CONSTANTS
  c1 = c1
  c2 = c2
  k1 = k1
  k2 = k2
  Client = {c1, c2}
  Key = {k1, k2}
  Text = Text
  None = None
  SetValue = {Text}
  WaitKeys <- AllKeys
  Calls = {"set", "deleteKey", "wait", "get"}
  Timeouts = TRUE
  Exits = TRUE
  SizeT = 16
  MaxAhead = 0
  MaxStale = 0
  MaxWaiting = 2
  MaxWrap = 1
  MaxCount = 1
SPECIFICATION Spec
SYMMETRY StoreSymmetry
INVARIANT ClosedIsForgotten
INVARIANT CountCovered
CHECK_DEADLOCK FALSE
