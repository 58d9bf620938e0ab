CONSTANTS
  c1 = c1
  c2 = c2
  Client = {c1, c2}
  Char = {"1", "2", "k", "/"}
  Prefix <- FourPrefixes
  PrefixOf <- ApartOrNested
  Names <- NamesOf
  Key <- JoinedKeys
  Text = Text
  None = None
  SetValue = {Text}
  WaitKeys <- AnyKeys
  CleanupKey = CleanupKey
  Calls = {"set", "add", "check", "getNumKeys", "deleteKey", "wait", "get"}
  Timeouts = TRUE
  MaxCount = 2
  MaxLog = 2
SPECIFICATION PSpec
INVARIANT SleepersLackKey
INVARIANT FileRemovedLast
PROPERTY ImplementsStore
PROPERTY FileImplementsStore
PROPERTY PrefixesApart
PROPERTY CallsReturn
CHECK_DEADLOCK FALSE
