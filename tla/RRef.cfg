CONSTANTS
  o = o
  a = a
  Worker = {o, a}
  Owner = o
  f1 = f1
  f2 = f2
  Fork = {f1, f2}
  RRefId = RRefId
  MaxRetries = 1
  SendErrors = TRUE
  EarlyShare = {}
  ScriptPath = TRUE
  RemoteErrors = {"timeout", "unknown"}
SPECIFICATION MCSpec
INVARIANT OwnerOutlivesUsers
INVARIANT ParentOutlivesChild
INVARIANT OneOwnerRRef
INVARIANT FetchNotStranded
PROPERTY ReleasedIfReliable
PROPERTY ToHereReturnsIfReliable
CHECK_DEADLOCK FALSE
