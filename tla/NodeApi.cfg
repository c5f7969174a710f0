SPECIFICATION FairSpec
CONSTANTS
  IntentIds = {i1}
  Resources = {"r1"}
  MAX_PENDING = 1
  T_PENDING_MS = 1
  Unresolved = {"UnknownResource"}
  Refusals = {}
  MaxHandled = 2
  MaxTime = 2
PROPERTY PendingExpires
