SPECIFICATION FairControl
CONSTANTS
  Conns = {c1, c2}
  Requests <- AllRequests
  MAX_CLIENTS = 1
  CONN_TIMEOUT = 1
  SLOWLORIS_SIZE = 3
  IntentIds = {i1, i2}
  Resources = {"r1", "r2"}
  MAX_PENDING = 1
  T_PENDING_MS = 1
  Unresolved = {"UnknownResource", "BufferTooSmall"}
  Refusals <- AllRefusals
  MaxHandled = 3
  MaxTime = 1
  Tags = {"IntentAdmitted", "EffectRefused"}
  RING_CAP = 2
  Forms = {0, 1, 6}
  MaxSeq = 5
INVARIANTS OneWholeReply CountersReconcile FeedExact
PROPERTIES ConnsEnd
