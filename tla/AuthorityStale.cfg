SPECIFICATION BothSpec
CONSTANTS
  IntentIds = {"i1", "i2", "i3"}
  Resources = {"r1", "r2", "rf"}
  MAX_PENDING = 2
  T_PENDING_MS = 1
  Foreign = {"rf"}
  Aliases <- MCAliases
  Parties = {"ag1", "ag2", "ap"}
  CertOf <- MCCertOf
  PathsOf <- MCPathsOf
  Self = "ex"
  Actions = {"a", "b", "big"}
  LargeActions = {"big"}
  Requests <- MCRequests
  Grants <- MCGrants
  T_MAX = 3
  T_RECV = 1
  MAX_LIVE = 1
  MaxNow = 2
  MaxAdmissions = 2
  MaxTime = 3
INVARIANT SenderBound
