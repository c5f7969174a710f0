SPECIFICATION TablesSpec
CONSTANTS
  MAX_CONTEXTS = 2
  MAX_FRAGMENTS = 3
  MAX_MESSAGE = 4
  MEMORY_PER_PEER = 5
  INCOMPLETE_TIMEOUT = 1
  MsgIds = {1, 2, 3}
  Sizes = {1, 3}
  Indices = {0, 1, 2}
  Totals = {2, 3, 4}
  Recipients = {"a", "b"}
  Lengths = {1, 3, 4}
  MAX_BODY = 3
  MAX_PER_RECIPIENT = 2
  MAX_BYTES_PER_RECIPIENT = 4
  TTL_MS = 2
  MAX_STORED = 3
  MaxClock = 2
  MaxSent = 4
  Peers = {"p", "q", "r"}
  BUDGET = 2
  RATE_WINDOW = 3
  MAX_TRACKED_PEERS = 2
  MaxTime = 5
  Bytes = {0, 2, 3}
  MaxWire = 9
  MAX_FIELD = 2
  MAX_COUNT = 2
  UNIT = 2
  MAX_CA_SIGS = 2
  Addrs = {"x", "y", "z"}
  Clients = {1, 2}
  Expiries = {1, 3, 4}
  MAX_EXPIRY = 3
  TIMESTAMP_SKEW = 1
  MAX_RELAY_TABLE = 2
  Ports = {80, 81, 82}
  MAX_ENDPOINTS = 2
  MaxMoment = 5
INVARIANTS AccountExact CompleteExact RelayExact BudgetExact CodecExact MeshExact
