SPECIFICATION LedgerSpec
CONSTANTS
  Envelopes <- MCEnvelopes
  WINDOW_BITS = 2
  MAX_ENVELOPES = 5
  MAX_SEQ_WINDOWS = 2
  Pubkeys = {k1, k2, k3}
  Hashes = {h1, h2}
  Expiries = {1, 2, 9}
  MAX_ANCHORS = 1
  MAX_REVOCATIONS = 2
  Nodes = {1, 2, 3, 4, 5}
  MAX_NODES = 4
  MAX_PARENTS = 2
  Anchor = 1
  Revoke = 2
  Spans <- MCSpans
  SpanIds = {1, 2}
  Subject = "res"
  Stated = {200}
  Origins = {"o1", "o2"}
  MaxSpans = 2
  MaxCites = 2
  MaxHash = 5
  Graphs <- MCGraphs
  WireLen <- MCWireLen
  WALK_MAX_DEPTH = 3
  WALK_MAX_TOTAL = 4
  MAX_RESPONSE_ENVELOPES = 2
  MAX_RESPONSE_BYTES = 7
  RESPONSE_HEADER = 2
  MaxWalks = 4
INVARIANTS OneDispatchPerSeq ParentsClosed WindowsMatchStore KeepsLatest CausalExact WalkExact
PROPERTIES EvidenceExact
