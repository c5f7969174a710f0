SPECIFICATION FairSessions
CONSTANTS
  MAX_SESSIONS = 2
  T_HS_IDLE = 1
  Statics <- MCStatics
  Certs <- MCCerts
  OwnerOf <- MCOwnerOf
  MaxHandshakes = 3
  Attempts = {1, 2, 3}
  OwnStatic <- MCOwnStatic
  StaticOf <- MCStaticOf
  TargetOf <- MCTargetOf
  OwnSig = "sig"
  TableSize = 2
  MaxFresh = 3
  MaxFailed = 0
  MaxMixed = 1
  WORD_BITS = 2
  WINDOW_WORDS = 3
  WINDOW_BITS = 6
  Counters = {0, 1, 2, 3, 4, 5, 6, 7, 8, 9}
  MASK_BITS = 2
  REKEY_AFTER_MESSAGES = 5
  MaxKey = 1
INVARIANTS MirrorExact BoundToPeer JudgedByOwnCert KeysAgree AtMostOnce WindowExact BitsExact NonceUnique NonzeroExact
PROPERTY SlotsRecycle
