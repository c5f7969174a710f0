SPECIFICATION Spec
CONSTANTS
    GrantIds = {g1, g2}
    Signers = {s1}
    GRANT_ID_LEN = 1
    SIG_PUBKEY_LEN = 2
    U64_LEN = 1
    Garbled = garbled
    GarbledNum = 9
    MAX_LIVE = 2
    Expiries = {1, 5}
    MaxTime = 1
    MaxLog = 8
    Faults = FALSE
    RecoverAtOpen = TRUE
INVARIANTS
    RevocationDurable
