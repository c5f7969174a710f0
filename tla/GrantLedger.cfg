SPECIFICATION DiskSpec
SYMMETRY Symmetry
CONSTANTS
    GrantIds = {g1, g2}
    Signers = {s1}
    GRANT_ID_LEN = 1
    SIG_PUBKEY_LEN = 2
    U64_LEN = 1
    Garbled = garbled
    GarbledNum = 9
    MAX_LIVE = 1
    Expiries = {1, 5}
    MaxTime = 1
    MaxLog = 4
    Faults = TRUE
    RecoverAtOpen = FALSE
    Procs = {p1, p2, p3}
    MaxInodes = 4
    CertSizes = {0, 5}
    CaDirs <- MCCaDirs
    MAX_CERT = 4
    KEY_LEN = 2
    MaxDrawn = 5
INVARIANTS
    RestartExact
    AckedDurable
    OrphansExact
    LifeFaithful
    WritersDisjoint
PROPERTIES
    BootStable
