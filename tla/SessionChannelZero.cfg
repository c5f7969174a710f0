SPECIFICATION ChannelSpec
CONSTANTS
    MASK_BITS = 2
    REKEY_AFTER_MESSAGES = 3
    MaxKey = 0
INVARIANTS
    EveryPacketAtMostOnce
