SPECIFICATION KbdSpec
CONSTANTS
    KBD_BUF_SIZE = 3
    Scancodes <- MCScancodes
INVARIANTS
    KbdTypeOK
    LatchedKey
PROPERTY
    KeyQueueSafety
