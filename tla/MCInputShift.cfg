SPECIFICATION Spec
CONSTANTS
    KBD_BUF_SIZE = 3
    Scancodes <- MCScancodes
    Keys = {"prtsc", "q"}
    Packets = {}
    WireMax = 4
INVARIANT
    NormalColumnAtRest
