SPECIFICATION Spec
CONSTANTS
    KBD_BUF_SIZE = 3
    Scancodes <- MCScancodes
    Keys = {"q"}
    Packets = {}
    WireMax = 1
PROPERTY
    QueuedKeyIsRead
