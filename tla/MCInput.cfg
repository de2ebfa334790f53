SPECIFICATION Spec
CONSTANTS
    KBD_BUF_SIZE = 2
    Scancodes <- MCScancodes
    Keys = {"altgr", "q"}
    Packets <- MCPackets
    WireMax = 2
INVARIANTS
    AltGrTracks
    PacketInFrame
PROPERTIES
    KeyboardServed
