SPECIFICATION Spec
CONSTANTS
    FS_MAX_PATH = 8
    MAX_COMPS = 3
    FS_MAX_FILES = 1
    FS_MAX_FILESIZE = 4
    FS_MAX_CHANGES = 1
    SystemNames <- MCSystem
    EM_BUF_SIZE = 4
    CMD_SIZE = 2
    CmdChars <- MCCmds
    Letters <- MCLetters
    Nl = "nl"
    Sp = "sp"
    Nul = "nul"
    Dictionary <- MCDictionary
    WORD_MIN = 1
    WORD_MAX = 6
    VGA_WIDTH = 2
    EM_TEXT_ROWS = 2
    Paths <- MCPaths
    InitTree <- MCNone
INVARIANTS
    HopFindsNext
    ScreenShowsText
PROPERTIES
    EditsAtCursor
    MovesByLine
    SaveKeepsText
VIEW
    EmView
