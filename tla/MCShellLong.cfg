SPECIFICATION ShellSpec
CONSTANTS
    FS_MAX_PATH = 8
    MAX_COMPS = 2
    FS_MAX_FILES = 1
    FS_MAX_FILESIZE = 2
    FS_MAX_CHANGES = 1
    SystemNames <- MCSystem
    Args <- MCArgs
    Texts <- MCTexts
    Home <- MCHome
    InitTree <- MCTree
    MAX_PROCS = 4
    Names <- MCLong
    Stored <- MCStored
INVARIANT UniqueNames
