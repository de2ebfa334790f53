SPECIFICATION Spec
CONSTANTS
    FS_MAX_PATH = 11
    MAX_COMPS = 3
    FS_MAX_FILES = 4
    FS_MAX_FILESIZE = 2
    FS_MAX_CHANGES = 2
    SystemNames <- MCSystem
    Args <- MCArgs
    Texts <- MCTexts
    Home <- MCHome
    InitTree <- MCTreeFile
PROPERTY
    SystemNeedsConfirmation
