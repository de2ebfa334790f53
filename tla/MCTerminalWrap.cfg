SPECIFICATION Spec
CONSTANTS
    VGA_WIDTH = 3
    VGA_HEIGHT = 2
    Blank = " "
    HIST_MAX = 2
    CMD_MAX_LEN = 4
    Letters <- MCLetters
    Prompt <- MCPrompt
    Outputs <- MCOutputs
    PAGER_TEXT_ROWS = 1
    WHEEL_LINES = 1
    PAGE_LINES = 1
    Docs <- MCNoDocs
    MaxHistory = 4
PROPERTY
    RecallShowsLine
