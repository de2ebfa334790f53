SPECIFICATION Spec
CONSTANTS
    VGA_WIDTH = 5
    VGA_HEIGHT = 3
    Blank = " "
    HIST_MAX = 2
    CMD_MAX_LEN = 3
    Letters <- MCLetters
    Prompt <- MCPrompt
    Outputs <- MCOutputs
    PAGER_TEXT_ROWS = 2
    WHEEL_LINES = 1
    PAGE_LINES = 2
    Docs <- MCDocs
    MaxHistory = 4
INVARIANTS
    ScreenShowsLine
    PageOnScreen
PROPERTY
    RecallsTheRightOne
