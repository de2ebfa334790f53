SPECIFICATION Spec
CONSTANTS
    FS_MAX_PATH = 6
    MAX_COMPS = 3
    CALC_BITS = 4
    INT_BITS = 3
    MAX_ARGS = 3
    ASM_SIZE = 4
    PAGER_TEXT_ROWS = 24
    WHEEL_LINES = 3
    PAGE_LINES = 20
    Modes = {"path", "calc", "line", "asm", "page"}
    CalcChars = {"0", "1", "8", "+", "-", "*", "/", "%", "x", "(", ")", " "}
    Args <- MCArgs
    Alphabet <- MCAlphabet
    MAX_TYPED <- MCTyped
INVARIANTS
    Canonical
    CalcAgrees
    LineAsTyped
    PageServed
PROPERTY
    MatchesReference
