SPECIFICATION Spec
CONSTANTS
    FS_MAX_PATH = 6
    MAX_COMPS = 3
    CALC_BITS = 8
    INT_BITS = 8
    MAX_ARGS = 3
    ASM_SIZE = 3
    PAGER_TEXT_ROWS = 24
    WHEEL_LINES = 3
    PAGE_LINES = 20
    Modes = {"calc"}
    CalcChars = {"0", "1", "x", "+", " "}
    Args <- MCArgs
    Alphabet <- MCAlphabet
    MAX_TYPED <- MCTyped
INVARIANT
    HexAgrees
