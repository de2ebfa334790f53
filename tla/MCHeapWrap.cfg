SPECIFICATION Spec
CONSTANTS
    HEAP_TOTAL = 16
    HEAP_ALIGNMENT = 2
    HDR = 2
    SIZE_MOD = 64
    Requests = {1, 63}
    TestSizes <- MCTestSizes
INVARIANT
    ClientsOwnBlocks
