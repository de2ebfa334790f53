SPECIFICATION Spec
CONSTANTS
    HEAP_TOTAL = 26
    HEAP_ALIGNMENT = 2
    HDR = 2
    SIZE_MOD = 64
    Requests = {0, 5}
    TestSizes <- MCTestSizes
INVARIANTS
    ListSound
    ClientsOwnBlocks
    DoubleFreeNoticed
    Accounting
    FailsOnlyWhenFull
    SelfTestRestores
VIEW
    HeapView
