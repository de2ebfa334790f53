SPECIFICATION PollSpec
CONSTANTS
    DrainMax = 2
    StaleBytes <- MCStale
    KeyBytes = {3, 170}
    KeyMax = 2
    LateMax = 2
    Config0 = 101
INVARIANTS
    QuietInitExact
    ConfigByteSource
    StrayAnswersBounded
PROPERTY
    InitFinishes
