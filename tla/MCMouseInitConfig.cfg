SPECIFICATION PollSpec
CONSTANTS
    DrainMax = 2
    StaleBytes <- MCStale
    KeyBytes = {3}
    KeyMax = 1
    LateMax = 0
    Config0 = 101
INVARIANT ConfigPreserved
