CONSTANTS
    ENTRIES_PER_BLOCK = 2
    ID_BYTES = 2
    GEN_BYTES = 1
SPECIFICATION Spec
CHECK_DEADLOCK FALSE
INVARIANT EveryKeyFound
