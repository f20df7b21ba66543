CONSTANTS
    Key = {a}
    Reader = {r1}
    MaxVersion = 3
    MaxSstId = 4
    Configs <- Queried
    ENTRIES_PER_BLOCK = 2
    ID_BYTES = 2
    GEN_BYTES = 1
SPECIFICATION PartsSpec
CHECK_DEADLOCK FALSE
INVARIANT ScanAlwaysSeesSnapshot
