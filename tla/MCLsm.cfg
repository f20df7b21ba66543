CONSTANTS
    Key = {a, b}
    Reader = {r1}
    MaxVersion = 3
    MaxSstId = 4
    Configs <- Deployments
    ENTRIES_PER_BLOCK = 2
    ID_BYTES = 2
    GEN_BYTES = 1
SPECIFICATION PartsSpec
SYMMETRY Interchangeable
CHECK_DEADLOCK FALSE
INVARIANTS LatestReadable RecoveredWhole ReadsSeeSnapshot
PROPERTIES PublishedDurable StoredFound CodecsExact TextsReparsed AbsenceNeverGrants
