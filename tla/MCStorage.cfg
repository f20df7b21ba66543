CONSTANTS
    Txn = {t1, t2}
    Key = {k1, k2}
    MaxCommittedLogSize = 2
    MaxVersion = 4
    None = None
    Process = {p1, p2}
    NoToken = NoToken
    MaxOpen = 3
    MaxDamage = 4
    MaxRecs = 5
    MaxKey = 3
    NumSources = 3
    MaxDistinct = 2
    Row = {1, 2}
    Field = {1, 2}
    BlockSize = 1
    MaxWrites = 4
SPECIFICATION PartsSpec
SYMMETRY Interchangeable
CHECK_DEADLOCK FALSE
INVARIANTS NoLostUpdateInWindow IndInv DirectoryGuarded LogRecovered RowsFound
PROPERTY CommitsAtomic
