CONSTANTS
    Txn = {t1, t2}
    Key = {k1, k2}
    MaxCommittedLogSize = 8
    MaxVersion = 4
    None = None
SPECIFICATION Spec
INVARIANT NoLostUpdate
