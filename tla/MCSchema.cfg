CONSTANTS
    PlanSetups <- AllPlans
    Op = {o1, o2}
    Driver = Driver
    None = None
    MaxId = 4
    CatalogSetups <- AllCatalogs
    TypeOrder <- TypesInOrder
    MaxRenameHistory = 2
    MaxTypeChangeHistory = 2
    Migrators = {m1, m2}
    NoOne = NoOne
SPECIFICATION Spec
CHECK_DEADLOCK FALSE
SYMMETRY Symmetric
INVARIANTS LastWriteKept OutcomesExact NamesAgree LogExact
PROPERTY IdentitiesPersist
