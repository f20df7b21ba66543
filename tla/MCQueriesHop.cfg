CONSTANTS
    Dead = Dead
    Empty = Empty
    Rfc3339 <- MCRfc3339
    Contained <- MCContained
    Relation <- MCRelation
    Forward = Forward
    NoCover = NoCover
    NoBytes = NoBytes
    NoRules = NoRules
    Words = 1
    ExactFilterMax = 10
    MaxPool = 100
    StopWord <- MCStopWord
    Stem <- MCStem
    MaxWords = 4
    MaxTerm = 4
    MinPrefix = 2
    MaxQueryTerms = 4
    MaxPhrase = 3
    MaxExpansion = 2
    MaxExpansionScan = 3
    ScanChunk = 2
    Types = {1, 2}
    Target <- MCTarget
    Vectorized <- MCVectorized
    IMPORT_CHUNK = 2
    Null = Null
    EXACT_FILTER_MAX = 3
    Infinity = 100
    Off = Off
SPECIFICATION Spec
CHECK_DEADLOCK FALSE
INVARIANT TraversalComplete
