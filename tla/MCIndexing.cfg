CONSTANTS
    None = None
    QueueSetups <- AllQueues
    o1 = o1
    o2 = o2
    c1 = c1
    c2 = c2
    w1 = w1
    w2 = w2
    Window = 2
    BatchSize = 2
    Retries = 1
    MaxJob = 6
    MaxText = 2
    TextSetups <- AllTexts
    New = New
    Gone = Gone
    Null = Null
    NoMarker = NoMarker
    Off = Off
    StopWord <- StopWords
    Stem <- Stems
    MaxWords = 9
    MaxTerm = 9
    BuildChunk = 1
    DropChunk = 2
SPECIFICATION Spec
CHECK_DEADLOCK FALSE
INVARIANTS JobsKept VectorsConverge SearchableExact
PROPERTY IndexingSettles
