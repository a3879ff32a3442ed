SPECIFICATION Spec
CONSTANTS
    i1 = i1
    i2 = i2
    i3 = i3
    Items <- MCItems
    EventKey <- MCEventKey
    Date <- MCDate
    Chunks <- MCChunks
    ChunkSets <- MCChunkSets
    Scenarios <- MCScenarios
    NoKey = "none"
    None = None
    QueueSizes = {0, 1, 2}
    MaxRowid = 8
    MaxCap = 2
    FirstDue = {TRUE}
    Messages = {1, 2}
INVARIANTS
    TypeOK
    WithinBudget
    CancelledAirsAtMostOnce
    EventArmsOnce
PROPERTIES
    TrimSparesTheNewest
    ManualDelivery
