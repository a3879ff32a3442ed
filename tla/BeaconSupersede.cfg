SPECIFICATION MCQuietSpec
CONSTANTS
    i1 = i1
    i2 = i2
    i3 = i3
    Items <- MCPair
    EventKey <- MCPairEventKey
    Date <- MCPairDate
    Chunks <- MCChunks
    ChunkSets <- MCChunkSets
    Scenarios <- MCSupersedeScenarios
    NoKey = "none"
    None = None
    QueueSizes = {0, 1, 2}
    MaxRowid = 8
    MaxCap = 2
    FirstDue = {TRUE}
    Messages = {1}
PROPERTIES
    SupersededStaysOff
