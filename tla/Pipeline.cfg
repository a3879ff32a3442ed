SPECIFICATION FairSpec
CONSTANTS
    i1 = i1
    e1 = e1
    Items <- MCItems
    Empty <- MCEmpty
    Scenarios <- MCScenarios
    None = None
CHECK_DEADLOCK FALSE
INVARIANTS
    TypeOK
    DispatchSettlesOnce
    ReadyIsPrepared
    ChunksMatchSummary
PROPERTIES
    DispatchIsAnnounced
