SPECIFICATION FairSpec
CONSTANTS
    Clips <- MCClips
    Safe <- MCSafe
    Unusable <- MCUnusable
    Scenarios <- MCScenarios
    None = None
INVARIANTS
    TypeOK
    PlayedOnce
    ClipsSurvive
PROPERTIES
    IdleMeansIdle
    EveryClipIsFiled
