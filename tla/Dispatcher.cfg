SPECIFICATION FairSpec
CONSTANTS
    a = a
    b = b
    c = c
    Items <- MCItems
    Date <- MCDate
    Scenarios <- MCScenarios
    Undated = Undated
    None = None
    Policies = {"routine", "urgent"}
    Default = "routine"
INVARIANTS
    TypeOK
    DeliveredOncePerArm
    ArmsAreCaused
    NothingIsSkipped
PROPERTIES
    EditIsDelivered
    ArmedIsRetired
