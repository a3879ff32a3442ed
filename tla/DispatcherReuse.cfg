SPECIFICATION Spec
CONSTANTS
    a = a
    b = b
    c = c
    Items <- MCPair
    Date <- MCPairDate
    Scenarios <- MCReuseScenarios
    Undated = Undated
    None = None
    Policies = {"routine", "urgent"}
    Default = "routine"
INVARIANTS
    NewItemsAreDiscovered
