SPECIFICATION Spec
CONSTANTS
    i1 = i1
    e1 = e1
    Items <- MCOne
    Empty <- MCNone
    Scenarios <- MCAbortScenarios
    None = None
CHECK_DEADLOCK FALSE
PROPERTIES
    AbortedStaysOff
