\* The client may take nothing for a second.
CONSTANTS
    Plan <- MCPlan
    Capacity = 2
    PrefetchMax = 2
    PrefetchBytes = 2
    ReadsFail = TRUE
    Stalls = TRUE
SPECIFICATION Spec
INVARIANT
    ErrorIsPassedOn
CHECK_DEADLOCK FALSE
