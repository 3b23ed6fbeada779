\* The client may take nothing for a second; every body can be read.
CONSTANTS
    Plan <- MCPlan
    Capacity = 2
    PrefetchMax = 2
    PrefetchBytes = 2
    ReadsFail = FALSE
    Stalls = TRUE
SPECIFICATION FairSpec
PROPERTY
    AlwaysTold
CHECK_DEADLOCK FALSE
