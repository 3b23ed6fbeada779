\* Two chunks in the queue, at most two bodies open, reads that break off, a client that
\* may take nothing for a second.
CONSTANTS
    Plan <- MCPlan
    Capacity = 2
    PrefetchMax = 2
    PrefetchBytes = 2
    ReadsFail = TRUE
    Stalls = TRUE
SPECIFICATION FairSpec
INVARIANTS
    OpenBounded
PROPERTIES
    ImplementsByteStream
    ThreadEnds
    ClientIsTold
CHECK_DEADLOCK FALSE
