\* At most two downloads, bodies of two pieces, one save, two broken connections.
CONSTANTS
    Scripts = {s}
    Resumers = {p}
    Splitters = {q}
    Limits = {1, 2}
    Kinds = {"file", "folder"}
    Backends = {"local", "r2"}
    Size = 2
    MaxVersion = 1
    MaxBreaks = 2
SPECIFICATION FairSpec
INVARIANTS
    CopiesWithinLimit
    LocalCopyIsOneVersion
PROPERTIES
    ResumeFinishes
CHECK_DEADLOCK FALSE
