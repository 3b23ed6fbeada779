\* Two programs ask for a folder by its second half first; one download is allowed.
CONSTANTS
    Scripts = {}
    Resumers = {}
    Splitters = {p, q}
    Limits = {1}
    Kinds = {"folder"}
    Backends = {"local"}
    Size = 2
    MaxVersion = 1
    MaxBreaks = 1
SPECIFICATION Spec
INVARIANT
    EveryCopyIsCounted
CHECK_DEADLOCK FALSE
