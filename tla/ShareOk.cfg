\* One person uses the one-line command while the file is saved.
CONSTANTS
    Scripts = {s}
    Resumers = {p}
    Splitters = {}
    Limits = {2}
    Kinds = {"file"}
    Backends = {"local", "r2"}
    Size = 2
    MaxVersion = 1
    MaxBreaks = 1
SPECIFICATION Spec
INVARIANT
    OkIsChecked
CHECK_DEADLOCK FALSE
