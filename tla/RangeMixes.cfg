\* A program resumes without If-Range a download of a local file that was saved.
CONSTANTS
    Scripts = {}
    Resumers = {p}
    Splitters = {}
    Limits = {1}
    Kinds = {"file"}
    Backends = {"local"}
    Size = 2
    MaxVersion = 1
    MaxBreaks = 1
SPECIFICATION Spec
INVARIANT
    CopyIsOneVersion
CHECK_DEADLOCK FALSE
