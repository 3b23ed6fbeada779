\* Two files, three bodies at once (a save needs one more than there are files),
\* two requests.  Saves and team deletions run through (SaveLosesBody and
\* TeamLosesBody do not let them), everything else may fail anywhere.
SPECIFICATION Spec
CONSTANTS
    File = {f1, f2}
    Key = {k1, k2, k3}
    Content = {c1, c2}
    Req = {r1, r2}
    Null = Null
    TeamRef = {"share"}
    Interrupted = {"upload", "copy", "erase", "read"}
SYMMETRY Symmetry
INVARIANTS
    KeysDistinct
    NoMissingBody
    ReaderSeesOneVersion
    NothingIsLeftBehind
PROPERTIES
    ImplementsFileStore
CHECK_DEADLOCK FALSE
