\* Looks for a save that leaves a file without a body.
SPECIFICATION Spec
CONSTANTS
    File = {f1, f2}
    Key = {k1, k2, k3}
    Content = {c1, c2}
    Req = {r1, r2}
    Null = Null
    TeamRef = {"share"}
    Interrupted = {"save"}
INVARIANT NoMissingBody
CHECK_DEADLOCK FALSE
