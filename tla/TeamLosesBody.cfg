\* Looks for a team deletion, with nothing interrupted, that leaves a file without
\* a body.
SPECIFICATION Spec
CONSTANTS
    File = {f1, f2}
    Key = {k1, k2, k3}
    Content = {c1, c2}
    Req = {r1, r2}
    Null = Null
    TeamRef = {"share", "use"}
    Interrupted = {}
INVARIANT NoMissingBody
CHECK_DEADLOCK FALSE
