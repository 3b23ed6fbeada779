\* Two terminals, one login with two polls under way, two releases of the tool.
SPECIFICATION Spec
CONSTANTS
    Login = {l1}
    Poll = {p1, p2}
    Job = {j1, j2}
    Null = Null
    Sources = 2
    Members = 2
    MaxRelease = 2
SYMMETRY CliSymmetry
INVARIANTS
    ProgramRuns
    OneTokenPerLogin
    NothingHalfIsPlaced
    PutIsPrefix
