\* Looks for a half folder where a download goes.
SPECIFICATION Spec
CONSTANTS
    Login = {l1}
    Poll = {p1, p2}
    Job = {j1, j2}
    Null = Null
    Sources = 2
    Members = 2
    MaxRelease = 2
INVARIANT NoHalfFolder
