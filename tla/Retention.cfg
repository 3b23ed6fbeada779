\* Two items, one of which may hold the other's erasure up; one login with two
\* polls under way.
SPECIFICATION Spec
CONSTANTS
    Item = {i1, i2}
    Login = {l1}
    Poll = {p1, p2}
    Null = Null
INVARIANTS
    TokenNeedsApproval
    ScopeExists
PROPERTIES
    DueIsErased
    ApprovalArrives
CHECK_DEADLOCK FALSE
