\* Looks for a login that is given two tokens.
SPECIFICATION Spec
CONSTANTS
    Item = {i1, i2}
    Login = {l1}
    Poll = {p1, p2}
    Null = Null
INVARIANT MintedOnce
CHECK_DEADLOCK FALSE
