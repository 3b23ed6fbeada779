\* Looks for items that stay due for ever.
SPECIFICATION Spec
CONSTANTS
    Item = {i1, i2}
    Login = {l1}
    Poll = {p1, p2}
    Null = Null
PROPERTY NothingStaysDue
CHECK_DEADLOCK FALSE
