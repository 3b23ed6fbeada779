\* Looks for a gesture and an undo that break UndoneMoveKeepsNames.
SPECIFICATION USpec
CONSTANTS
    NodeId = {n1, n2, n3}
    Space = {s1}
    TeamSpaces = {}
    Stem = {a}
    Typed <- Plain
    Null = Null
    MaxSuffix = 2
    MaxTags = 1
    Retention = 0
    MaxTime = 0
    MaxItems = 2
INVARIANT UndoneMoveKeepsNames
CHECK_DEADLOCK FALSE
