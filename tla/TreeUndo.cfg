\* Three items, gestures on one or two of them, anybody else at any moment.
SPECIFICATION USpec
CONSTANTS
    NodeId = {n1, n2, n3}
    Space = {s1}
    TeamSpaces = {s1}
    Stem = {a}
    Typed <- Plain
    Null = Null
    MaxSuffix = 2
    MaxTags = 1
    Retention = 0
    MaxTime = 0
    MaxItems = 2
SYMMETRY Symmetry
INVARIANTS
    UndoneMoveIsBack
    UndoneRenameIsExact
PROPERTIES
    UndoAloneSucceeds
CHECK_DEADLOCK FALSE
