\* Three rows in two spaces, one typed name, the clock: every shape of the tree,
\* name collisions, nested trash, moves between spaces, the sweep.
SPECIFICATION Spec
CONSTANTS
    NodeId = {n1, n2, n3}
    Space = {s1, s2}
    TeamSpaces = {s2}
    Stem = {a}
    Typed <- Plain
    Null = Null
    MaxSuffix = 3
    MaxTags = 1
    Retention = 0
    MaxTime = 1
SYMMETRY Symmetry
INVARIANTS
    TypeOK
    Rooted
    ParentIsFolder
    SpaceFollowsParent
    SameTypeNamesDiffer
    HiddenIsInSomeTrash
PROPERTIES
    ErasedFromTrashOrByForce
    OnlyDeleteHides
    MoveInPlaceIsIdle
CHECK_DEADLOCK FALSE
