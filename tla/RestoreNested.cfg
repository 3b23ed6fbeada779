\* Looks for a run of requests that breaks RestoredIsVisible.
SPECIFICATION Spec
CONSTANTS
    NodeId = {n1, n2, n3}
    Space = {s1}
    TeamSpaces = {}
    Stem = {a}
    Typed <- Plain
    Null = Null
    MaxSuffix = 3
    MaxTags = 1
    Retention = 0
    MaxTime = 0
PROPERTY RestoredIsVisible
CHECK_DEADLOCK FALSE
