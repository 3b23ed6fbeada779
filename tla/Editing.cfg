\* Two users edit one document and keep its size; autosave on for both.
CONSTANTS
    a = a
    b = b
    ann = ann
    bob = bob
    ea = ea
    eb = eb
    Windows = {a, b}
    Users = {ann, bob}
    Nobody = Nobody
    UserOf <- MCUserOf
    Edits = {ea, eb}
    At <- BothType
    NoStamp = NoStamp
    SizeOf <- SameSize
    Ttl = 1
    Autosave = {a, b}
    Events = {"index"}
    InOrder = TRUE
    MaxStamp = 2
    MaxCalls = 1
    MaxLosses = 0
SPECIFICATION Spec
SYMMETRY Exchange
INVARIANTS
    OneLease
    IndexFollowsBody
PROPERTIES
    StampedSaveKeepsText
CHECK_DEADLOCK FALSE
