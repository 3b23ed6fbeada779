\* One user types twice; saving changes the size.
CONSTANTS
    a = a
    b = b
    ann = ann
    bob = bob
    ea = ea
    eb = eb
    Windows = {a, b}
    Users = {ann, bob}
    Nobody = Nobody
    UserOf <- MCUserOf
    Edits = {ea, eb}
    At <- AnnTypes
    NoStamp = NoStamp
    SizeOf <- Growing
    Ttl = 1
    Autosave = {a, b}
    Events = {}
    InOrder = TRUE
    MaxStamp = 2
    MaxCalls = 1
    MaxLosses = 0
SPECIFICATION Spec
INVARIANTS
    DirtyMeansChanged
CHECK_DEADLOCK FALSE
