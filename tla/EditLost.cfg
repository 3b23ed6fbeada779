\* As Editing, without timers.
CONSTANTS
    a = a
    b = b
    ann = ann
    bob = bob
    ea = ea
    eb = eb
    Windows = {a, b}
    Users = {ann, bob}
    Nobody = Nobody
    UserOf <- MCUserOf
    Edits = {ea, eb}
    At <- BothType
    NoStamp = NoStamp
    SizeOf <- SameSize
    Ttl = 1
    Autosave = {}
    Events = {}
    InOrder = TRUE
    MaxStamp = 2
    MaxCalls = 1
    MaxLosses = 0
SPECIFICATION Spec
PROPERTIES
    NothingSavedIsLost
CHECK_DEADLOCK FALSE
