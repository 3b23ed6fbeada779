\* As Editing, without timers, but a window may have two calls under way and a third text is saved.
CONSTANTS
    a = a
    b = b
    ann = ann
    bob = bob
    ea = ea
    eb = eb
    Windows = {a, b}
    Users = {ann, bob}
    Nobody = Nobody
    UserOf <- MCUserOf
    Edits = {ea, eb}
    At <- BothType
    NoStamp = NoStamp
    SizeOf <- SameSize
    Ttl = 1
    Autosave = {}
    Events = {}
    InOrder = TRUE
    MaxStamp = 3
    MaxCalls = 2
    MaxLosses = 0
SPECIFICATION Spec
SYMMETRY Exchange
PROPERTIES
    StampedSaveKeepsText
CHECK_DEADLOCK FALSE
