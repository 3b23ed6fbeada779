\* The life of the lock: losses, vanishing windows, deletion.  Nothing is saved.
CONSTANTS
    a = a
    b = b
    ann = ann
    bob = bob
    ea = ea
    eb = eb
    Windows = {a, b}
    Users = {ann, bob}
    Nobody = Nobody
    UserOf <- MCUserOf
    Edits = {eb}
    At <- BobTypes
    NoStamp = NoStamp
    SizeOf <- SameSize
    Ttl = 1
    Autosave = {}
    Events = {"trash"}
    InOrder = TRUE
    MaxStamp = 0
    MaxCalls = 1
    MaxLosses = 1
SPECIFICATION Spec
PROPERTIES
    GoneIsQuiet
    WaiterTakesOver
CHECK_DEADLOCK FALSE
