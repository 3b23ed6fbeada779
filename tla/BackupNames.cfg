\* Two owners have the same nickname: joji@a.example and joji@b.example.
CONSTANTS
    ann = ann
    bob = bob
    Spaces = {ann, bob}
    NameOf <- OneName
    Runners = {"loop"}
    Month = 2
    Keep <- MCKeep
    MaxVersion = 1
    MaxNow = 0
    MaxFails = 1
SPECIFICATION Spec
INVARIANT
    CompleteIsRestorable
CHECK_DEADLOCK FALSE
