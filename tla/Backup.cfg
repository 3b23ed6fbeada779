\* Three weeks; the newest weekly round and the two newest monthly ones are kept;
\* runs that die and unreadable bodies, two in all.
CONSTANTS
    ann = ann
    bob = bob
    Spaces = {ann, bob}
    NameOf <- TwoNames
    Runners = {"loop"}
    Month = 2
    Keep <- MCKeep
    MaxVersion = 1
    MaxNow = 2
    MaxFails = 2
SPECIFICATION FairSpec
INVARIANTS
    CompleteIsRestorable
PROPERTIES
    NewestIsKept
    RoundIsMade
CHECK_DEADLOCK FALSE
