\* Someone runs scripts/backup_now.py while the loop runs.
CONSTANTS
    ann = ann
    bob = bob
    Spaces = {ann, bob}
    NameOf <- TwoNames
    Runners = {"loop", "script"}
    Month = 2
    Keep <- MCKeep
    MaxVersion = 1
    MaxNow = 0
    MaxFails = 1
SPECIFICATION Spec
INVARIANT
    CompleteIsRestorable
CHECK_DEADLOCK FALSE
