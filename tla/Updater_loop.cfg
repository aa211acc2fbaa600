SPECIFICATION LiveSpec
CONSTANTS
    Tags <- MCFourTags
    Version <- MCFourVersion
    First = 1
    Bad = {2, 3}
    Quick = {2, 3}
    Fleeting = {3}
    Appliers = {loop}
    Loop = loop
    None = None
    Burst = 4
    MaxFaults = 0
    MaxCrashes = 1
    MaxReboots = 2
INVARIANT UndoPossible
PROPERTY NoPingPong
PROPERTY GoodUpdateLands
PROPERTY BadUpdateUndone
CHECK_DEADLOCK FALSE
INVARIANT CurrentComplete
PROPERTY DiskSpec
