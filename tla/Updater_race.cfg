SPECIFICATION Spec
CONSTANTS
    Tags <- MCTwoTags
    Version <- MCTwoVersion
    First = 1
    Bad = {}
    Quick = {}
    Fleeting = {}
    Appliers = {loop, handler}
    Loop = loop
    None = None
    Burst = 2
    MaxFaults = 0
    MaxCrashes = 0
    MaxReboots = 0
INVARIANT CurrentComplete
CHECK_DEADLOCK FALSE
