SPECIFICATION Spec
CONSTANTS
    Tags <- MCTags
    Version <- MCVersion
    First = 1
    Bad = {2}
    Quick = {2}
    Fleeting = {}
    Appliers = {loop, handler}
    Loop = loop
    None = None
    Burst = 2
    MaxFaults = 1
    MaxCrashes = 2
    MaxReboots = 1
CHECK_DEADLOCK FALSE
INVARIANT TypeOK
INVARIANT RollbackTargetRan
PROPERTY ConfirmedStands
