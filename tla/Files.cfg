SPECIFICATION Spec
CONSTANTS
    Requests = {r1, r2}
    Values = {fresh, used}
    Default = fresh
    Zones = {here, there}
    Size <- MCSize
    Legacy <- MCLegacy
    None = None
    MaxRequests = 3
    MaxFaults = 1
    MaxStops = 2
INVARIANT TypeOK
INVARIANT StoreIsSaved
INVARIANT EffectsAreSaved
INVARIANT StartsAgain
INVARIANT ProfileIsWhole
INVARIANT SwitchSurvives
CHECK_DEADLOCK FALSE
