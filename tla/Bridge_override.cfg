SPECIFICATION FairSpec
CONSTANTS
    Requests = {r1, r2}
    Channels <- MCChannels
    Zero = 0
    Schedules <- MCTwoSchedules
    Blank = 0
    Phases <- MCFlatDay
    Curve <- MCFlatCurve
    Overrides <- MCBoth
    Hands <- MCHands
    Bodies <- MCManualBody
    None = None
    Ops = {"override", "kick", "read"}
    MaxRequests = 3
    MaxFaults = 0
    MaxRestarts = 0
INVARIANT OverrideShines
PROPERTY OverrideLightEnds
