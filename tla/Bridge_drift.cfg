SPECIFICATION FairSpec
CONSTANTS
    Requests = {r1, r2}
    Channels <- MCChannels
    Zero = 0
    Schedules <- MCSchedules
    Blank = 0
    Phases <- MCFlatDay
    Curve <- MCFlatDayCurve
    Overrides <- MCFeed
    Hands <- MCHands
    Bodies <- MCTwoBodies
    None = None
    Ops = {"push", "read", "restore"}
    MaxRequests = 2
    MaxFaults = 1
    MaxRestarts = 1
PROPERTY StoreReachesLamp
