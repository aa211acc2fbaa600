SPECIFICATION Spec
CONSTANTS
    Requests = {r1, r2}
    Channels <- MCChannels
    Zero = 0
    Schedules <- MCTwoSchedules
    Blank = 0
    Phases <- MCPhases
    Curve <- MCWavyCurve
    Overrides <- MCFeed
    Hands <- MCHands
    Bodies <- MCOneBody
    None = None
    Ops = {"ramp"}
    MaxRequests = 2
    MaxFaults = 0
    MaxRestarts = 0
INVARIANT DormantLampRunsItself
