SPECIFICATION FairSpecButDaily
CONSTANTS
    Requests = {r1}
    Channels <- MCChannels
    Zero = 0
    Schedules <- MCTwoSchedules
    Blank = 0
    Phases <- MCPhases
    Curve <- MCWavyCurve
    Overrides <- MCFeed
    Hands <- MCHands
    Bodies <- MCOneBody
    None = None
    Ops = {"ramp", "rampConfig", "override", "push", "hand", "preview"}
    MaxRequests = 1
    MaxFaults = 2
    MaxRestarts = 0
INVARIANT TypeOK
INVARIANT OverrideMemory
PROPERTY ForgetOnlyByFailure
PROPERTY LiveEngineDrives
PROPERTY ReconnectResyncs
