SPECIFICATION Spec
CONSTANTS
    Slots = 3
    HourLen = 4
    Channels = {white, royal, cyan}
    Royal = royal
    Cyan = cyan
    MaxDay = 2
    Sun <- MCSun
    Moon <- MCMoon
    MoonShift <- MCMoonShift
    ShortSiesta = 2
    LongSiesta = 6
    MaxSeason = 5
    DefaultSiesta = 3
    DefaultMoon = 15
    Masters <- MCMasters
    Siestas <- MCSiestas
    Lunars <- MCLunars
    Acclimations <- MCAcclimations
    Seasons <- MCSeasons
    Rows <- MCRows
    Backups <- MCBackups
    LampRows <- MCLampRows
    None = None
    MaxChanges = 3
INVARIANT TypeOK
INVARIANT RestartSameLight
INVARIANT RestartNeverBrightens
INVARIANT ShiftsAgree
INVARIANT LongestNightPiece
PROPERTY MoonlightOnce
INVARIANT BrighterByTheDay
CHECK_DEADLOCK FALSE
