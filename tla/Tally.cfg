SPECIFICATION FairSpec
CONSTANTS
    MaxDay = 2
    MaxWrites = 2
    MaxFaults = 1
    MaxStarts = 2
INVARIANT TypeOK
INVARIANT NeverOvercounts
INVARIANT CleanIsSaved
PROPERTY FileOnlyGrows
 
CHECK_DEADLOCK FALSE
