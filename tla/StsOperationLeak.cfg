SPECIFICATION FairSpec
CONSTANTS
    MaxRestarts = 1
    MaxCrashes = 0
    MaxPages = 1
    MaxFaults = 0
PROPERTIES NoProcessLeft
CHECK_DEADLOCK FALSE
