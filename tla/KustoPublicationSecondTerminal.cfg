SPECIFICATION Spec
CONSTANTS
    MaxRuns = 1
    MaxTroubled = 0
    MaxEvents = 2
INVARIANTS
    NoSecondTerminal
CHECK_DEADLOCK FALSE
