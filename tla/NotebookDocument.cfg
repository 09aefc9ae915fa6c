SPECIFICATION Spec
CONSTANTS
    None = None
    MaxCommands = 2
    MaxEdits = 2
    MaxExternal = 2
    MaxSaves = 2
    MaxFaults = 2
    MaxEvents = 4
INVARIANTS
    AcknowledgedIsKept
    QuietMeansShown
PROPERTIES
    OutsideIsShown
CHECK_DEADLOCK FALSE
