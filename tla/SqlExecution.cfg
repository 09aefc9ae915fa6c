SPECIFICATION Spec
CONSTANTS
    m1 = m1
    c1 = c1
    None = None
    Manual = {m1}
    Copilot = {c1}
    MaxTargets = 2
    MaxSessions = 1
    MaxFaults = 1
INVARIANTS PendingExcludesRunning NoOrphanTransport NoSilentEnd
           QuietMeansIdle
PROPERTIES OnlyNewestPublishes
CHECK_DEADLOCK FALSE
