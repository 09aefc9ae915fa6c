SPECIFICATION FairSpec
CONSTANTS
    w1 = w1
    w2 = w2
    c1 = c1
    q1 = q1
    None = None
    Windows = {w1, w2}
    Clusters = {c1}
    Queries = {q1}
    MaxVersion = 2
    MaxStarts = 3
    MaxLosses = 1
    MaxTimeouts = 1
INVARIANTS
    NoAdmissionAcrossChange
    LossFailsClosed
    NoSilentRevocation
PROPERTIES WindowsConverge
CHECK_DEADLOCK FALSE
