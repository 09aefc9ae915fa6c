CONSTANTS
    None = None
    Foreign = Foreign
    Boxes = {b1}
    Instances = {i1}
    Conns = {c1}
    Execs = {e1}
    HostStarted = {e1}
    SharedBoxes = {b1}
    MaxGen = 2
    MaxRevision = 2
    MaxAccount = 2
    MaxPolicy = 1
SPECIFICATION FairSpec
CHECK_DEADLOCK FALSE
INVARIANTS AtMostOneTerminal
PROPERTIES NoResultAfterRevocation ResultIsForCurrentTarget EveryExecutionSettles
