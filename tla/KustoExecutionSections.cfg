CONSTANTS
    None = None
    Foreign = Foreign
    Boxes = {b1}
    Instances = {i1, i2}
    Conns = {c1}
    Execs = {e1, e2}
    HostStarted = {e2}
    SharedBoxes = {}
    MaxGen = 1
    MaxRevision = 1
    MaxAccount = 0
    MaxPolicy = 0
SPECIFICATION Spec
CHECK_DEADLOCK FALSE
INVARIANTS TypeOK ExactlyOneTerminal NoOrphanTransport SuccessMeansApplied
PROPERTIES ImplementsSlot
