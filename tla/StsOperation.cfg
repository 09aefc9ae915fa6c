SPECIFICATION FairSpec
CONSTANTS
    MaxRestarts = 1
    MaxCrashes = 2
    MaxPages = 1
    MaxFaults = 1
INVARIANTS NothingLeftOnServer ResultAfterShutdown DisposedStaysStopped
PROPERTIES OperationSettles
CHECK_DEADLOCK FALSE
