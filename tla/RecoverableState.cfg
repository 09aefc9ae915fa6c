CONSTANTS
    None = None
    Bad = Bad
    Windows = {w1, w2}
    Readers = {r1}
    Texts = {t1, t2, t3}
    MaxFaults = 2
    MaxDamage = 1
SPECIFICATION Spec
SYMMETRY Symmetry
CHECK_DEADLOCK FALSE
INVARIANTS ReadsLastCommit CommittedStaysReadable RefreshReturnsRecent
PROPERTIES ImplementsRegister
