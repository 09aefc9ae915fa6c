SPECIFICATION Spec
CONSTANTS
    t0 = t0
    t1 = t1
    m0 = m0
    p = p
    r = r
    None = None
    Texts = {t0, t1}
    FirstText = t0
    Metas = {m0, r, p}
    FirstMeta = m0
    Protected = {p}
    Redacted = r
    MaxEdits = 1
    MaxExternal = 2
    MaxForeign = 1
    MaxFlushes = 1
    MaxPolicies = 1
    MaxFaults = 1
    MaxEvents = 4
INVARIANTS TypeOK NeverStuck SavedIsShown QuietMeansAgreed ProtectedRowsGone
PROPERTIES ClosedUnaskedIsSaved DraftKeepsItsBaseline
CHECK_DEADLOCK FALSE
