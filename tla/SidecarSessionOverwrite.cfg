SPECIFICATION Spec
CONSTANTS
    t0 = t0
    t1 = t1
    m0 = m0
    p = p
    r = r
    None = None
    Texts = {t0, t1}
    FirstText = t0
    Metas = {m0, r, p}
    FirstMeta = m0
    Protected = {p}
    Redacted = r
    MaxEdits = 1
    MaxExternal = 0
    MaxForeign = 1
    MaxFlushes = 0
    MaxPolicies = 1
    MaxFaults = 0
    MaxEvents = 3
PROPERTIES NoBlindOverwrite
CHECK_DEADLOCK FALSE
