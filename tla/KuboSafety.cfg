CONSTANTS
    Kubos = {k1, k2}
    Attempts = {a1, a2}
    Ticks = {t1, t2}
    None = None
    ExternalKubo = FALSE
    MaxFaults = 2
SPECIFICATION Safety
SYMMETRY Symmetry
INVARIANTS
    AtMostOneKubo
    NoOrphan
    NoStaleTracking
PROPERTIES
    AdoptedKuboGetsGrace
    ImplementsContract
CHECK_DEADLOCK FALSE
