CONSTANTS
    Kubos = {k1, k2}
    Attempts = {a1}
    Ticks = {t1}
    None = None
    ExternalKubo = FALSE
    MaxFaults = 2
SPECIFICATION Spec
PROPERTIES
    ShutdownTerminates
    KuboKeptUp
CHECK_DEADLOCK FALSE
