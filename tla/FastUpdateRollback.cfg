CONSTANTS
    Webuis = {w1, w2}
    Tags = {t1, t2}
    MaxFaults = 1
    MaxRuns = 1
SPECIFICATION Spec
SYMMETRY Symmetry
INVARIANTS
    SwapFailureRestoresModules
CHECK_DEADLOCK FALSE
