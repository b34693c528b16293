CONSTANTS
    Webuis = {w1, w2}
    Tags = {t1, t2}
    MaxFaults = 3
    MaxRuns = 3
SPECIFICATION Spec
SYMMETRY Symmetry
INVARIANTS
    StartsAfterwards
    UsableAfterwards
    ModulesSurvive
    NoOutdatedWebui
    InstalledIsComplete
CHECK_DEADLOCK FALSE
