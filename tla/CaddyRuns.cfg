CONSTANTS
    Procs = {p1, p2, p3}
    None = None
    MaxEvents = 2
SPECIFICATION Spec
INVARIANTS
    NoCaddyOutlivesDaemon
    ForwardsReleased
    ExpectedExitComes
PROPERTIES
    StopTerminates
    CaddyFollowsFile
CHECK_DEADLOCK FALSE
