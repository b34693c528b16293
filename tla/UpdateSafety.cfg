CONSTANTS
    p1 = p1
    p2 = p2
    Pids = {p1, p2}
    Confs = {"default"}
    Services = {"bitsocial.service"}
    Agents = {"agent.service"}
    MaxLaunches = 3
    MaxKills = 1
    MaxFaults = 1
SPECIFICATION Spec
SYMMETRY Symmetry
CONSTRAINT OneMishap
INVARIANTS
    OwnFileKept
    NobodyIsLeftBehind
PROPERTIES
    SupervisedIsLeft
    RestartsDoNotCollide
CHECK_DEADLOCK FALSE
