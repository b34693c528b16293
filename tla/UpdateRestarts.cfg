CONSTANTS
    p1 = p1
    p2 = p2
    Pids = {p1, p2}
    Confs = {"default"}
    Services = {"bitsocial.service"}
    Agents = {"agent.service"}
    MaxLaunches = 2
    MaxKills = 0
    MaxFaults = 1
SPECIFICATION Spec
SYMMETRY Symmetry
INVARIANTS
    StoppedAreRestarted
CHECK_DEADLOCK FALSE
