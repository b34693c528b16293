CONSTANTS
    d1 = d1
    d2 = d2
    a1 = a1
    a2 = a2
    b1 = b1
    Ips = {a1, a2, b1}
    V6 = {b1}
    Domains = {d1, d2}
    Hosts <- MCHosts
    Bases <- MCBases
    OperatorsOwn = {a2}
    MaxRounds = 4
    MaxChanges = 1
SPECIFICATION Spec
INVARIANTS
    TypeOK
    BaselineKept
    ServesWhatIsStored
    KuboRunsWhatIsStored
PROPERTIES
    DisableStands
    ServingIsKept
    NamesSurviveChecks
    FailedFamilyWaits
    FreshDay
SYMMETRY Symmetry
CONSTRAINT OneMishap
CHECK_DEADLOCK FALSE
