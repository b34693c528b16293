CONSTANTS
    a = a
    b = b
    c1 = c1
    c2 = c2
    v1 = v1
    v2 = v2
    r1 = r1
    r2 = r2
    k1 = k1
    Names = {a, b}
    Scoped = {a}
    Builtins = {b}
    Versions = {v1, v2}
    Wanted = {a}
    Clients = {c1, c2}
    Reloads = {r1, r2}
    Communities = {k1}
    MaxCommands = 2
    MaxStarts = 1
    MaxFaults = 1
SPECIFICATION Spec
SYMMETRY Symmetry
INVARIANTS
    BuiltInKept
    NothingLost
    ReloadTakesEffect
PROPERTIES
    InUseIsRefused
CHECK_DEADLOCK FALSE
