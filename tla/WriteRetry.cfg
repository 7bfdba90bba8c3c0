SPECIFICATION Spec
CONSTANTS
    Files = {f1, f2}
    Ops = {o1, o2}
    Calls = {c1, c2}
    Procs = {s}
    MaxCrashes = 1
    MaxFaults = 0
PROPERTIES
    RetryGetsTheFirstResult
SYMMETRY CallSymmetry
CHECK_DEADLOCK FALSE
