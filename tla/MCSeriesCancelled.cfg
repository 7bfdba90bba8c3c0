SPECIFICATION Spec
CONSTANTS
    Starters = {s1}
    Readers = {}
    Approvers = {a1}
    Cancellers = {c1}
    StartCaps = {1}
    WantedCaps = {2}
    MaxCap = 2
    MaxCrashes = 0
INVARIANTS
    StoppedSeriesStaysCancelled
CHECK_DEADLOCK FALSE
