SPECIFICATION FairSpec
CONSTANTS
    Starters = {s1}
    Readers = {c1}
    Approvers = {a1}
    Cancellers = {c1}
    StartCaps = {1}
    WantedCaps = {2}
    MaxCap = 3
    MaxCrashes = 1
INVARIANTS
    ApprovalsMeetTheirPause
PROPERTIES
    SeriesEnds
CHECK_DEADLOCK FALSE
