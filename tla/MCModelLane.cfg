SPECIFICATION FairSpec
CHECK_DEADLOCK FALSE
CONSTANTS
    Calls = {c1, c2}
    Modes = {"auto", "fixed", "fail"}
    MaxAsks = 4
    Ceiling = 2
    RecoveryStreak = 2
    RequestLimit = 1
    Interval = 2
    MaxSeconds = 2
    Attempts = 2
    Budget = 2
    LaneAttempts = 3
    LaneBudget = 3
INVARIANTS
    NoStartInAPause
    OverstepsByWhatIsUnderWay
PROPERTIES
    EveryCallEnds
