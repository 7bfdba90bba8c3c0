SPECIFICATION FairSpendSpec
CONSTANTS
    Total = 3
    Cap0 = 8
    Caps = {8, 2000}
    Costs = {4, 20}
    CallMax = 1
    Parallel = 2
    Lives = 2
    ProbeWidth = 1
    Lookahead = 2
    AttemptSlots = 2
    RateLimitTries = 2
INVARIANTS
    CountedAttemptsHaveRows
    ProbeStaysWithinCap
    WindowStaysInBudget
PROPERTIES
    ImplementsBoard
    DriveEnds
CHECK_DEADLOCK FALSE
