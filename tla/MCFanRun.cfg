SPECIFICATION FairSpec
CONSTANTS
    Nodes <- MCNodes
    Listed <- MCListed
    Ends = {"ok", "failed", "error"}
    MaxCrashes = 1
    MaxLost = 1
CHECK_DEADLOCK FALSE
INVARIANTS
    StepsRepeat
    LogIsWhole
    BranchesEnd
    JoinKeepsItsPromise
    SettledRowIsWhole
PROPERTIES
    EndedRunsSettle
