SPECIFICATION FairLockSpec
CONSTANTS
    Contenders = {p1, p2, p3}
    NoContender = NoContender
    Mortal = {p1, p2}
    Slow = FALSE
INVARIANTS
    Exclusive
PROPERTIES
    DeadLocksGo
CHECK_DEADLOCK FALSE
