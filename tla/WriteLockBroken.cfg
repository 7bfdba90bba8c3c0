SPECIFICATION LockSpec
CONSTANTS
    Contenders = {p1, p2, p3}
    NoContender = NoContender
    Mortal = {p1}
    Slow = FALSE
INVARIANTS
    OneHolder
CHECK_DEADLOCK FALSE
