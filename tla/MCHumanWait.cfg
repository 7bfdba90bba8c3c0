SPECIFICATION FairSpec
CONSTANTS
    c1 = c1
    c2 = c2
    o1 = o1
    o2 = o2
    Callers <- MCCallers
    Ops <- MCOps
    OpsOf <- MCOpsOf
    ScriptedAttempts = {2}
    StrayOps = {x1}
INVARIANTS
    CallersAreToldTheTruth
    AnswersMeetTheirAttempt
    InboxShowsTheWait
PROPERTIES
    HeardAnswerIsTaken
CHECK_DEADLOCK FALSE
