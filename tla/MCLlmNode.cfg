SPECIFICATION Spec
CONSTANTS
    LastPosition = 1
    Retries = 2
    Outcomes = {"error", "refusal"}
    Tools = {look, peek, note, pay}
    External = {note, pay}
    Guarded = {peek, pay}
    ToolLimit = 2
    MaxPaid = 7
    MaxCrashes = 1
    PaidWithTools = 3
CONSTRAINT ToolsComeSoon
INVARIANTS
    FailuresAreTheFailedAttempts
    ActionsComeTrue
    AnswersAreBounded
    CallsMeetTheirDecision
CHECK_DEADLOCK FALSE
