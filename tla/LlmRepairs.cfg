SPECIFICATION Spec
CONSTANTS
    LastPosition = 0
    Retries = 1
    Outcomes = {"error"}
    Tools = {look, note}
    External = {note}
    Guarded = {}
    ToolLimit = 2
    MaxPaid = 6
    MaxCrashes = 0
INVARIANTS
    OneModelAnswers
CHECK_DEADLOCK FALSE
