SPECIFICATION Spec
CONSTANTS
    LastPosition = 0
    Retries = 0
    Outcomes = {}
    Tools = {look, note}
    External = {note}
    Guarded = {}
    ToolLimit = 2
    MaxPaid = 6
    MaxCrashes = 0
INVARIANTS
    ToolCallsAreCapped
CHECK_DEADLOCK FALSE
