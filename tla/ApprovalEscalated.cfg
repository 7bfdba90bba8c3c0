SPECIFICATION RoundsSpec
CONSTANTS
    People = {ann, bo}
    MaxRounds = 2
    Plans = {"fail", "escalate"}
INVARIANT VerdictsMeetTheirRound
CHECK_DEADLOCK FALSE
