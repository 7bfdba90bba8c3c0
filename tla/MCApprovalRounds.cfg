SPECIFICATION RoundsSpec
CONSTANTS
    People = {ann, bo}
    MaxRounds = 2
    Plans = {"fail", "escalate"}
INVARIANTS RoundsKeepApart AcceptedMeansDecided
CHECK_DEADLOCK FALSE
