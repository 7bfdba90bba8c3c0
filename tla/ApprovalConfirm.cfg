SPECIFICATION RoundsSpec
CONSTANTS
    People = {ann, bo}
    MaxRounds = 2
    Plans = {"fail"}
INVARIANT TooLateWasNotTaken
CHECK_DEADLOCK FALSE
