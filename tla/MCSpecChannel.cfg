CONSTANTS
    Followers = {f1}
    Specs = {0, 1}
    Window = 2
    BatchLimit = 1
    Total = 3
    MaxInputs = 4
    SharedInputs = 2
SPECIFICATION FocusedSpec
INVARIANT NoSilentGap
INVARIANT NoLateProgress
PROPERTY AnswersAreFresh
PROPERTY HealthComesToRest
CHECK_DEADLOCK FALSE
