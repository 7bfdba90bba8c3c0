SPECIFICATION OrderedSpec
CONSTANTS
    Files = {f1, f2}
    Ops = {o1, o2}
    Calls = {c1,c2}
    Procs = {s}
    MaxCrashes = 2
    MaxFaults = 1
    FirstCall = c1
    FirstOp = o1
INVARIANTS
    AnswersTellWhatHappened
PROPERTIES
    EditsAreAtomic
    RetriesMeetTheFirst
    IntentsAreSettled
CHECK_DEADLOCK FALSE
