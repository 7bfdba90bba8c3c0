SPECIFICATION FocusedSpec
CONSTANTS
    Ops = {1, 2, 3}
    Stops = {s1}
    Close = Close
    Reload = Reload
    MaxEvents = 2
INVARIANTS
    JournalFollowsTheTurn
    ClosedIsQuiet
PROPERTIES
    NeverWrittenTwice
    SessionComesToRest
