SPECIFICATION Spec
CONSTANTS
    Ops = {o1, o2}
    Stops = {s1}
    Close = Close
    Reload = Reload
    MaxEvents = 0
INVARIANT CloseStopsTheSession
