SPECIFICATION Spec
CONSTANTS
    Ops = {o1, o2, o3}
    Stops = {s1}
    Close = Close
    Reload = Reload
    MaxEvents = 1
INVARIANT CloseStopsTheClient
