CONSTANTS
    e1 = e1
    e2 = e2
    s1 = s1
    s2 = s2
    app = app
    Events = {e1, e2}
    FirstEvent = e1
    Stoppers = {}
    App = app
    MaxSteps = 1
    MayStick = TRUE
    MayFail = FALSE
    MayAbort = TRUE
SPECIFICATION Spec
INVARIANTS OwnedIsLive
CHECK_DEADLOCK FALSE
