CONSTANTS
    e1 = e1
    e2 = e2
    s1 = s1
    s2 = s2
    app = app
    Events = {e1}
    FirstEvent = e1
    Stoppers = {}
    App = app
    MaxSteps = 2
    MayStick = FALSE
    MayFail = TRUE
    MayAbort = TRUE
SPECIFICATION Spec
INVARIANTS TypeOK
PROPERTIES TaskEnds
CHECK_DEADLOCK FALSE
