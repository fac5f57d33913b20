CONSTANTS
    e1 = e1
    e2 = e2
    s1 = s1
    s2 = s2
    app = app
    Events = {e1}
    FirstEvent = e1
    Stoppers = {s1}
    App = app
    MaxSteps = 1
    MayStick = FALSE
    MayFail = FALSE
    MayAbort = FALSE
SPECIFICATION Spec
PROPERTIES DeliveredStays
CHECK_DEADLOCK FALSE
