CONSTANTS
    e1 = e1
    e2 = e2
    s1 = s1
    s2 = s2
    app = app
    Events = {e1, e2}
    FirstEvent = e1
    Stoppers = {s1}
    App = app
    MaxSteps = 1
    MayStick = FALSE
    MayFail = FALSE
    MayAbort = FALSE
SPECIFICATION Spec
INVARIANTS CardSettled StoppedBeforeRun
PROPERTIES SealedOnce StopCloses
CHECK_DEADLOCK FALSE
