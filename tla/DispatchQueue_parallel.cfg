CONSTANTS
    a1 = a1
    a2 = a2
    b1 = b1
    sa = sa
    sb = sb
    Tasks <- MCTasks
    Sessions <- MCSessions
    SessionOf <- MCSessionOf
    MaxParallel = 2
SPECIFICATION Spec
INVARIANTS SessionSerial NoMissedWork
PROPERTIES ImplementsScheduler
CHECK_DEADLOCK FALSE
