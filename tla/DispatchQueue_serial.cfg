CONSTANTS
    a1 = a1
    a2 = a2
    b1 = b1
    sa = sa
    sb = sb
    Tasks <- MCTasks
    Sessions <- MCSessions
    SessionOf <- MCSessionOf
    MaxParallel = 1
SPECIFICATION Spec
INVARIANTS TypeOK UnfinishedCounts NoMissedIdle
PROPERTIES EveryTaskRuns JoinReturns
CHECK_DEADLOCK FALSE
