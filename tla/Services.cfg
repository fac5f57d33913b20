CONSTANTS
    Off = Off
    Tasks <- MCTasks
    Endpoints <- MCEndpoints
    Batches <- MCBatches
    Local <- MCLocal
    MaxSteps <- MCMaxSteps
    MaxSteers = 0
    Cap = 2
    Whole = 1
    Retries = 1
    NudgeAt = 2
    MaxRepeats = 3
    MaxInvalid = 2
    MaxSandbox = 2
    Plans <- MCPlans
    MaxBoxes = 1
    MaxFaults = 2
SPECIFICATION MCSpec
INVARIANTS MCTypeOK  
PROPERTIES Settles
CHECK_DEADLOCK FALSE
