CONSTANTS
    Off = Off
    root = root
    second = second
    third = third
    Events <- MCEvents
    Kinds <- MCKinds
    Thread <- MCThread
    Mentioned <- MCRoot
    Bare = {}
    P2P = {}
    SupportsThread = TRUE
    MayFail <- MCRoot
    MayCut <- MCEvents
    MaxErrors = 1
    Procs <- MCProcs
    Overlaps = {TRUE, FALSE}
    MaxFaults = 1
    Tasks <- MCTasks
    Calls <- MCPair
    LeaseAsks <- MCLeaseAsks
    MaxBoxes = 2
    Conns <- MCPair
    ConnAsks <- MCConnAsks
    Policies <- MCPolicies
    Preset <- MCPreset
    Reserved <- MCReserved
    MaxChanges = 1
    MaxFlaws = 2
    Cores <- MCCores
    Chats <- MCChats
    Files <- MCFiles
    Latest = 2
    Horizon = 2
    MaxNo = 2
SPECIFICATION Spec
INVARIANTS TypeOK EventLandsOnce OneSandboxEach  
   
CHECK_DEADLOCK FALSE
