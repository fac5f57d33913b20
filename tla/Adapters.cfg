CONSTANTS
    Off = Off
    MaxDials = 3
    MaxEvents = 2
    MaxWelcomes = 1
    LinkFaults = 1
    QueueCap = 1
    MaxUpdates = 3
    MaxTexts = 1
    ReplyFaults = 2
    AutoFinish = 1
    MaxNow = 2
    MaxConns = 2
    Messages = {1, 2}
    Cards = {1}
    StreamFaults = 1
    ApiCalls = {"send", "reply"}
    Sends = {"send", "reply"}
    Retries = 1
    Capacity = 1
    ApiFaults = 2
    MaxRevokes = 1
    MaxChanges = 2
    MaxRefreshes = 3
    CardFaults = 2
    EdgeCalls = {"reap", "send"}
    Attempts = 2
    MaxStarts = 2
    EdgeFaults = 1
SPECIFICATION Spec
INVARIANTS TypeOK  OutboundOnce
PROPERTIES OverIsOver Settles
CHECK_DEADLOCK FALSE
