CONSTANTS
    Shards = {sh1, sh2}
    Ips = {ip1}
    NoIp = NoIp
    LimitEnabled = TRUE
    MaxPerIp = 1
    MaxTotal = 1
    Requests = {"GET /sse", "POST /mcp", "DELETE /mcp", "stop"}
    MaxSessions = 1
    MaxReconnects = 0
    MaxQueued = 1
SPECIFICATION FairSpec
CHECK_DEADLOCK FALSE
INVARIANTS ConnSlotsExact SleepersReachable StopLeavesNothing
PROPERTIES ClosedStreamsEnd StopHangsOnlyOnClients DisconnectedStreamsEnd
