CONSTANTS
    Shards = {sh1}
    Ips = {ip1}
    NoIp = NoIp
    LimitEnabled = TRUE
    MaxPerIp = 1
    MaxTotal = 2
    Requests = {"GET /sse", "malformed POST /mcp", "GET /mcp"}
    MaxSessions = 3
    MaxReconnects = 1
    MaxQueued = 1
SPECIFICATION Spec
CHECK_DEADLOCK FALSE
INVARIANTS TypeOK ConnSlotsExact SseWithinLimits SessionsAreServed
PROPERTIES NoIdReuse UnreconnectedSessionsLast
