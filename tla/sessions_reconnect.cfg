CONSTANTS
    Shards = {sh1}
    Ips = {ip1}
    NoIp = NoIp
    LimitEnabled = TRUE
    MaxPerIp = 1
    MaxTotal = 1
    Requests = {"POST /mcp", "GET /mcp"}
    MaxSessions = 1
    MaxReconnects = 1
    MaxQueued = 1
SPECIFICATION Spec
CHECK_DEADLOCK FALSE
PROPERTY OnlyClosedSessionsEnd
