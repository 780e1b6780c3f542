CONSTANTS
    Shards = {sh1, sh2}
    Ips = {}
    NoIp = NoIp
    LimitEnabled = FALSE
    MaxPerIp = 1
    MaxTotal = 1
    Requests = {"GET /sse"}
    MaxSessions = 1
    MaxReconnects = 0
    MaxQueued = 1
    Uris = {u1}
SPECIFICATION SubSpec
CHECK_DEADLOCK FALSE
PROPERTY EndClearsSubscriptions
