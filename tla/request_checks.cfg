CONSTANTS
    Burst = 2
    Cost = 3
    Rate = 2
    MaxTime = 7
    MaxResets = 1
    Bits = 2
    NoIp = NoIp
    Unparsed = Unparsed
    Whitelists <- MCLists
    Blacklists <- MCLists
SPECIFICATION CheckSpec
CHECK_DEADLOCK FALSE
INVARIANTS TypeOK WindowBound NothingWithheld FilterMatchesLists
