CONSTANTS
    Shards = {sh1, sh2}
    MaxCalls = 2
SPECIFICATION Spec
CHECK_DEADLOCK FALSE
INVARIANTS TypeOK PendingAreUnresolved StopResolvesAll
PROPERTY ResolvedOnce
