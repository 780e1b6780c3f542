CONSTANTS
    FailureThreshold = 3
    SuccessThreshold = 2
    HalfOpenMax = 4
    Timeout = 2
    Reqs = {r1, r2, r3, r4}
    Unreported = {"stream", "exception"}
SPECIFICATION FairSpec
INVARIANTS TypeOK CountersMatchState ProbeSlotsExact
PROPERTIES OpenLastsTimeout HalfOpenResolvesUnlessLost
