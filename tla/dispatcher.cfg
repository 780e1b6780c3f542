CONSTANTS
    sh0 = sh0
    sh1 = sh1
    Reqs = {r1, r2}
    NoBody = NoBody
    MaxBatch = 3
    NoSession = NoSession
    ShardZero = sh0
    Shards <- MCShards
    Bodies <- MCBodies
    Sessions <- MCSessions
SPECIFICATION FairSpec
CHECK_DEADLOCK FALSE
INVARIANTS TypeOK AnswersInOnePlace
PROPERTIES KeepsPromise AnswersArrive
