CONSTANTS
    sh1 = sh1
    sh2 = sh2
    s1 = s1
    s2 = s2
    Shards = {sh1, sh2}
    Sessions = {s1, s2}
    Home <- MCHome
    NoSession = NoSession
    Tokens = {t1}
    NoToken = NoToken
    Levels = {info, debug}
    Requests = {r1, r2}
    Bodies <- MCBodies
SPECIFICATION Spec
CHECK_DEADLOCK FALSE
INVARIANT ProgressReachesItsClient
