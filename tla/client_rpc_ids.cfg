CONSTANTS
    Shards = {sh1, sh2}
    MaxCalls = 1
SPECIFICATION Spec
CHECK_DEADLOCK FALSE
INVARIANT AnswersMatch
