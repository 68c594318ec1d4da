SPECIFICATION FairSpec
CONSTANTS
    Runs = {r1}
    Calls = {tool, ask}
    Specialist = {ask}
    Workers = {w1, w2}
    None = None
    MaxAttempts = 2
    ReuseCallIds = FALSE
    MayOverrun = FALSE
CHECK_DEADLOCK FALSE
PROPERTIES
    BatchReturns
