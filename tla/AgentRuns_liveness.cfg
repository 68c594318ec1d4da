SPECIFICATION FairSpec
CONSTANTS
    Runs = {r1}
    Workers = {w1}
    Clients = {c1, c2}
    Approvals = {a1, a2}
    None = None
    MaxTurns = 2
    MaxFailures = 2
    MaxHistory = 1
    MaxPending = 1
    BatchSize = 1
    MaxVersion = 6
CHECK_DEADLOCK FALSE
INVARIANTS
    ResumeLosesNothing
    ParkedRunAgrees
PROPERTIES
    WorkSettles
