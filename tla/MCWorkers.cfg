SPECIFICATION WorkersSpec
CONSTANTS
    Runs = {run}
    Workers = {w1, w2}
    Clients = {client}
    Approvals = {grant}
    None = None
    MaxTurns = 2
    MaxFailures = 2
    MaxHistory = 2
    MaxPending = 2
    BatchSize = 1
    MaxVersion = 9
    Runners = {w1, w2}
    Tasks = {1}
    Prereq <- NoPrereq
    Approvers = {p1, p2}
    RetryBudget = 1
    MaxAgentRuns = 2
    MaxActive = 1
    MaxEvents = 9
    MaxBacklog = 2
    MaxLeases = 1
    MaxFaults = 1
    MaxMoves = 1
CHECK_DEADLOCK FALSE
SYMMETRY Interchangeable
INVARIANTS
    DeliveredIsVerified
    OneHolder
    CheckpointDiscipline
    CommandsApplyOnce
PROPERTIES
    ProcessIsConsistent
    RunNeverRegresses
