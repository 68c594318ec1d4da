SPECIFICATION DeployedSpec
CONSTANTS
    Runs = {r1}
    Workers = {w1}
    Clients = {c1}
    Approvals = {a1}
    None = None
    MaxTurns = 1
    MaxFailures = 2
    MaxHistory = 1
    MaxPending = 1
    BatchSize = 1
    MaxVersion = 5
CHECK_DEADLOCK FALSE
PROPERTIES
    ExpiredLeaseIsRecovered
