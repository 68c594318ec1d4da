SPECIFICATION InfrastructureSpec
CONSTANTS
    Focuses = {"jobs", "audit", "gateway", "retention", "context", "worker", "owner", "approvals", "keys", "connectors", "writes", "reads"}
    Runs = {"run"}
    Calls = {"tool", "ask"}
    Specialist = {"ask"}
    Workers = {x1, x2}
    None = None
    MaxAttempts = 2
    ReuseCallIds = TRUE
    MayOverrun = TRUE
    AuditWriters = {"w1", "w2"}
    Verifiers = {"v1", "v2"}
    EventIds = {"e1", "e2"}
    Payloads = {"x", "y"}
    SigningKeys = {"k1", "k2"}
    VerificationKeys = {"k1", "k2"}
    ChainLimit = 2
    ModelCalls = {1, 2, 3}
    Preference <- MCPreference
    Eligible = {"p", "q", "r"}
    Affordable = {"p", "q"}
    Slots <- MCSlots
    MaxFailover = 1
    Threshold = 2
    RetentionBatches = {"b1", "b2"}
    DryRuns = {"b2"}
    Targets = {1, 2, 3}
    Committed <- MCCommitted
    Ruled = {1, 2, 3}
    MinimumDays = 2
    MaximumDays = 5
    AsOf = 4
    LifeLimit = 2
    Ranks = 3
    ItemSizes = {1, 4, 9}
    TalkSizes = {2, 12, 25}
    InputBudget = 22
    ItemBudget = 8
    Frame = 1
    SummaryFloor = 3
    SummaryMargin = 1
    SummaryStep = 1
    ExcerptFloor = 2
    EscapeLimit = 3
    Talkers = {"o", "r"}
    Reviewers = {"o", "r"}
    NoTalker = "none"
    WorkerCalls = {"w1", "w2"}
    OwnerCalls = {"o1"}
    SigningKeyIds = {"k1", "k2"}
    OwnerTenants = {"t1", "t2"}
    RunTenant = "t1"
    Nobody = "nobody"
    RefreshSkew = 1
    Lifetimes = {2, 5}
    Ages = {0, 3}
    CacheMin = 1
    CacheMax = 2
    LastInstant = 3
    send = send
    sendAgain = sendAgain
    read = read
    e1 = e1
    e2 = e2
    mail = mail
    page = page
    alice = alice
    Ops = {send, sendAgain, read}
    Contents = {mail, page}
    ContentOf <- MCContentOf
    Requester <- MCRequester
    Keys = {e1, e2}
    KeyOf <- MCKeyOf
    HighRisk = {send, sendAgain}
    Manual = {}
    People = {alice, bob}
    Approvers = {alice, bob}
    Executors = {x1, x2}
    Nil = Nil
    ConnectorCalls = {"issue", "other", "checks"}
    CallKey <- MCCallKey
    CallBody <- MCCallBody
    JobTries <- MCJobTries
    ReadCalls = {"checks"}
    Adapters = {"a1", "a2"}
    Administrators = {"both"}
    ConnectorReviewers = {"rev", "both"}
    NoPrincipal = "none"
    ClientAttempts = 2
    BreakerThreshold = 2
    RevisionLimit = 3
CHECK_DEADLOCK FALSE
SYMMETRY Interchangeable
INVARIANTS
    OneVoice
    AlarmOnlyWhenOvertaken
    BatchActsOnce
    AssemblyAccountsForItems
    ConnectorsAreFaithful
    KeysFollowRotation
    EffectsAreApproved
    AtMostOnce
    ResultsAreFinal
PROPERTIES
    DecisionsStand
    JobsAgree
    ImplementsToolBatch
