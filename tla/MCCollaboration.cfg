SPECIFICATION FocusSpec
CONSTANTS
    Focuses = {"board", "discussion", "contracts", "identities", "sessions", "relations", "library", "tasks", "feed", "capacity", "negotiation", "verification", "readiness"}
    Principals = {"lead", "b"}
    Lead = "lead"
    Tenants = {"t1", "t2"}
    TenantOf <- MCTenantOf
    Items = {i1}
    Assignments = {a1, a2}
    Commands = {k1, k2}
    NoOne = NoOne
    BoardLimit = 13
    Dependencies = {d1}
    VersionLimit = 3
    Digests = {g1, g2}
    NoDigest = NoDigest
    Producer = a1
    Accounts = {"a1", "a2", "b1"}
    Teams = {"t1", "t2"}
    TeamOf <- MCTeamOf
    Tokens = {"k1", "k2"}
    Requests = {"r1", "r2"}
    NoAccount = NoAccount
    Users = {"a1", "b1", "c1"}
    UserTeam <- MCUserTeam
    Managers = {"a1"}
    RelatedTeams <- MCRelatedTeams
    Resources = {"r1"}
    Contents = {"x", "y"}
    Nothing = Nothing
    Proposals = {p1}
    MaxDue = 2
    Window = 1
    TaskVersionLimit = 3
    ContractLimit = 1
    Horizon = 1
    FeedMembers = {u1, u2}
    Owners = {u1}
    Drafts = {f1}
    DraftLimit = 2
    FeedLimit = 3
    ConsumerTeams = {s1, s2}
    ProviderTeam = s3
    Reservations = {v1, v2}
    Negotiations = {n1}
    SlotLimit = 1
    DeclarationLimit = 2
    Ttl = 1
    LastTick = 1
    RunLimit = 2
    ToolAttempts = 1
    ReviewAttempts = 2
    VerifierProcesses = {"control", "worker"}
    ControlPlane = "control"
    ContentReaders = {"control"}
    Works = {1, 2, 3}
    WorkTeam <- MCWorkTeam
    WorkSlots <- MCWorkSlots
    Pool <- MCPool
    Snapshots <- MCSnapshots
CHECK_DEADLOCK FALSE
INVARIANTS
    AccountsAgree
    LibraryIsFaithful
    VerificationIsSound
    ReadinessIsSound
    ConsumerNeverOverbooks
PROPERTIES
    AgreementsAreKept
    TaskTermsHold
    FeedIsSettled
