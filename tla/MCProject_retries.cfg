SPECIFICATION ProjectSpec
CONSTANTS
    Focuses = {"conversations"}
    a1 = a1
    a2 = a2
    j1 = j1
    Projectors = {j1, j2}
    TurnKinds = {"user_message", "planning", "exchange"}
    TurnLimit = 2
    ExchangeMembers = {m1, m2}
    Recipients = {"t1", "t2"}
    Host = "t1"
    DraftVersions = 2
    ExchangeLimit = 1
    WorkNodes = {"g", "p", "t1", "t2", "n1", "n2", "n3", "k"}
    NoContent = "-"
    Approvers = {a1, a2}
    PlanTasks = {"t1", "t2"}
    Goal = "g"
    Phase = "p"
    PlanRelations <- MCPlanRelations
    TeamsOfKind = {"x", "y"}
    ElsewhereTeams = {"y"}
    Intents = {1, 2}
    PlannerProjectors = {l1}
    Batches <- MCBatches
    MaxTasks = 2
    MaxReplans = 1
    CursorLimit = 1
    Unset = Unset
    Members = {b1, b2}
    Edits = {d1, d2}
    Instants = {1, 2}
    Patches = {k1, k2}
    PatchOf <- MCPatchOf
    Parses = {TRUE, FALSE}
    Nobody = Nobody
    Actors = {c1, c2, c3}
    Custodians = {c1, c2}
    Operators = {c2, c3}
    NoActor = NoActor
    Memories = {1, 2}
    Writers = {writer}
    Holds = {h1}
    BatchLimit = 1
    VersionBound = 2
    Deciders = {"o", "p"}
    OwnerAdmins = {"o"}
    RootGoals = {"g", "h"}
    NoGoal = "none"
    ContractBound = 2
    DeliveryBound = 2
CHECK_DEADLOCK FALSE
INVARIANT AnsweredOnce
