------------------------------ MODULE Planning ------------------------------
(***************************************************************************)
(* A plan draft an agent run produced, and its approval                    *)
(* (product/planning.py).  An approval materializes the plan in many       *)
(* transactions (topic, tasks, rows and nodes of the work graph, one       *)
(* relation at a time) and marks the draft approved at the end; it can     *)
(* stop anywhere and be started again, by any member of the owner team.    *)
(***************************************************************************)
EXTENDS Naturals, Sequences

-----------------------------------------------------------------------------
(* The work graph of a project (work_graph/): the rows its nodes stand     *)
(* for, the registered nodes and their relations.  A row or a node is put  *)
(* once; putting it again with other content is a conflict.  The graph     *)
(* has no operation that runs by itself: plan approvals and the batches    *)
(* of Planner change it.  Relations other than depends_on only matter for  *)
(* being there.                                                            *)

CONSTANTS
    WorkNodes,   \* node ids
    NoContent    \* the content of a row that is not there

VARIABLES
    subject,     \* project_goals, project_phases, team_tasks, ...: the compared fields
    nodes,       \* project_work_nodes
    relations    \* project_work_relations

graphVars == <<subject, nodes, relations>>

RelationTypes == {"depends_on", "part_of"}

WorkGraphInit ==
    /\ subject = [n \in WorkNodes |-> NoContent]
    /\ nodes = {}
    /\ relations = {}

(* The dependencies of a set of relations *)
DependsOn(rels) == {<<r[1], r[3]>> : r \in {q \in rels : q[2] = "depends_on"}}

(* b can be reached from a: every set that has a and is closed has b. *)
Reaches(deps, a, b) ==
    \A S \in SUBSET WorkNodes :
        (a \in S /\ \A d \in deps : d[1] \in S => d[2] \in S) => b \in S

(* No set of nodes in which each has a dependency inside the set. *)
AcyclicDeps(deps) ==
    ~ \E S \in (SUBSET WorkNodes) \ {{}} : \A n \in S : \E m \in S : <<n, m>> \in deps

(* ensure_dependency_acyclic, on the relations that were read *)
WouldNotCycle(rels, source, target) ==
    source # target /\ ~Reaches(DependsOn(rels), target, source)

(* put_subject: a row that is there must have the same content. *)
MayPut(n, content) == subject[n] \in {NoContent, content}

(* register_node: the node needs its subject. *)
MayRegister(n) == subject[n] # NoContent

(* add_relation of the repository: both nodes are registered; an equal      *)
(* relation is there once.                                                  *)
MayRelate(r) == {r[1], r[3]} \subseteq nodes

(* snapshot: what the digest is taken of *)
GraphSnapshot == [nodes |-> nodes, relations |-> relations, subject |-> subject]

-----------------------------------------------------------------------------
(* The plan *)

CONSTANTS
    Approvers,      \* members of the owner team
    PlanTasks,      \* the nodes of the plan's tasks
    Goal, Phase,    \* the nodes of its goal and of its phase
    PlanRelations,  \* its relations, in the order they are added
    TeamsOfKind,    \* teams of the category the phase and the tasks name
    ElsewhereTeams  \* the ones that take part in another project, too

ASSUME PlanParameters ==
    /\ PlanTasks \cup {Goal, Phase} \subseteq WorkNodes
    /\ PlanRelations \in Seq(WorkNodes \X RelationTypes \X WorkNodes)
    /\ {NoContent, "task"} \cap (Approvers \cup TeamsOfKind) = {}
    /\ NoContent \notin {"task", "started", "note"}

VARIABLES
    draft,         \* project_plan_drafts.status
    topic,         \* the topic of the confirmation exists
    participants,  \* teams of the category in the project
    approval,      \* the approvals under way
    rejecting,     \* a rejection has read an open draft
    announced      \* project.plan_approved facts (process_shadow)

planVars == <<draft, topic, participants, approval, rejecting, announced>>
planningVars ==
    <<subject, nodes, relations, draft, topic, participants, approval, rejecting, announced>>

-----------------------------------------------------------------------------
ApprovalSteps == {"none", "topic", "tasks", "goal", "phase", "nodes", "relations", "finish"}

(* next: the relation to add; seen: the relations read for it *)
NoApproval == [step |-> "none", next |-> 1, reading |-> FALSE, seen |-> {}]

ApprovalRow ==
    [step : ApprovalSteps, next : 1 .. Len(PlanRelations) + 1, reading : BOOLEAN,
     seen : SUBSET (WorkNodes \X RelationTypes \X WorkNodes)]

DraftStatus == {"none", "drafting", "approved", "rejected"}

PlanningInit ==
    /\ WorkGraphInit
    /\ draft = "none" /\ topic = FALSE /\ participants = {}
    /\ approval = [a \in Approvers |-> NoApproval]
    /\ rejecting = FALSE /\ announced = 0

(* parse_project_plan: every reference is to an object of the plan.  It     *)
(* does not look for cycles.                                                *)
WellFormedPlan ==
    \A k \in 1 .. Len(PlanRelations) :
        LET r == PlanRelations[k]
        IN  r[1] # r[3] /\ {r[1], r[3]} \subseteq PlanTasks \cup {Goal, Phase}

(* import_plan_draft: one draft per run, however often it is imported. *)
ImportPlanDraft ==
    /\ draft = "none" /\ WellFormedPlan
    /\ draft' = "drafting"
    /\ UNCHANGED <<subject, nodes, relations, topic, participants, approval, announced, rejecting>>

(* A team of the category joins the project. *)
JoinProject(team) ==
    /\ participants' = participants \cup {team}
    /\ UNCHANGED <<subject, nodes, relations, draft, topic, approval, announced, rejecting>>

(* approve_plan_draft begins by reading an open draft, without a lock. *)
BeginApproval(a) ==
    /\ approval[a].step = "none" /\ draft = "drafting"
    /\ approval' = [approval EXCEPT ![a].step = "topic"]
    /\ UNCHANGED <<subject, nodes, relations, draft, topic, participants, announced, rejecting>>

GoOn(a, step) == approval' = [approval EXCEPT ![a].step = step]

(* An exception or a crash: what was committed stays. *)
StopApproval(a) ==
    /\ approval[a].step # "none"
    /\ approval' = [approval EXCEPT ![a] = NoApproval]
    /\ UNCHANGED <<subject, nodes, relations, draft, topic, participants, announced, rejecting>>

(* _project_plan_topic: a topic that is there already is kept. *)
ProjectPlanTopic(a) ==
    /\ approval[a].step = "topic"
    /\ topic' = TRUE
    /\ GoOn(a, "tasks")
    /\ UNCHANGED <<subject, nodes, relations, draft, participants, announced, rejecting>>

Assignable == participants # {}

(* _materialize_v2_tasks: one transaction per task; a task that is there is *)
(* kept, whichever team it was sent to.                                     *)
MaterializeTask(a) ==
    /\ approval[a].step = "tasks" /\ Assignable
    /\ \E t \in PlanTasks :
          /\ subject[t] = NoContent
          /\ subject' = [subject EXCEPT ![t] = "task"]
    /\ UNCHANGED <<nodes, relations, draft, topic, participants, approval, announced, rejecting>>

TasksDone(a) ==
    /\ approval[a].step = "tasks" /\ \A t \in PlanTasks : subject[t] # NoContent
    /\ GoOn(a, "goal")
    /\ UNCHANGED <<subject, nodes, relations, draft, topic, participants, announced, rejecting>>

(* The row and the node of one object, in one transaction. *)
PutWithNode(n, content) ==
    /\ MayPut(n, content)
    /\ subject' = [subject EXCEPT ![n] = content]
    /\ nodes' = nodes \cup {n}

(* create_goal compares who created and approved it. *)
MaterializeGoal(a) ==
    /\ approval[a].step = "goal"
    /\ PutWithNode(Goal, a)
    /\ GoOn(a, "phase")
    /\ UNCHANGED <<relations, draft, topic, participants, announced, rejecting>>

(* create_phase compares the owner team, which is one of the teams of the   *)
(* category, in no particular order; _require_project_team expects the team *)
(* to take part in a single project.                                        *)
MaterializePhase(a) ==
    /\ approval[a].step = "phase"
    /\ \E team \in participants \ ElsewhereTeams : PutWithNode(Phase, team)
    /\ GoOn(a, "nodes")
    /\ UNCHANGED <<relations, draft, topic, participants, announced, rejecting>>

(* register_existing_subject *)
RegisterTask(a) ==
    /\ approval[a].step = "nodes"
    /\ \E t \in PlanTasks : t \notin nodes /\ MayRegister(t) /\ nodes' = nodes \cup {t}
    /\ UNCHANGED <<subject, relations, draft, topic, participants, approval, announced, rejecting>>

NodesDone(a) ==
    /\ approval[a].step = "nodes" /\ PlanTasks \subseteq nodes
    /\ GoOn(a, "relations")
    /\ UNCHANGED <<subject, nodes, relations, draft, topic, participants, announced, rejecting>>

Relation(a) == PlanRelations[approval[a].next]

(* add_relation of the service reads the relations of the project *)
ReadRelations(a) ==
    /\ approval[a].step = "relations" /\ approval[a].next <= Len(PlanRelations)
    /\ ~approval[a].reading
    /\ approval' = [approval EXCEPT ![a].reading = TRUE, ![a].seen = relations]
    /\ UNCHANGED <<subject, nodes, relations, draft, topic, participants, announced, rejecting>>

(* The relation closes no cycle of the dependencies that were read. *)
Admissible(r, seen) == r[2] = "depends_on" => WouldNotCycle(seen, r[1], r[3])

(* and inserts the new one after checking it against what it read. *)
AddRelation(a) ==
    /\ approval[a].reading
    /\ Admissible(Relation(a), approval[a].seen) /\ MayRelate(Relation(a))
    /\ relations' = relations \cup {Relation(a)}
    /\ approval' = [approval EXCEPT ![a].reading = FALSE, ![a].seen = {}, ![a].next = @ + 1]
    /\ UNCHANGED <<subject, nodes, draft, topic, participants, announced, rejecting>>

(* The approval is marked as soon as its tasks are sent. *)
TasksSent(a) ==
    approval[a].step \in {"goal", "phase", "nodes", "relations"}

(* The draft is finalized last. *)
AllMaterialized(a) ==
    approval[a].step = "relations" /\ approval[a].next > Len(PlanRelations)

(* The conditional update of the draft: one approval marks it and announces *)
(* it to the process, the other ones find it closed.                        *)
FinishApproval(a) ==
    /\ AllMaterialized(a)
    /\ draft' = IF draft = "drafting" THEN "approved" ELSE draft
    /\ announced' = IF draft = "drafting" THEN announced + 1 ELSE announced
    /\ approval' = [approval EXCEPT ![a] = NoApproval]
    /\ UNCHANGED <<subject, nodes, relations, topic, participants, rejecting>>

(* reject_plan_draft reads an open draft, without a lock, *)
BeginRejection ==
    /\ draft = "drafting" /\ ~rejecting
    /\ rejecting' = TRUE
    /\ UNCHANGED <<subject, nodes, relations, draft, topic, participants, approval, announced>>

(* and rejects it, whatever it has become. *)
RejectPlanDraft ==
    /\ rejecting
    /\ draft' = "rejected" /\ rejecting' = FALSE
    /\ UNCHANGED <<subject, nodes, relations, topic, participants, approval, announced>>

Approve(a) ==
    \/ BeginApproval(a) \/ StopApproval(a)
    \/ ProjectPlanTopic(a) \/ MaterializeTask(a) \/ TasksDone(a)
    \/ MaterializeGoal(a) \/ MaterializePhase(a) \/ RegisterTask(a) \/ NodesDone(a)
    \/ ReadRelations(a) \/ AddRelation(a) \/ FinishApproval(a)

PlanningNext ==
    \/ ImportPlanDraft \/ BeginRejection \/ RejectPlanDraft
    \/ \E team \in TeamsOfKind : JoinProject(team)
    \/ \E a \in Approvers : Approve(a)

PlanningSpec == PlanningInit /\ [][PlanningNext]_planningVars

-----------------------------------------------------------------------------
(* Properties *)

(* An approved plan is in the project whole: topic, tasks, nodes and        *)
(* relations are there, whoever stopped half way and whoever finished       *)
(* (approve_plan_draft: "Business projection runs before the draft is       *)
(* marked approved").                                                       *)
ApprovedPlanIsMaterialized ==
    draft = "approved" =>
        /\ topic /\ \A t \in PlanTasks : subject[t] # NoContent
        /\ PlanTasks \cup {Goal, Phase} \subseteq nodes
        /\ \A k \in 1 .. Len(PlanRelations) : PlanRelations[k] \in relations

(* The process hears of an approval at most once, and of every approved     *)
(* draft, however many members approve it at the same time.                 *)
ApprovedOnce == announced <= 1 /\ (draft = "approved" => announced = 1)
=============================================================================
