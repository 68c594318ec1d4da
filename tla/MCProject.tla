----------------------------- MODULE MCProject -----------------------------
(* The workspace of a project, on small instances: its conversations with   *)
(* the exchanges between teams, the plan and the planner that extends it,   *)
(* the documents, what the agents remember, and how the project is          *)
(* completed.  A behaviour drives what its focus names and the rest stays   *)
(* as it starts.                                                            *)
EXTENDS Exchanges, Planner, Documents, Memory, Completion, TLC

CONSTANTS
    Focuses,    \* the parts this run drives
    a1, a2, j1

VARIABLE focus

-----------------------------------------------------------------------------
(* The instance *)

MCPlanRelations == << <<"t1", "part_of", "p">>, <<"t1", "depends_on", "t2">> >>

(* What a planner run may answer: two batches with a task and its controls, *)
(* one with a task too many, a replan, a dependency that would close a      *)
(* cycle, and a batch that is cut short.                                    *)
MCBatch(tasks, notes, deps, controls, replans) ==
    [tasks |-> tasks, notes |-> notes, deps |-> deps, controls |-> controls,
     replans |-> replans, complete |-> TRUE]

MCBatches ==
    {MCBatch({"n1"}, {"k"}, {<<"n1", "t1">>}, 0, 0), MCBatch({"n2"}, {"k"}, {}, 1, 0),
     MCBatch({}, {}, {}, 0, 1), MCBatch({"n1", "n2", "n3"}, {}, {}, 0, 0),
     MCBatch({}, {}, {<<"t2", "t1">>}, 0, 0),
     [MCBatch({"n1"}, {}, {}, 0, 0) EXCEPT !.complete = FALSE]}

MCPatchOf == [d \in Patches |-> 1]

(* Where the planner is driven the plan is in the project already, or its   *)
(* approval has come as far as the relations.                               *)
PlanNodes ==
    /\ subject = [n \in WorkNodes |-> CASE n = Goal -> "a1" [] n = Phase -> "x"
                                        [] n \in PlanTasks -> "task" [] OTHER -> NoContent]
    /\ nodes = PlanTasks \cup {Goal, Phase}
    /\ topic = TRUE /\ participants = {"x"} /\ rejecting = FALSE

MaterializedPlan ==
    /\ PlanNodes /\ draft = "approved" /\ announced = 1
    /\ relations = {MCPlanRelations[k] : k \in DOMAIN MCPlanRelations}
    /\ approval = [a \in Approvers |-> NoApproval]

HalfApprovedPlan ==
    /\ PlanNodes /\ draft = "drafting" /\ announced = 0
    /\ relations = {}
    /\ approval = [a \in Approvers |->
                      IF a = a1 THEN [NoApproval EXCEPT !.step = "relations"] ELSE NoApproval]

-----------------------------------------------------------------------------
ProjectInit ==
    /\ focus \in Focuses
    /\ ExchangeInit /\ PlannerInit /\ DocumentsInit /\ MemoryInit /\ CompletionInit
    /\ CASE focus = "planner" -> MaterializedPlan
         [] focus = "approval" -> HalfApprovedPlan
         [] OTHER -> PlanningInit

ActiveKinds(kinds) == \A t \in Turns : turns[t].status = "none" \/ turns[t].kind \in kinds

(* A run that fails and one that answers nothing are projected alike.       *)
NoRunIs(outcome) == \A t \in Turns : runs[t] # outcome

(* Conversations: two turns, two projecting threads.  Exchanges: one turn   *)
(* of the agent per conversation, one projecting thread.                    *)
ConversationFocus ==
    \/ focus = "conversations" /\ UNCHANGED exchangeVars /\ ExchangeNext
       /\ ActiveKinds({"planning"})' /\ NoRunIs("failed")'
    \/ focus = "exchanges" /\ ExchangeNext
       /\ ActiveKinds({"user_message", "exchange"})' /\ NoRunIs("empty")' /\ NextTurn' <= 2
       /\ conversation'.status # "archived"
       /\ \A p \in Projectors \ {j1} : projector'[p] = Idle
    \/ focus = "answers" /\ (ExchangeDraftRoutes \/ ResponseRoutes)

PlanFocus ==
    \/ focus = "plans" /\ PlanningNext /\ UNCHANGED plannerVars
    \/ focus = "planner" /\ PlannerNext
    \* The plan's relations against batches that bring dependencies.
    \/ focus = "approval"
       /\ (IntentSteps \/ ProjectionSteps \/ ConsumerSteps \/ (PlanningNext /\ UNCHANGED plannerVars))
       /\ approval'[a2] = NoApproval /\ participants' = participants
       /\ process'.open = 0
       /\ \A i \in Intents :
             /\ intent'[i] # NoIntent => \A j \in Intents : j < i => intent'[j] # NoIntent
             /\ intent'[i].run \in {"none", "active", "completed"}
             /\ intent'[i].run = "completed" => intent'[i].answer.deps # {}

(* Documents: parsing succeeds or is cut off.  Parsing: it may fail too, and *)
(* no draft is made.                                                         *)
DocumentFocus ==
    \/ focus \in {"documents", "parsing"}
       /\ (DocumentRoutes \/ \E p \in Members : ContinueCall(p))
       /\ IF focus = "parsing" THEN UNCHANGED drafts ELSE derivative' # "failed"
    \/ focus = "code" /\ (CodeRoutes \/ \E p \in Members : ContinueCall(p))

(* The goals are interchangeable: one of them is agreed on first.           *)
FirstGoal(goal) == terms # << >> => terms[1].goal = goal

(* One record is held and deleted, the others are written, reviewed and     *)
(* rotated with it.                                                         *)
DeletesOnly(m) ==
    \A x \in Memories \ {m} : request[x].status = "none" /\ \A h \in Holds : hold[h] # x

ProjectNext ==
    /\ UNCHANGED focus
    /\ \/ ConversationFocus
          /\ UNCHANGED <<orchestrationVars, documentVars, memoryVars, completionVars>>
       \/ PlanFocus
          /\ UNCHANGED <<exchangeAndConversationVars, documentVars, memoryVars,
                         completionVars>>
       \/ DocumentFocus
          /\ UNCHANGED <<exchangeAndConversationVars, orchestrationVars, memoryVars,
                         completionVars>>
       \/ focus = "memory" /\ MemoryNext /\ DeletesOnly(1)'
          /\ UNCHANGED <<exchangeAndConversationVars, orchestrationVars, documentVars,
                         completionVars>>
       \/ focus = "completion" /\ CompletionNext /\ FirstGoal("g")'
          /\ UNCHANGED <<exchangeAndConversationVars, orchestrationVars, documentVars,
                         memoryVars>>

ProjectSpec ==
    /\ ProjectInit
    /\ [][ProjectNext]_<<exchangeAndConversationVars, orchestrationVars, documentVars,
                         memoryVars, completionVars, focus>>

AnsweredSpec == ProjectSpec /\ ExchangeFairness
=============================================================================
