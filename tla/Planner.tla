------------------------------- MODULE Planner -------------------------------
(***************************************************************************)
(* The project planner: the intent to plan for one snapshot of a process   *)
(* (project_process/planner.py), its agent run (planner_runtime.py), the   *)
(* projection of the run's answer into a decision with a batch of commands *)
(* (planner_projection.py, command_service.py) and the consumer that       *)
(* applies the batch to the work graph and the process                     *)
(* (planner_consumer.py, planner_graph_effects.py).                        *)
(*                                                                         *)
(* The version of a process changes only with its event sequence, so       *)
(* cursor stands for both.  A decision has an id derived from its intent   *)
(* and is kept with it.  A consumer holds the lock of the process row from *)
(* its first read to its commit; the relations of the graph are not        *)
(* locked, and plan approvals change them meanwhile.                       *)
(***************************************************************************)
EXTENDS Planning, FiniteSets

CONSTANTS
    Intents,      \* ids of planner intents
    PlannerProjectors,   \* processes that project ended runs
    Batches,      \* what a planner run may answer
    MaxTasks,     \* max_generated_tasks of the execution policy
    MaxReplans,   \* max_replans of the execution policy
    CursorLimit,  \* bound on the cursor of the process
    Unset

(* The ids of the plan's rows are digests of the draft's id: no answer of a *)
(* run names one that is not in the graph.                                  *)
ASSUME PlannerParameters ==
    /\ {MaxTasks, MaxReplans, CursorLimit} \subseteq Nat
    /\ \A b \in Batches :
          /\ b.tasks \cup b.notes \subseteq WorkNodes \ (PlanTasks \cup {Goal, Phase})
          /\ b.deps \subseteq WorkNodes \X WorkNodes
          /\ IsFiniteSet(b.tasks) /\ {b.controls, b.replans} \subseteq Nat

VARIABLES
    process,     \* project_processes, with the number of open human controls
    intent,      \* project_planner_intents and their agent runs
    decision,    \* project_orchestration_decisions and their commands
    usage,       \* project_execution_usage: generated tasks, replans
    planProjector,   \* the projections under way
    consumer,    \* the batch being consumed
    reported     \* decision_stale facts, by intent

plannerVars == <<process, intent, decision, usage, planProjector, consumer, reported>>
orchestrationVars ==
    <<subject, nodes, relations, draft, topic, participants, approval, rejecting, announced,
      process, intent, decision, usage, planProjector, consumer, reported>>

-----------------------------------------------------------------------------
(* The tables *)

IntentOpen == {"pending", "running"}
RunEnded == {"completed", "failed", "cancelled"}

NoBatch ==
    [tasks |-> {}, notes |-> {}, deps |-> {}, controls |-> 0, replans |-> 0, complete |-> TRUE]

NoIntent == [status |-> "none", cursor |-> 0, graph |-> Unset, run |-> "none", answer |-> NoBatch]
NoDecision == [status |-> "none", batch |-> NoBatch]
NoProjection == [step |-> "idle", of |-> Unset, graph |-> Unset, cursor |-> 0]
NoConsumption == [of |-> Unset, graph |-> Unset]

PlannerInit ==
    /\ process = [cursor |-> 0, status |-> "active", open |-> 0]
    /\ intent = [i \in Intents |-> NoIntent]
    /\ decision = [i \in Intents |-> NoDecision]
    /\ usage = [tasks |-> 0, replans |-> 0]
    /\ planProjector = [p \in PlannerProjectors |-> NoProjection]
    /\ consumer = NoConsumption
    /\ reported = {}

OrchestrationInit == PlanningInit /\ PlannerInit

(* The row of the process is not locked by a consumer. *)
Unlocked == consumer.of = Unset

(* A fact of the process (append_fact) *)
Fact(proc) == [proc EXCEPT !.cursor = @ + 1]

-----------------------------------------------------------------------------
(* The process around the planner *)

(* Any other fact: a task moved on, a person decided, the process waits for *)
(* something or ends.                                                       *)
ProcessMoves(status) ==
    /\ Unlocked /\ process.status # "terminal" /\ process.cursor < CursorLimit
    /\ status = "human" <=> process.open > 0
    /\ process' = [Fact(process) EXCEPT !.status = status]
    /\ UNCHANGED <<intent, decision, usage, planProjector, consumer, reported>>
    /\ UNCHANGED planningVars

(* A person settles the open controls. *)
ControlsResolved ==
    /\ Unlocked /\ process.open > 0 /\ process.cursor < CursorLimit
    /\ process' = [Fact(process) EXCEPT !.open = 0, !.status = "active"]
    /\ UNCHANGED <<intent, decision, usage, planProjector, consumer, reported>>
    /\ UNCHANGED planningVars

(* A task of the plan is moved by hand before its process hears of it. *)
TaskMoves ==
    /\ Unlocked /\ process.cursor < CursorLimit /\ process.status # "terminal"
    /\ \E t \in PlanTasks, state \in {"task", "started"} :
          /\ subject[t] \notin {NoContent, state}
          /\ subject' = [subject EXCEPT ![t] = state]
    /\ process' = Fact(process)
    /\ UNCHANGED <<nodes, relations, intent, decision, usage, planProjector, consumer, reported>>
    /\ UNCHANGED planVars

-----------------------------------------------------------------------------
(* Intents and their runs *)

NewIntent(cursor, graph) ==
    [NoIntent EXCEPT !.status = "pending", !.cursor = cursor, !.graph = graph]

(* create: the id is derived from the snapshot, so one exists per snapshot. *)
Requested(cursor, graph) ==
    \E i \in Intents : intent[i].status # "none" /\ intent[i].cursor = cursor
                       /\ intent[i].graph = graph

RequestPlan(i) ==
    /\ intent[i].status = "none" /\ process.status # "terminal"
    /\ ~Requested(process.cursor, GraphSnapshot)
    /\ intent' = [intent EXCEPT ![i] = NewIntent(process.cursor, GraphSnapshot)]
    /\ UNCHANGED <<process, decision, usage, planProjector, consumer, reported>>
    /\ UNCHANGED planningVars

Ended(i, status) == [intent EXCEPT ![i].status = status]

IntentFresh(i) == intent[i].cursor = process.cursor /\ intent[i].graph = GraphSnapshot

(* ProjectPlannerRunLauncher.process_once: an intent waits with its         *)
(* process, ends with it, or is stale; otherwise launch binds and creates   *)
(* its run in one transaction.                                              *)
LaunchPlan(i) ==
    /\ Unlocked /\ intent[i].status = "pending" /\ process.open = 0
    /\ \/ /\ process.status = "terminal"
          /\ intent' = Ended(i, "cancelled")
       \/ /\ process.status = "active" /\ ~IntentFresh(i)
          /\ intent' = Ended(i, "stale")
       \/ /\ process.status = "active" /\ IntentFresh(i)
          /\ intent' = [intent EXCEPT ![i].status = "running", ![i].run = "active"]
    /\ UNCHANGED <<process, decision, usage, planProjector, consumer, reported>>
    /\ UNCHANGED planningVars

(* A gate or an input request: the process waits for a person. *)
WithControl(proc) == [Fact(proc) EXCEPT !.open = @ + 1, !.status = "human"]

(* The budget of the process has no room for the run: a gate opens instead. *)
LaunchOverBudget(i) ==
    /\ Unlocked /\ intent[i].status = "pending" /\ process.open = 0
    /\ process.status = "active" /\ IntentFresh(i) /\ process.cursor < CursorLimit
    /\ process' = WithControl(process)
    /\ UNCHANGED <<intent, decision, usage, planProjector, consumer, reported>>
    /\ UNCHANGED planningVars

(* The run behind an intent ends, with some batch as its answer. *)
PlanRunEnds(i, outcome, batch) ==
    /\ intent[i].run = "active"
    /\ outcome = "completed" \/ batch = NoBatch
    /\ intent' = [intent EXCEPT ![i].run = outcome, ![i].answer = batch]
    /\ UNCHANGED <<process, decision, usage, planProjector, consumer, reported>>
    /\ UNCHANGED planningVars

-----------------------------------------------------------------------------
(* The projection of an ended run *)

NewDeps(batch) == {<<d[1], "depends_on", d[2]>> : d \in batch.deps}

(* The validator: new tasks are new, references are in the graph or in the  *)
(* batch, and no dependency closes a cycle.                                 *)
ValidBatch(batch, graph) ==
    /\ batch.tasks \cap graph.nodes = {}
    /\ \A d \in batch.deps : {d[1], d[2]} \subseteq graph.nodes \cup batch.tasks
    /\ AcyclicDeps(DependsOn(graph.relations) \cup batch.deps)

ProjectorGoesOn(p, step) == planProjector' = [planProjector EXCEPT ![p].step = step]
ProjectorStopped(p) == planProjector' = [planProjector EXCEPT ![p] = NoProjection]

(* finish: an intent ends once *)
FinishIntent(i, status) ==
    intent' = IF intent[i].status \in IntentOpen THEN Ended(i, status) ELSE intent

(* on_run_terminal: the intent is open and its run has ended.  The graph is *)
(* read once and decides what is recorded.                                  *)
BeginProjection(p, i) ==
    /\ planProjector[p].step = "idle"
    /\ intent[i].status \in IntentOpen /\ intent[i].run \in RunEnded
    /\ \/ /\ intent[i].run # "completed"
          /\ FinishIntent(i, intent[i].run)
          /\ UNCHANGED planProjector
       \/ /\ intent[i].run = "completed" /\ GraphSnapshot = intent[i].graph
          /\ ~ValidBatch(intent[i].answer, GraphSnapshot)
          /\ FinishIntent(i, "rejected")
          /\ UNCHANGED planProjector
       \/ /\ intent[i].run = "completed"
          /\ GraphSnapshot # intent[i].graph \/ ValidBatch(intent[i].answer, GraphSnapshot)
          /\ planProjector' = [planProjector EXCEPT ![p] =
                [step |-> "record", of |-> i, graph |-> GraphSnapshot, cursor |-> 0]]
          /\ UNCHANGED intent
    /\ UNCHANGED <<process, decision, usage, consumer, reported>>
    /\ UNCHANGED planningVars

(* What the projection wants to record: nothing of a stale answer *)
Recorded(p) ==
    IF planProjector[p].graph = intent[planProjector[p].of].graph
    THEN intent[planProjector[p].of].answer ELSE NoBatch

(* A decision that is there is taken for the same one if its batch is, and  *)
(* if all its commands are: a stale decision has none.                      *)
SameDecision(d, batch) == d.batch = batch /\ (d.status = "stale" => batch = NoBatch)

(* record_decision *)
RecordDecision(p) ==
    LET i == planProjector[p].of
        stale == process.cursor # intent[i].cursor \/ planProjector[p].graph # intent[i].graph
    IN  /\ planProjector[p].step = "record"
        /\ IF decision[i].status = "none"
           THEN /\ decision' = [decision EXCEPT ![i] =
                      [status |-> IF stale THEN "stale" ELSE "pending", batch |-> Recorded(p)]]
                /\ ProjectorGoesOn(p, IF stale THEN "read" ELSE "finish")
           ELSE /\ SameDecision(decision[i], Recorded(p))
                /\ ProjectorGoesOn(p, IF decision[i].status = "stale" THEN "read" ELSE "finish")
                /\ UNCHANGED decision
        /\ UNCHANGED <<process, intent, usage, consumer, reported>>
        /\ UNCHANGED planningVars

(* _emit_stale reads the process *)
ReadForStale(p) ==
    /\ planProjector[p].step = "read"
    /\ planProjector' = [planProjector EXCEPT ![p].step = "emit", ![p].cursor = process.cursor]
    /\ UNCHANGED <<process, intent, decision, usage, consumer, reported>>
    /\ UNCHANGED planningVars

(* and appends the fact, once, if the process has not moved. *)
EmitStaleDecision(p) ==
    /\ planProjector[p].step = "emit" /\ Unlocked
    /\ \/ /\ planProjector[p].of \in reported
          /\ UNCHANGED <<process, reported>>
       \/ /\ planProjector[p].of \notin reported /\ process.cursor = planProjector[p].cursor
          /\ process' = Fact(process)
          /\ reported' = reported \cup {planProjector[p].of}
    /\ ProjectorGoesOn(p, "finish")
    /\ UNCHANGED <<intent, decision, usage, consumer>>
    /\ UNCHANGED planningVars

FinishProjection(p) ==
    /\ planProjector[p].step = "finish"
    /\ FinishIntent(planProjector[p].of,
          IF decision[planProjector[p].of].status = "stale" THEN "stale" ELSE "projected")
    /\ ProjectorStopped(p)
    /\ UNCHANGED <<process, decision, usage, consumer, reported>>
    /\ UNCHANGED planningVars

(* A conflict is logged and the projection replayed later; so is one that   *)
(* was lost in a crash.                                                     *)
ProjectionStops(p) ==
    /\ planProjector[p].step # "idle"
    /\ ProjectorStopped(p)
    /\ UNCHANGED <<process, intent, decision, usage, consumer, reported>>
    /\ UNCHANGED planningVars

-----------------------------------------------------------------------------
(* The consumer *)

(* process_once picks a pending decision of a projected intent; consume     *)
(* locks it with its process and reads the graph.                           *)
BeginConsume(i) ==
    /\ Unlocked /\ decision[i].status = "pending" /\ intent[i].status = "projected"
    /\ consumer' = [of |-> i, graph |-> GraphSnapshot]
    /\ UNCHANGED <<process, intent, decision, usage, planProjector, reported>>
    /\ UNCHANGED planningVars

(* Process and graph, as they were read, are the ones the planner saw.     *)
(* Plan approvals may have changed the relations since.                    *)
SnapshotUnmoved(i) ==
    /\ process.status # "terminal" /\ process.cursor = intent[i].cursor
    /\ consumer.graph = intent[i].graph

(* A batch that changed the graph counts as the fact it leaves behind. *)
AppliedSilently(i, status, proc) ==
    /\ reported' = IF status = "stale" /\ proc.status # "terminal"
                   THEN reported \cup {i} ELSE reported
    /\ decision' = [decision EXCEPT ![i].status = status]
    /\ process' = IF proc.status = "terminal" \/ status = "applied" THEN proc ELSE Fact(proc)
    /\ consumer' = NoConsumption

(* _finish: the outcome is a fact of a process that has not ended. *)
ConsumedAs(i, status, proc) ==
    /\ reported' = IF status = "stale" /\ proc.status # "terminal"
                   THEN reported \cup {i} ELSE reported
    /\ decision' = [decision EXCEPT ![i].status = status]
    /\ process' = IF proc.status = "terminal" THEN proc ELSE Fact(proc)
    /\ consumer' = NoConsumption

ConsumeStale ==
    /\ consumer.of # Unset /\ ~SnapshotUnmoved(consumer.of)
    /\ ConsumedAs(consumer.of, "stale", process)
    /\ UNCHANGED <<intent, usage, planProjector>>
    /\ UNCHANGED planningVars

Batch == decision[consumer.of].batch

(* The tasks and replans of the batch are not counted. *)
PolicyAllowsOne(batch) == usage.tasks < MaxTasks /\ usage.replans <= MaxReplans

(* The policy allows what the batch adds to what was generated before. *)
PolicyAllows(batch) ==
    /\ usage.tasks + Cardinality(batch.tasks) <= MaxTasks
    /\ usage.replans + batch.replans <= MaxReplans

(* _validate asks more of a batch than its projection did: one replan at    *)
(* most, and a complete contract for every task.                            *)
Executable(batch) == batch.replans <= 1 /\ batch.complete

ConsumeRejected ==
    /\ consumer.of # Unset /\ SnapshotUnmoved(consumer.of)
    /\ process.open > 0 \/ ~ValidBatch(Batch, consumer.graph) \/ ~Executable(Batch)
    /\ ConsumedAs(consumer.of, "rejected", process)
    /\ UNCHANGED <<intent, usage, planProjector>>
    /\ UNCHANGED planningVars

Consumable ==
    consumer.of # Unset /\ SnapshotUnmoved(consumer.of) /\ process.open = 0
    /\ ValidBatch(Batch, consumer.graph) /\ Executable(Batch)

(* _budget_gate: unless the process waits for something else, which stays.  *)
ConsumeOverBudget ==
    /\ Consumable /\ ~PolicyAllows(Batch)
    /\ ConsumedAs(consumer.of, "rejected",
          IF process.status = "blocked" THEN Fact(process) ELSE WithControl(process))
    /\ UNCHANGED <<intent, usage, planProjector>>
    /\ UNCHANGED planningVars

(* The effects of a batch, in the state they are applied in: no generated   *)
(* id is taken, no dependency closes a cycle, and a process that waits for  *)
(* something else cannot wait for a person.                                 *)
EffectsApply(batch) ==
    /\ \A n \in batch.tasks \cup batch.notes : subject[n] = NoContent
    /\ AcyclicDeps(DependsOn(relations) \cup batch.deps)
    /\ batch.controls > 0 => process.status # "blocked"

(* Tasks and other rows stay when a later effect of the batch fails. *)
NothingUndone(batch) ==
    /\ subject' = [n \in WorkNodes |-> IF n \in batch.tasks THEN "task" ELSE subject[n]]
    /\ nodes' = nodes \cup batch.tasks
    /\ UNCHANGED relations

(* The savepoint undoes what the batch had done. *)
EffectsUndone(batch) == UNCHANGED <<subject, nodes, relations>>

ConsumeFails ==
    /\ Consumable /\ PolicyAllows(Batch) /\ ~EffectsApply(Batch)
    /\ EffectsUndone(Batch)
    /\ ConsumedAs(consumer.of, "rejected", process)
    /\ UNCHANGED <<intent, usage, planProjector>>
    /\ UNCHANGED planVars

(* A replan is a new intent for the snapshot after the batch. *)
Replanned(cursor, graph) ==
    {[intent EXCEPT ![j] = NewIntent(cursor, graph)] :
        j \in {k \in Intents : intent[k].status = "none"}}

(* Tasks first, then the other effects, the usage and the outcome. *)
ConsumeApplied ==
    /\ Consumable /\ PolicyAllows(Batch) /\ EffectsApply(Batch)
    /\ subject' = [n \in WorkNodes |->
          IF n \in Batch.tasks THEN "task" ELSE IF n \in Batch.notes THEN "note" ELSE subject[n]]
    /\ nodes' = nodes \cup Batch.tasks \cup Batch.notes
    /\ relations' = relations \cup NewDeps(Batch)
    /\ usage' = [tasks |-> usage.tasks + Cardinality(Batch.tasks),
                 replans |-> usage.replans + Batch.replans]
    /\ ConsumedAs(consumer.of, "applied",
          IF Batch.controls > 0 THEN WithControl(process) ELSE process)
    /\ IF Batch.replans > 0
       THEN intent' \in Replanned(process'.cursor,
               [nodes |-> nodes', relations |-> relations', subject |-> subject'])
       ELSE UNCHANGED intent
    /\ UNCHANGED planProjector
    /\ UNCHANGED planVars

(* A crash rolls the transaction back. *)
ConsumerStops ==
    /\ consumer.of # Unset
    /\ consumer' = NoConsumption
    /\ UNCHANGED <<process, intent, decision, usage, planProjector, reported>>
    /\ UNCHANGED planningVars

-----------------------------------------------------------------------------
ProcessSteps ==
    \/ \E status \in {"active", "human", "blocked", "terminal"} : ProcessMoves(status)
    \/ ControlsResolved \/ TaskMoves

IntentSteps ==
    \E i \in Intents :
        \/ RequestPlan(i) \/ LaunchPlan(i) \/ LaunchOverBudget(i)
        \/ \E outcome \in RunEnded, batch \in Batches \cup {NoBatch} : PlanRunEnds(i, outcome, batch)

ProjectionSteps ==
    \E p \in PlannerProjectors :
        \/ \E i \in Intents : BeginProjection(p, i)
        \/ RecordDecision(p) \/ ReadForStale(p) \/ EmitStaleDecision(p) \/ FinishProjection(p)
        \/ ProjectionStops(p)

ConsumerSteps ==
    \/ \E i \in Intents : BeginConsume(i)
    \/ ConsumeStale \/ ConsumeRejected \/ ConsumeOverBudget \/ ConsumeFails \/ ConsumeApplied
    \/ ConsumerStops

PlannerNext == ProcessSteps \/ IntentSteps \/ ProjectionSteps \/ ConsumerSteps

OrchestrationNext ==
    \/ PlannerNext
    \/ PlanningNext /\ UNCHANGED plannerVars

OrchestrationSpec == OrchestrationInit /\ [][OrchestrationNext]_orchestrationVars

-----------------------------------------------------------------------------
(* Properties *)

(* A batch is applied as a whole or not at all: what the planner generated  *)
(* is what the applied decisions say, through rollbacks, replans and        *)
(* crashes (consume).                                                       *)
BatchIsAllOrNothing ==
    LET applied == {i \in Intents : decision[i].status = "applied"}
        planned == PlanTasks \cup {Goal, Phase}
    IN  /\ nodes \ planned =
              UNION {decision[i].batch.tasks \cup decision[i].batch.notes : i \in applied}
        /\ \A i \in applied : NewDeps(decision[i].batch) \subseteq relations

(* The planner never generates more tasks than the policy of the process    *)
(* allows, over all its intents and replans (usage and policy in consume).  *)
GeneratedWithinPolicy ==
    /\ Cardinality({n \in nodes \ PlanTasks : subject[n] = "task"}) <= MaxTasks
    /\ Cardinality({i \in Intents : decision[i].status = "applied"
                                    /\ decision[i].batch.replans > 0}) <= MaxReplans

(* Of the batches planned for one state of the process, one at most is      *)
(* applied: whatever is applied moves the process on, so a second answer to *)
(* the same state, for a graph that approvals have changed meanwhile, comes *)
(* too late (the locked process row and _finish in consume).                *)
AppliedInTurn ==
    \A i, j \in Intents :
        i # j /\ decision[i].status = "applied" /\ decision[j].status = "applied" =>
            intent[i].cursor # intent[j].cursor

(* The draft of the plan, its approvals, and what the planner has used.     *)
PlanTypeOK ==
    /\ draft \in DraftStatus
    /\ approval \in [Approvers -> ApprovalRow]
    /\ usage \in [tasks : Nat, replans : Nat]

(* Work enters the project whole: an approved plan is materialized once and *)
(* completely, and the planner's batches are applied in turn, each within   *)
(* its policy or not at all.                                                *)
PlannedWorkIsWhole ==
    /\ PlanTypeOK /\ ApprovedPlanIsMaterialized /\ ApprovedOnce
    /\ BatchIsAllOrNothing /\ GeneratedWithinPolicy /\ AppliedInTurn
=============================================================================
