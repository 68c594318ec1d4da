--------------------------- MODULE ProjectProcess ---------------------------
(***************************************************************************)
(* The project process (project_process/): every change of a project       *)
(* appends an event and, in the same transaction, a wake-up.  A runner     *)
(* claims a wake-up under a lease, decides on a snapshot of the project,   *)
(* records the decision, applies it, closes it and completes the wake-up,  *)
(* each in a transaction of its own.  Meanwhile agent runs end, are        *)
(* settled, projected onto their tasks and verified (team_agents/,         *)
(* verification/), people start, submit and review tasks (product/),       *)
(* answer questions and decide deliveries (delivery/), and each of these   *)
(* moves the project under the runner's feet.                              *)
(*                                                                         *)
(* ev[n] is the n-th event with its wake-up and the decision the wake-up   *)
(* leads to (the decision's id is a digest of the event's).  The           *)
(* fencing token of a wake-up is its attempt number: claim raises both.    *)
(* last_event_sequence is Len(ev), counted from the plan's approval.       *)
(***************************************************************************)
EXTENDS Integers, Sequences, FiniteSets

CONSTANTS
    Runners,        \* orchestrator workers
    Tasks,          \* the tasks of the work graph, numbered as readiness sorts them
    Prereq,         \* the tasks a task depends on
    Approvers,      \* the people whose acceptance the completion contract requires
    RetryBudget,    \* retry_budget of a wake-up
    MaxAgentRuns,   \* the policy's max_agent_runs
    MaxActive,      \* the policy's max_active_agent_runs
    MaxEvents,      \* bound: events after which no further one is appended
    MaxBacklog,     \* bound: open wake-ups when others than a worker append an event
    MaxLeases,      \* bound: wake-ups under a live lease at a time
    MaxFaults,      \* bound: exceptions, lost workers and lapsed leases of a behaviour
    MaxMoves        \* bound: what people do of their own accord in a behaviour

ASSUME PolicyAssumption ==
    /\ Tasks \subseteq Nat /\ Tasks # {} /\ IsFiniteSet(Tasks)
    /\ Prereq \in [Tasks -> SUBSET Tasks]
    /\ RetryBudget \in Nat
    /\ MaxAgentRuns \in Nat /\ MaxActive \in Nat
    /\ MaxEvents \in Nat /\ MaxBacklog \in Nat
    /\ MaxLeases \in Nat /\ MaxFaults \in Nat /\ MaxMoves \in Nat

VARIABLES
    proc,       \* the process row: phase, status, wait reason, version
    ev,         \* the events with their wake-ups and decisions
    task,       \* a team task: status, and which evidence its last change agrees with
    run,        \* the latest agent run of a task, with its reservation, receipt, verification
    started,    \* agent_runs_started of the usage row
    ctl,        \* the project's input request and gate
    accepted,   \* who has accepted the current delivery
    runners,    \* an orchestrator worker inside process_once
    faults,     \* faults so far
    moves       \* moves so far

processVars == <<proc, ev, task, run, started, ctl, accepted, runners, faults, moves>>

Controls == {"input", "gate"}
Phases == {"EXECUTION", "VERIFICATION", "INTEGRATION", "DELIVERY", "TERMINAL"}
Statuses == {"READY", "RUNNING", "WAITING", "COMPLETED"}
Atomic == {"DISPATCH_WORK", "REOPEN_WORK", "ENTER_INTEGRATION", "ASSEMBLE_INTEGRATION"}
Published == {"RECONCILE_RUNNING", "ENTER_VERIFICATION"}
Actions == Atomic \cup Published \cup {"WAIT"}

NewEvent == [wake |-> "pending", attempt |-> 0, lapsed |-> FALSE, dec |-> "none",
             action |-> "WAIT", work |-> {}, based |-> 0, effect |-> FALSE,
             stale |-> FALSE]
NoRun == [attempt |-> 0, state |-> "none", settled |-> TRUE, receipt |-> "none",
          ver |-> "none"]
Idle == [pc |-> "idle", n |-> 0, token |-> 0, action |-> "WAIT", work |-> {},
         based |-> 0, version |-> 0]

ProcessTypeOK ==
    /\ proc \in [phase : Phases, status : Statuses,
                 wait : {"NONE", "HUMAN_INPUT", "HUMAN_APPROVAL"},
                 version : Nat]
    /\ proc.status = "WAITING" <=> proc.wait # "NONE"
    /\ proc.status = "COMPLETED" <=> proc.phase = "TERMINAL"
    /\ ev \in Seq([wake : {"pending", "leased", "retry_wait", "completed", "failed"},
                   attempt : Nat, lapsed : BOOLEAN,
                   dec : {"none", "PENDING", "STALE", "APPLIED"},
                   action : Actions, work : SUBSET Tasks, based : Nat,
                   effect : BOOLEAN, stale : BOOLEAN])
    /\ task \in [Tasks -> [status : {"accepted", "in_progress", "submitted",
                                     "changes_requested", "verified"},
                           why : {"none", "run", "PASS", "FAIL", "output",
                                  "integration", "delivery"}]]
    /\ run \in [Tasks -> [attempt : Nat, state : {"none", "active", "completed", "failed"},
                          settled : BOOLEAN, receipt : {"none", "submitted", "refused"},
                          ver : {"none", "PASS", "FAIL", "STALE"}]]
    /\ started \in Nat /\ faults \in Nat /\ moves \in Nat
    /\ ctl \in [Controls -> {"none", "OPEN", "resolved"}]
    /\ accepted \subseteq Approvers
    /\ runners \in [Runners -> [pc : {"idle", "claimed", "record", "recheck", "apply", "publish",
                                 "finish", "stale", "complete"},
                           n : Nat, token : Nat, action : Actions, work : SUBSET Tasks,
                           based : Nat, version : Nat]]

(* The project as the plan's approval leaves it: its tasks are accepted by  *)
(* their teams, and the event's wake-up waits for a runner.                 *)
ProcessInit ==
    /\ proc = [phase |-> "EXECUTION", status |-> "READY", wait |-> "NONE",
               version |-> 1]
    /\ ev = <<NewEvent>>
    /\ task = [t \in Tasks |-> [status |-> "accepted", why |-> "none"]]
    /\ run = [t \in Tasks |-> NoRun]
    /\ started = 0 /\ faults = 0 /\ moves = 0
    /\ ctl = [c \in Controls |-> "none"]
    /\ accepted = {}
    /\ runners = [w \in Runners |-> Idle]

-----------------------------------------------------------------------------
(* Events, transitions *)

Room == Len(ev) < MaxEvents

Backlog == {n \in DOMAIN ev : ev[n].wake \notin {"completed", "failed"}}

Quiet == Cardinality(Backlog) < MaxBacklog

Slack == Room /\ Quiet

(* append_event: the event, its outbox row and its wake-up. *)
Emit(e) == Append(e, NewEvent)

(* MAIN_TRANSITIONS from the plan's approval on, and the integration's. *)
Matrix ==
    { [from |-> "EXECUTION", on |-> "READY", key |-> "work.dispatched",
       to |-> "EXECUTION", next |-> "RUNNING"],
      [from |-> "EXECUTION", on |-> "RUNNING", key |-> "all_required_work_submitted",
       to |-> "VERIFICATION", next |-> "READY"],
      [from |-> "VERIFICATION", on |-> "READY", key |-> "verification.failed",
       to |-> "EXECUTION", next |-> "READY"],
      [from |-> "VERIFICATION", on |-> "READY", key |-> "verification.passed",
       to |-> "INTEGRATION", next |-> "READY"],
      [from |-> "INTEGRATION", on |-> "READY", key |-> "integration.passed",
       to |-> "DELIVERY", next |-> "READY"],
      [from |-> "INTEGRATION", on |-> "READY", key |-> "integration.failed",
       to |-> "EXECUTION", next |-> "READY"],
      [from |-> "DELIVERY", on |-> "READY", key |-> "delivery.accepted",
       to |-> "TERMINAL", next |-> "COMPLETED"],
      [from |-> "DELIVERY", on |-> "READY", key |-> "delivery.rejected",
       to |-> "EXECUTION", next |-> "READY"] }

(* ProjectTransitionGuard.transition and apply_transition's update: refused *)
(* (no successor) unless the matrix has an entry for the current state.     *)
Transition(key) ==
    \E m \in Matrix :
        /\ m.key = key /\ m.from = proc.phase /\ m.on = proc.status
        /\ proc.wait = "NONE"
        /\ proc' = [proc EXCEPT !.phase = m.to, !.status = m.next, !.version = @ + 1]

ProcessTerminal == proc.phase = "TERMINAL"

-----------------------------------------------------------------------------
(* The snapshot and the decision *)

OpenControl == \E c \in Controls : ctl[c] = "OPEN"

(* A reservation is held from dispatch to settlement, which needs the run's *)
(* end: an unsettled run is the task's active operation.                    *)
(* Mutant of ActiveOperations: a reservation ends with the run, not with its settlement. *)
ActiveOperationsUntilEnd == {t \in Tasks : run[t].state = "active"}

ActiveOperations == {t \in Tasks : ~run[t].settled}

(* Mutant of Evidence: a task verified or submitted counts, whichever change made it so. *)
EvidenceOfAnySubmission(t) ==
    IF task[t].status \in {"submitted", "verified"} THEN "PASS"
    ELSE IF task[t].status = "changes_requested" THEN "FAIL" ELSE "none"

(* load_project_verification_evidence: only the verification that made the  *)
(* task's last change counts.                                               *)
Evidence(t) ==
    IF task[t].status = "verified" /\ task[t].why = "PASS" THEN "PASS"
    ELSE IF task[t].status = "changes_requested" /\ task[t].why = "FAIL" THEN "FAIL"
    ELSE "none"

VerificationOutcome ==
    IF \E t \in Tasks : Evidence(t) = "FAIL" THEN "FAILED"
    ELSE IF \A t \in Tasks : Evidence(t) = "PASS" THEN "PASSED"
    ELSE "none"

(* Accepted tasks, and tasks to be changed for a reason the system itself   *)
(* has recorded (the rework loaders and the dispatch fact loader).          *)
Dispatchable(t) ==
    \/ task[t].status = "accepted"
    \/ task[t].status = "changes_requested"
       /\ task[t].why \in {"FAIL", "output", "integration", "delivery"}

PrerequisitesVerified(t) == \A p \in Prereq[t] : task[p].status = "verified"

BudgetLeft ==
    /\ started < MaxAgentRuns
    /\ Cardinality(ActiveOperations) < MaxActive

ReadyWork ==
    {t \in Tasks : Dispatchable(t) /\ t \notin ActiveOperations
                   /\ PrerequisitesVerified(t) /\ BudgetLeft}

VerificationReady ==
    /\ \A t \in Tasks : task[t].status \in {"submitted", "verified"}
    /\ ActiveOperations = {}

First(S) == CHOOSE t \in S : \A u \in S : t <= u

Choice(action, work) == [action |-> action, work |-> work]

(* DeterministicProjectOrchestrator.decide on the persistent snapshot, whose *)
(* integration and delivery outcomes are always absent.  SLEEP and the       *)
(* WAIT_FOR_ actions have no effect and are one action here.                 *)
Decide ==
    CASE ProcessTerminal \/ OpenControl \/ proc.status = "WAITING" -> Choice("WAIT", {})
      [] OTHER ->
         CASE proc.phase = "EXECUTION" /\ VerificationReady ->
                Choice(IF proc.status = "READY" THEN "RECONCILE_RUNNING"
                       ELSE "ENTER_VERIFICATION", {})
           [] proc.phase = "EXECUTION" /\ ~VerificationReady /\ ReadyWork # {} ->
                Choice("DISPATCH_WORK", {First(ReadyWork)})
           [] proc.phase = "VERIFICATION" /\ VerificationOutcome = "PASSED" ->
                Choice("ENTER_INTEGRATION", {})
           [] proc.phase = "VERIFICATION" /\ VerificationOutcome = "FAILED" ->
                Choice("REOPEN_WORK", {})
           [] proc.phase = "INTEGRATION" /\ VerificationOutcome = "PASSED" ->
                Choice("ASSEMBLE_INTEGRATION", {})
           [] OTHER -> Choice("WAIT", {})

-----------------------------------------------------------------------------
(* The scheduler and the runner *)

(* What process_once still knows of a wake-up is its lease: the rest is read *)
(* from the decision again.                                                  *)
Goto(w, pc) == runners' = [runners EXCEPT ![w] = [Idle EXCEPT !.pc = pc, !.n = runners[w].n,
                                                         !.token = runners[w].token]]

(* assert_fence_in_transaction.  The lease's end is compared with a clock    *)
(* read before the row lock is granted, so a holder may still pass after it. *)
Fenced(w) ==
    /\ ev[runners[w].n].wake = "leased"
    /\ ev[runners[w].n].attempt = runners[w].token

(* claim, in the order of available_at: the order of the events, whose       *)
(* appenders' clocks are taken as one.  A retry moves it into the future, so *)
(* later wake-ups may overtake a retried one.                                *)
WakeUpDue(n) == ev[n].wake = "pending" \/ (ev[n].wake = "leased" /\ ev[n].lapsed)

ClaimWakeUp(w, n) ==
    /\ runners[w].pc = "idle"
    /\ WakeUpDue(n) \/ ev[n].wake = "retry_wait"
    /\ \A m \in 1..(n - 1) : ~WakeUpDue(m)
    /\ Cardinality({m \in DOMAIN ev : ev[m].wake = "leased" /\ ~ev[m].lapsed}) < MaxLeases
    /\ ev' = [ev EXCEPT ![n].wake = "leased", ![n].attempt = @ + 1, ![n].lapsed = FALSE]
    /\ runners' = [runners EXCEPT ![w] = [Idle EXCEPT !.pc = "claimed", !.n = n,
                                                 !.token = ev[n].attempt + 1]]
    /\ UNCHANGED <<proc, task, run, started, ctl, accepted, faults, moves>>

(* _process_claimed for a wake-up without a decision: the process, the       *)
(* snapshot, which refuses if an event came in between, and decide.          *)
Snapshot(w) ==
    /\ runners[w].pc = "claimed" /\ ev[runners[w].n].dec = "none"
    /\ runners' = [runners EXCEPT ![w].pc = "record", ![w].action = Decide.action,
                        ![w].work = Decide.work, ![w].based = Len(ev)]
    /\ UNCHANGED <<proc, ev, task, run, started, ctl, accepted, faults, moves>>

(* _process_claimed for a wake-up that already has one. *)
Reload(w) ==
    /\ runners[w].pc = "claimed" /\ ev[runners[w].n].dec # "none"
    /\ Goto(w, CASE ev[runners[w].n].dec = "STALE" -> "stale"
                 [] ev[runners[w].n].dec = "APPLIED" -> "complete"
                 [] ev[runners[w].n].dec = "PENDING" ->
                      IF ev[runners[w].n].effect THEN "finish" ELSE "recheck")
    /\ UNCHANGED <<proc, ev, task, run, started, ctl, accepted, faults, moves>>

(* record_decision: stale if the project moved, else pending.                *)
Record(w) ==
    LET current == Len(ev) = runners[w].based IN
    /\ runners[w].pc = "record" /\ Fenced(w) /\ ev[runners[w].n].dec = "none"
    /\ ev' = [ev EXCEPT ![runners[w].n].dec = IF current THEN "PENDING" ELSE "STALE",
                        ![runners[w].n].action = runners[w].action,
                        ![runners[w].n].work = runners[w].work,
                        ![runners[w].n].based = runners[w].based]
    /\ Goto(w, IF current THEN "apply" ELSE "stale")
    /\ UNCHANGED <<proc, task, run, started, ctl, accepted, faults, moves>>

(* invalidate_unapplied_decision *)
Invalidate(w) ==
    LET current == Len(ev) = ev[runners[w].n].based IN
    /\ runners[w].pc = "recheck" /\ Fenced(w) /\ ev[runners[w].n].dec = "PENDING"
    /\ ev' = IF current THEN ev ELSE [ev EXCEPT ![runners[w].n].dec = "STALE"]
    /\ Goto(w, IF current THEN "apply" ELSE "stale")
    /\ UNCHANGED <<proc, task, run, started, ctl, accepted, faults, moves>>

(* _apply_decision for a decision that only waits. *)
ApplyNothing(w) ==
    /\ runners[w].pc = "apply" /\ ev[runners[w].n].action = "WAIT"
    /\ Goto(w, "finish")
    /\ UNCHANGED <<proc, ev, task, run, started, ctl, accepted, faults, moves>>

(* What the atomic effects check in their transaction: the fence, a pending  *)
(* decision, and that no event has come since its snapshot.                  *)
AtomicEffect(w, action) ==
    /\ runners[w].pc = "apply" /\ ev[runners[w].n].action = action
    /\ Fenced(w) /\ ev[runners[w].n].dec = "PENDING"
    /\ ev[runners[w].n].based = Len(ev)
    /\ Room
    /\ ev' = Emit([ev EXCEPT ![runners[w].n].effect = TRUE])
    /\ Goto(w, "finish")

(* TeamAgentDispatcher.dispatch: reservation, agent run, task and event.     *)
Dispatch(w, t) ==
    /\ AtomicEffect(w, "DISPATCH_WORK") /\ ev[runners[w].n].work = {t}
    /\ proc.phase = "EXECUTION" /\ Dispatchable(t) /\ PrerequisitesVerified(t)
    /\ run[t].state # "active" /\ ~OpenControl /\ BudgetLeft
    /\ IF proc.status = "READY" THEN Transition("work.dispatched")
       ELSE proc.status = "RUNNING" /\ UNCHANGED proc
    /\ task' = [task EXCEPT ![t] = [status |-> "in_progress", why |-> "none"]]
    /\ run' = [run EXCEPT ![t] = [NoRun EXCEPT !.attempt = run[t].attempt + 1,
                                               !.state = "active", !.settled = FALSE]]
    /\ started' = started + 1
    /\ UNCHANGED <<ctl, accepted, faults, moves>>

(* VerificationOrchestrationEffect *)
EnterIntegration(w) ==
    /\ AtomicEffect(w, "ENTER_INTEGRATION")
    /\ VerificationOutcome = "PASSED" /\ Transition("verification.passed")
    /\ UNCHANGED <<task, run, started, ctl, accepted, faults, moves>>

ReopenWork(w) ==
    /\ AtomicEffect(w, "REOPEN_WORK")
    /\ VerificationOutcome = "FAILED" /\ Transition("verification.failed")
    /\ UNCHANGED <<task, run, started, ctl, accepted, faults, moves>>

(* IntegrationService.execute: the bundle is published and a delivery waits, *)
(* or the tasks whose artifacts fail are to be changed.                      *)
Assemble(w, impacted) ==
    /\ AtomicEffect(w, "ASSEMBLE_INTEGRATION")
    /\ ~OpenControl /\ VerificationOutcome = "PASSED"
    /\ Transition(IF impacted = {} THEN "integration.passed" ELSE "integration.failed")
    /\ task' = [t \in Tasks |-> IF t \in impacted
                                THEN [status |-> "changes_requested", why |-> "integration"]
                                ELSE task[t]]
    /\ accepted' = IF impacted = {} THEN {} ELSE accepted
    /\ UNCHANGED <<run, started, ctl, faults, moves>>

(* _publish_effect without an effect adapter: the process is read again in a *)
(* transaction of its own ...                                                *)
ReadCurrent(w) ==
    /\ runners[w].pc = "apply" /\ ev[runners[w].n].action \in Published
    /\ runners' = [runners EXCEPT ![w].pc = "publish", ![w].version = proc.version]
    /\ UNCHANGED <<proc, ev, task, run, started, ctl, accepted, faults, moves>>

(* ... and apply_transition compares that version, not the decision's        *)
(* sequence.                                                                 *)
Publish(w) ==
    /\ runners[w].pc = "publish" /\ Fenced(w)
    /\ proc.version = runners[w].version
    /\ Room
    /\ Transition(IF ev[runners[w].n].action = "RECONCILE_RUNNING" THEN "work.dispatched"
                  ELSE "all_required_work_submitted")
    /\ ev' = Emit([ev EXCEPT ![runners[w].n].effect = TRUE])
    /\ Goto(w, "finish")
    /\ UNCHANGED <<task, run, started, ctl, accepted, faults, moves>>

(* finish_decision *)
FinishDecision(w) ==
    /\ runners[w].pc = "finish" /\ Fenced(w) /\ ev[runners[w].n].dec = "PENDING"
    /\ ev' = [ev EXCEPT ![runners[w].n].dec = "APPLIED"]
    /\ Goto(w, "complete")
    /\ UNCHANGED <<proc, task, run, started, ctl, accepted, faults, moves>>

(* _emit_stale, once *)
EmitStale(w) ==
    /\ runners[w].pc = "stale"
    /\ IF ev[runners[w].n].stale THEN UNCHANGED ev
       ELSE Fenced(w) /\ Room /\ ev' = Emit([ev EXCEPT ![runners[w].n].stale = TRUE])
    /\ Goto(w, "complete")
    /\ UNCHANGED <<proc, task, run, started, ctl, accepted, faults, moves>>

(* complete.  No wake-up leaves this state, so its decision is never read    *)
(* again and the model forgets it.                                           *)
Ended(status) == [NewEvent EXCEPT !.wake = status]

Complete(w) ==
    /\ runners[w].pc = "complete" /\ Fenced(w)
    /\ ev' = [ev EXCEPT ![runners[w].n] = Ended("completed")]
    /\ runners' = [runners EXCEPT ![w] = Idle]
    /\ UNCHANGED <<proc, task, run, started, ctl, accepted, faults, moves>>

Fault == faults < MaxFaults /\ faults' = faults + 1

(* Steps that raise whatever happens next: an effect whose decision the      *)
(* project has left behind, a transition from another version or state.      *)
Refused(w) ==
    \/ /\ runners[w].pc = "apply" /\ ev[runners[w].n].action \in Atomic
       /\ ev[runners[w].n].based # Len(ev)
    \/ /\ runners[w].pc = "publish"
       /\ \/ proc.version # runners[w].version
          \/ proc.phase # "EXECUTION"
          \/ proc.status # (IF ev[runners[w].n].action = "RECONCILE_RUNNING" THEN "READY"
                            ELSE "RUNNING")

(* An exception (a refusal, a database error, the reply to a commit that got *)
(* lost) puts the wake-up back, or ends it when its retries are used up.     *)
RetryWakeUp(w) ==
    LET n == runners[w].n IN
    /\ runners[w].pc # "idle" /\ Fenced(w)
    /\ IF Refused(w) THEN UNCHANGED faults ELSE Fault
    /\ ev' = [ev EXCEPT ![n] = IF ev[n].attempt >= RetryBudget + 1 THEN Ended("failed")
                               ELSE [@ EXCEPT !.wake = "retry_wait", !.lapsed = FALSE]]
    /\ runners' = [runners EXCEPT ![w] = Idle]
    /\ UNCHANGED <<proc, task, run, started, ctl, accepted, moves>>

(* The worker's process dies; or its lease is over, retry raises as well and *)
(* worker_loop goes on with another wake-up.                                 *)
RunnerVanishes(w) ==
    /\ runners[w].pc # "idle"
    /\ IF Fenced(w) /\ ~ev[runners[w].n].lapsed THEN Fault ELSE UNCHANGED faults
    /\ runners' = [runners EXCEPT ![w] = Idle]
    /\ UNCHANGED <<proc, ev, task, run, started, ctl, accepted, moves>>

(* The lease of a wake-up ends, which no worker extends: for want of a       *)
(* holder, or because the holder is slow.                                    *)
Held(n) == \E w \in Runners : runners[w].n = n /\ Fenced(w)

Lapse(n) ==
    /\ ev[n].wake = "leased" /\ ~ev[n].lapsed
    /\ IF Held(n) THEN Fault ELSE UNCHANGED faults
    /\ ev' = [ev EXCEPT ![n].lapsed = TRUE]
    /\ UNCHANGED <<proc, task, run, started, ctl, accepted, runners, moves>>

-----------------------------------------------------------------------------
(* What happens to the project meanwhile.  Each action is a transaction that *)
(* locks the process; a run's settlement, projection and verification are    *)
(* callbacks of their own, replayed until done, in any order.                *)

(* The agent run's own life cycle is AgentRuns. *)
RunEnds(t, outcome) ==
    /\ run[t].state = "active"
    /\ run' = [run EXCEPT ![t].state = outcome]
    /\ UNCHANGED <<proc, ev, task, started, ctl, accepted, runners, faults, moves>>

RunEnded(t) == run[t].state \in {"completed", "failed"}

(* Mutant of Settle: the budget is released without an event. *)
SettleSilently(t) ==
    /\ RunEnded(t) /\ ~run[t].settled
    /\ run' = [run EXCEPT ![t].settled = TRUE]
    /\ UNCHANGED <<proc, ev, task, started, ctl, accepted, runners, faults, moves>>

(* TeamTaskRunAccounting.settle: budget and capacity are released. *)
Settle(t) ==
    /\ RunEnded(t) /\ ~run[t].settled
    /\ Slack
    /\ run' = [run EXCEPT ![t].settled = TRUE]
    /\ ev' = Emit(ev)
    /\ UNCHANGED <<proc, task, started, ctl, accepted, runners, faults, moves>>

(* TeamTaskResultProjection.project: the receipt, and the task if it is      *)
(* still the run's.                                                          *)
Project(t, valid) ==
    LET current == task[t].status = "in_progress" /\ ~ProcessTerminal
        submitted == current /\ run[t].state = "completed" /\ valid
    IN
    /\ RunEnded(t) /\ run[t].receipt = "none"
    /\ run' = [run EXCEPT ![t].receipt = IF submitted THEN "submitted" ELSE "refused"]
    /\ IF current
       THEN /\ Slack /\ ev' = Emit(ev)
            /\ task' = [task EXCEPT ![t] =
                  IF submitted THEN [status |-> "submitted", why |-> "run"]
                  ELSE [status |-> "changes_requested", why |-> "output"]]
       ELSE UNCHANGED <<ev, task>>
    /\ UNCHANGED <<proc, started, ctl, accepted, runners, faults, moves>>

(* verify_run on a submitted receipt, once its checks have an outcome; only  *)
(* the task the run itself submitted is changed.                             *)
Verify(t, outcome) ==
    LET current == task[t] = [status |-> "submitted", why |-> "run"] /\ ~ProcessTerminal IN
    /\ run[t].receipt = "submitted" /\ run[t].ver = "none"
    /\ run' = [run EXCEPT ![t].ver = IF current THEN outcome ELSE "STALE"]
    /\ IF current
       THEN /\ Slack /\ ev' = Emit(ev)
            /\ task' = [task EXCEPT ![t] =
                  [status |-> IF outcome = "PASS" THEN "verified" ELSE "changes_requested",
                   why |-> outcome]]
       ELSE UNCHANGED <<ev, task>>
    /\ UNCHANGED <<proc, started, ctl, accepted, runners, faults, moves>>

(* _transition and submit_task: a person changes the task and the shadow     *)
(* appends the fact.  Structured tasks cannot be verified by hand.           *)
Move == moves < MaxMoves /\ moves' = moves + 1

ByHand(t, from, to) ==
    /\ Move
    /\ task[t].status \in from
    /\ Slack
    /\ task' = [task EXCEPT ![t] = [status |-> to, why |-> "none"]]
    /\ ev' = Emit(ev)
    /\ UNCHANGED <<proc, run, started, ctl, accepted, runners, faults>>

StartTask(t) == ByHand(t, {"accepted", "changes_requested"}, "in_progress")
SubmitTask(t) == ByHand(t, {"in_progress"}, "submitted")
RequestChanges(t) == ByHand(t, {"submitted"}, "changes_requested")

(* enter_human_wait *)
WaitOf(c) == IF c = "input" THEN "HUMAN_INPUT" ELSE "HUMAN_APPROVAL"

(* Mutant of HumanWait: the reason is not stored. *)
HumanWaitNoReason(c) ==
    IF proc.status = "WAITING" THEN proc
    ELSE [proc EXCEPT !.status = "WAITING", !.version = @ + 1]

HumanWait(c) ==
    IF proc.status = "WAITING" /\ proc.wait \in {"HUMAN_APPROVAL", WaitOf(c)}
    THEN proc
    ELSE [proc EXCEPT !.status = "WAITING", !.wait = WaitOf(c), !.version = @ + 1]

(* Mutant of Open: a terminal process is not refused. *)
OpenAnyway(c) ==
    /\ Move
    /\ ctl[c] = "none"
    /\ Slack \/ ProcessTerminal
    /\ ctl' = [ctl EXCEPT ![c] = "OPEN"]
    /\ proc' = HumanWait(c)
    /\ ev' = Emit(ev)
    /\ UNCHANGED <<task, run, started, accepted, runners, faults>>

(* create_input_request, create_gate; bound: one of each. *)
Open(c) ==
    /\ Move
    /\ ctl[c] = "none" /\ ~ProcessTerminal
    /\ Slack
    /\ ctl' = [ctl EXCEPT ![c] = "OPEN"]
    /\ proc' = HumanWait(c)
    /\ ev' = Emit(ev)
    /\ UNCHANGED <<task, run, started, accepted, runners, faults>>

(* _resolve_input, decide_gate: a fact, the process stays as it is. *)
Resolve(c) ==
    /\ ctl[c] = "OPEN"
    /\ Slack
    /\ ctl' = [ctl EXCEPT ![c] = "resolved"]
    /\ ev' = Emit(ev)
    /\ UNCHANGED <<proc, task, run, started, accepted, runners, faults, moves>>

(* DeliveryService.decide *)
AwaitsAcceptance == proc.phase = "DELIVERY" /\ proc.status = "READY"

Accept(p) ==
    LET final == Approvers \subseteq accepted \cup {p} IN
    /\ AwaitsAcceptance /\ p \notin accepted
    /\ VerificationOutcome = "PASSED"
    /\ accepted' = accepted \cup {p}
    /\ Quiet
    /\ IF final
       THEN /\ ~OpenControl /\ Transition("delivery.accepted")
            /\ ev' = Emit(Emit(Emit(ev)))
       ELSE ev' = Emit(ev) /\ UNCHANGED proc
    /\ UNCHANGED <<task, run, started, ctl, runners, faults, moves>>

Reject(p) ==
    /\ AwaitsAcceptance /\ p \notin accepted
    /\ Slack
    /\ task' = [t \in Tasks |-> IF task[t].status = "verified"
                                THEN [status |-> "changes_requested", why |-> "delivery"]
                                ELSE task[t]]
    /\ Transition("delivery.rejected")
    /\ ev' = Emit(ev)
    /\ UNCHANGED <<run, started, ctl, accepted, runners, faults, moves>>

-----------------------------------------------------------------------------
RunnerStep(w) ==
    \/ \E n \in DOMAIN ev : ClaimWakeUp(w, n)
    \/ Snapshot(w) \/ Reload(w) \/ Record(w) \/ Invalidate(w)
    \/ ApplyNothing(w) \/ (\E t \in Tasks : Dispatch(w, t))
    \/ EnterIntegration(w) \/ ReopenWork(w)
    \/ \E impacted \in SUBSET Tasks : Assemble(w, impacted)
    \/ ReadCurrent(w) \/ Publish(w) \/ FinishDecision(w) \/ EmitStale(w) \/ Complete(w)
    \/ RetryWakeUp(w) \/ RunnerVanishes(w)

Callback(t) ==
    \/ \E outcome \in {"completed", "failed"} : RunEnds(t, outcome)
    \/ Settle(t)
    \/ \E valid \in BOOLEAN : Project(t, valid)
    \/ \E outcome \in {"PASS", "FAIL"} : Verify(t, outcome)

People ==
    \/ \E t \in Tasks : StartTask(t) \/ SubmitTask(t) \/ RequestChanges(t)
    \/ \E c \in Controls : Open(c) \/ Resolve(c)
    \/ \E p \in Approvers : Accept(p) \/ Reject(p)

ProcessNext ==
    \/ \E w \in Runners : RunnerStep(w)
    \/ \E n \in DOMAIN ev : Lapse(n)
    \/ \E t \in Tasks : Callback(t)
    \/ People

ProcessSpec == ProcessInit /\ [][ProcessNext]_processVars

-----------------------------------------------------------------------------
(* Properties *)

(* Nothing is integrated, offered for acceptance or completed unless every   *)
(* task carries the PASS of its latest run's own verification: neither a     *)
(* person's submission nor an earlier run's evidence slips in, whatever came *)
(* between the runner's decision and its effect (project_evidence.py,        *)
(* integration.execute, delivery.decide).                                    *)
DeliveredIsVerified ==
    proc.phase \in {"INTEGRATION", "DELIVERY", "TERMINAL"} =>
        \A t \in Tasks : /\ task[t] = [status |-> "verified", why |-> "PASS"]
                         /\ run[t].receipt = "submitted" /\ run[t].ver = "PASS"

(* Once the wake-up of the last event is completed, the orchestrator, asked  *)
(* again, would do nothing: no fact it acts on can appear without a wake-up, *)
(* and no decision is lost between a crash, a retry and a stale snapshot     *)
(* (runner._process_claimed, repository.append_event).                       *)
NothingLeftToDo == ev[Len(ev)].wake = "completed" => Decide.action = "WAIT"

(* A task gets a new run only when its last one has ended, its result has    *)
(* been projected and its budget and capacity have been released: no order   *)
(* of settlement, projection and rework lets two runs of a task be paid for  *)
(* at once (TeamAgentDispatcher.dispatch).                                   *)
RunsDoNotOverlap ==
    [][\A t \in Tasks :
          run[t].attempt > 0 /\ run'[t].attempt # run[t].attempt =>
              RunEnded(t) /\ run[t].settled /\ run[t].receipt # "none"]_processVars

(* A completed project stays as it was accepted: its process and its tasks   *)
(* no longer change, whichever callbacks, wake-ups and requests still arrive *)
(* (enter_human_wait, project, verify_run).                                  *)
CompletedStays ==
    [][ProcessTerminal => UNCHANGED <<proc, task, accepted>>]_processVars

(* The project stays consistent while its runs, callbacks and wake-ups      *)
(* interleave: no wake-up is completed too early, no two runs of a task     *)
(* overlap, and what was accepted stays.                                    *)
ProcessIsConsistent == [](ProcessTypeOK /\ NothingLeftToDo) /\ RunsDoNotOverlap /\ CompletedStays
=============================================================================
