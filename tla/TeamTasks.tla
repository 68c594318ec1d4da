------------------------------ MODULE TeamTasks ------------------------------
(***************************************************************************)
(* A task one team proposes to another (product/service.py,                *)
(* TeamCollaborationService; product/notifications.py): the hand-shake     *)
(* between the teams, its execution contract, its negotiated schedule and  *)
(* the reminders derived from its deadline for an account of the target    *)
(* team.                                                                   *)
(*                                                                         *)
(* Every call locks the row of the task, so a call is one step.  Reading   *)
(* the notifications is not: the tasks are read first and each reminder is *)
(* refreshed after them, under the lock of its task.  A deadline stands    *)
(* for the pair of deadline and priority a reminder shows.                 *)
(***************************************************************************)
EXTENDS Naturals

CONSTANTS
    Proposals,      \* ids of schedule proposals
    MaxDue,         \* deadlines are 1..MaxDue; 0 is no deadline
    Window,         \* the due-soon window of the account
    TaskVersionLimit,   \* bound on the schedule version
    ContractLimit,  \* bound on the contract version
    Horizon         \* bound on the clock

ASSUME TeamTaskParameters ==
    {MaxDue, Window, TaskVersionLimit, ContractLimit, Horizon} \subseteq Nat

VARIABLES
    task,       \* team_tasks
    proposal,   \* task_schedule_proposals
    reminder,   \* notifications of the task with activity_sequence 0
    muted,      \* notification_preferences: the reminder categories turned off
    snapshot,   \* the task row a reader of the notifications has
    clock

teamTaskVars == <<task, proposal, reminder, muted, snapshot, clock>>

-----------------------------------------------------------------------------
(* The tables *)

Parties == {"source", "target"}
Other(party) == CHOOSE p \in Parties : p # party

TaskStatus == {"proposed", "accepted", "rejected", "in_progress", "submitted",
               "changes_requested", "verified"}

TaskTerminal == {"verified", "rejected"}

Due == 0 .. MaxDue

(* contract and accepted: source_contract_version and                       *)
(* accepted_contract_version, 0 for null.                                   *)
TeamTaskRow ==
    [status : TaskStatus, assigned : BOOLEAN, delivered : BOOLEAN, due : Due,
     version : Nat, contract : Nat, accepted : Nat]

(* old: the deadline the proposal would replace; base: the schedule version *)
(* it was made against.                                                     *)
ProposalRow ==
    [status : {"none", "pending", "accepted", "rejected", "superseded"},
     by : Parties, old : Due, due : Due, base : Nat]

ReminderCategories == {"due_soon", "overdue"}

(* restored: taken out of the archive and not refreshed since. *)
ReminderRow == [state : {"none", "unread", "read", "archived"}, due : Due, restored : BOOLEAN]

NoProposal == [status |-> "none", by |-> "source", old |-> 0, due |-> 0, base |-> 0]
NoReminder == [state |-> "none", due |-> 0, restored |-> FALSE]
NoSnapshot == [status |-> "none", due |-> 0, version |-> 0]

-----------------------------------------------------------------------------
(* Reminders *)

(* compute_team_task_schedule *)
Overdue(due) == due # 0 /\ clock > due
DueSoon(due) == due # 0 /\ clock <= due /\ due - clock <= Window

(* The categories the account wants to see. *)
Wanted(row) ==
    {c \in ReminderCategories \ muted :
        /\ row.status \notin TaskTerminal
        /\ IF c = "overdue" THEN Overdue(row.due) ELSE DueSoon(row.due)}

(* _delete_reminder spares the archive. *)
Deleted(r) == IF r.state = "archived" THEN r ELSE NoReminder

(* _upsert_reminder: a new deadline makes the reminder unread again, unless *)
(* it was archived.                                                         *)
Upserted(r, due) ==
    IF r.state = "none" THEN [state |-> "unread", due |-> due, restored |-> FALSE]
    ELSE IF r.due = due THEN [r EXCEPT !.restored = FALSE]
    ELSE [state |-> IF r.state = "archived" THEN "archived" ELSE "unread",
          due |-> due, restored |-> FALSE]

(* refresh_task_reminders, called in the transaction that changes the task. *)
Refreshed(row) ==
    [c \in ReminderCategories |->
        IF c \in Wanted(row) THEN Upserted(reminder[c], row.due) ELSE Deleted(reminder[c])]

TaskInit ==
    /\ task = [status |-> "proposed", assigned |-> FALSE, delivered |-> FALSE, due |-> 0,
               version |-> 1, contract |-> 0, accepted |-> 0]
    /\ proposal = [p \in Proposals |-> NoProposal]
    /\ reminder = [c \in ReminderCategories |-> NoReminder]
    /\ muted = {}
    /\ snapshot = NoSnapshot
    /\ clock = 0

-----------------------------------------------------------------------------
(* The hand-shake *)

(* _transition *)
TaskTransition(from, to) ==
    /\ task.status \in from
    /\ task' = [task EXCEPT !.status = to]
    /\ UNCHANGED <<proposal, muted, snapshot, clock>>

(* The target answers the contract version it names. *)
RespondTask(accept) ==
    /\ task.status = "proposed"
    /\ task' = [task EXCEPT !.status = IF accept THEN "accepted" ELSE "rejected",
                            !.accepted = IF accept THEN task.contract ELSE 0]
    /\ UNCHANGED <<proposal, reminder, muted, snapshot, clock>>

AssignInternal ==
    /\ task' = [task EXCEPT !.assigned = TRUE]
    /\ UNCHANGED <<proposal, reminder, muted, snapshot, clock>>

StartTask ==
    /\ task.assigned
    /\ TaskTransition({"accepted", "changes_requested"}, "in_progress")
    /\ UNCHANGED reminder

SubmitTask ==
    /\ task.status = "in_progress"
    /\ task' = [task EXCEPT !.status = "submitted", !.delivered = TRUE]
    /\ UNCHANGED <<proposal, reminder, muted, snapshot, clock>>

(* A structured task is not verified by hand.  Only a verified task         *)
(* refreshes its reminders.                                                 *)
ReviewTask(accept) ==
    /\ accept => task.contract = 0
    /\ TaskTransition({"submitted"}, IF accept THEN "verified" ELSE "changes_requested")
    /\ reminder' = IF accept /\ task.due # 0 THEN Refreshed(task') ELSE reminder

(* The verification of a structured task (verification/service.py). *)
VerifyTask(pass) ==
    /\ task.contract # 0
    /\ TaskTransition({"submitted"}, IF pass THEN "verified" ELSE "changes_requested")
    /\ reminder' = IF pass /\ task.due # 0 THEN Refreshed(task') ELSE reminder

-----------------------------------------------------------------------------
(* The contract *)

(* Only a first contract may reach a task that was accepted without one. *)
LateInitialContract ==
    /\ task.status = "accepted" /\ task.contract = 0 /\ task.accepted = 0
    /\ ~task.assigned /\ ~task.delivered

MayRevise == task.status \in {"proposed", "rejected"} \/ LateInitialContract

(* The first contract of an accepted task does not go back to the target. *)
ProposeContractQuietly ==
    /\ MayRevise /\ task.contract < ContractLimit
    /\ task' = [task EXCEPT !.contract = @ + 1]
    /\ UNCHANGED <<proposal, reminder, muted, snapshot, clock>>

(* Every contract goes back to the target for its confirmation. *)
ProposeContract ==
    /\ MayRevise /\ task.contract < ContractLimit
    /\ task' = [task EXCEPT !.contract = @ + 1, !.accepted = 0, !.status = "proposed"]
    /\ UNCHANGED <<proposal, reminder, muted, snapshot, clock>>

-----------------------------------------------------------------------------
(* The schedule *)

Rescheduled(due) == [task EXCEPT !.due = due, !.version = @ + 1]

(* The source edits the schedule of a task that is not accepted yet. *)
EditSchedule(due) ==
    /\ task.status = "proposed" /\ due # task.due /\ task.version < TaskVersionLimit
    /\ task' = Rescheduled(due)
    /\ reminder' = Refreshed(task')
    /\ UNCHANGED <<proposal, muted, snapshot, clock>>

PendingProposals == {p \in Proposals : proposal[p].status = "pending"}

(* The same proposal, already waiting. *)
Duplicate(by, due) ==
    \E p \in PendingProposals : proposal[p].by = by /\ proposal[p].due = due

(* Anything else is proposed to the other team; a new proposal supersedes   *)
(* the one that is waiting.                                                 *)
ProposeSchedule(by, due, p) ==
    /\ task.status \notin TaskTerminal /\ due # task.due
    /\ ~(task.status = "proposed" /\ by = "source")
    /\ ~Duplicate(by, due) /\ proposal[p].status = "none"
    /\ proposal' = [q \in Proposals |->
          IF q = p THEN [status |-> "pending", by |-> by, old |-> task.due, due |-> due,
                         base |-> task.version]
          ELSE IF q \in PendingProposals THEN [proposal[q] EXCEPT !.status = "superseded"]
          ELSE proposal[q]]
    /\ UNCHANGED <<task, reminder, muted, snapshot, clock>>

(* A proposal is accepted as long as it is pending. *)
StillPending(p) == TRUE

(* The schedule the proposal was made against is the one in force. *)
StillCurrent(p) == proposal[p].base = task.version

DecideProposal(p, by, accept) ==
    /\ proposal[p].status = "pending" /\ by = Other(proposal[p].by)
    /\ task.status \notin TaskTerminal
    /\ accept => StillCurrent(p) /\ task.version < TaskVersionLimit
    /\ proposal' = [proposal EXCEPT ![p].status = IF accept THEN "accepted" ELSE "rejected"]
    /\ task' = IF accept THEN Rescheduled(proposal[p].due) ELSE task
    /\ reminder' = IF accept THEN Refreshed(task') ELSE reminder
    /\ UNCHANGED <<muted, snapshot, clock>>

-----------------------------------------------------------------------------
(* The notifications of the account *)

(* list_notifications reads the open tasks of the team that have a deadline *)
ReadOpenTask ==
    /\ snapshot = NoSnapshot /\ task.due # 0 /\ task.status \notin TaskTerminal
    /\ snapshot' = [status |-> task.status, due |-> task.due, version |-> task.version]
    /\ UNCHANGED <<task, proposal, reminder, muted, clock>>

(* The reminders are refreshed from the row that was read. *)
SnapshotTrusted == TRUE

(* and refreshes their reminders, unless the task has changed meanwhile. *)
SnapshotCurrent == snapshot.version = task.version /\ snapshot.status = task.status

RefreshOnRead ==
    /\ snapshot # NoSnapshot
    /\ reminder' = IF SnapshotCurrent THEN Refreshed(snapshot) ELSE reminder
    /\ snapshot' = NoSnapshot
    /\ UNCHANGED <<task, proposal, muted, clock>>

MarkRead(c) ==
    /\ reminder[c].state = "unread"
    /\ reminder' = [reminder EXCEPT ![c].state = "read"]
    /\ UNCHANGED <<task, proposal, muted, snapshot, clock>>

Archive(c) ==
    /\ reminder[c].state \in {"unread", "read"}
    /\ reminder' = [reminder EXCEPT ![c].state = "archived"]
    /\ UNCHANGED <<task, proposal, muted, snapshot, clock>>

Restore(c) ==
    /\ reminder[c].state = "archived"
    /\ reminder' = [reminder EXCEPT ![c].state = "read", ![c].restored = TRUE]
    /\ UNCHANGED <<task, proposal, muted, snapshot, clock>>

PutPreferences(off) ==
    /\ muted' = off
    /\ UNCHANGED <<task, proposal, reminder, snapshot, clock>>

Tick ==
    /\ clock < Horizon
    /\ clock' = clock + 1
    /\ UNCHANGED <<task, proposal, reminder, muted, snapshot>>

-----------------------------------------------------------------------------
(* The routes of control_plane/product_routes.py *)

TaskRoutes ==
    \/ \E accept \in BOOLEAN : RespondTask(accept) \/ ReviewTask(accept) \/ VerifyTask(accept)
    \/ AssignInternal \/ StartTask \/ SubmitTask \/ ProposeContract

ScheduleRoutes ==
    \/ \E due \in Due : EditSchedule(due)
    \/ \E by \in Parties, due \in Due, p \in Proposals : ProposeSchedule(by, due, p)
    \/ \E by \in Parties, p \in Proposals, accept \in BOOLEAN : DecideProposal(p, by, accept)

NotificationRoutes ==
    \/ ReadOpenTask \/ RefreshOnRead
    \/ \E c \in ReminderCategories : MarkRead(c) \/ Archive(c) \/ Restore(c)
    \/ \E off \in SUBSET {"due_soon"} : PutPreferences(off)

TaskNext == TaskRoutes \/ ScheduleRoutes \/ NotificationRoutes \/ Tick

TaskSpec == TaskInit /\ [][TaskNext]_teamTaskVars

-----------------------------------------------------------------------------
(* Properties *)

(* A reminder in the inbox of the account shows the deadline in force, and  *)
(* a verified task has none: a reader delayed between reading the task and  *)
(* refreshing its reminders undoes no later change of the schedule          *)
(* (_refresh_task_reminder_for_account).  A reminder taken out of the       *)
(* archive is as old as the archive until the next refresh.                 *)
ReminderIsCurrent ==
    \A c \in ReminderCategories :
        reminder[c].state \in {"unread", "read"} /\ ~reminder[c].restored
            => task.status # "verified" /\ reminder[c].due = task.due /\ task.due # 0

(* A proposal that is accepted replaces the very deadline its team saw when *)
(* it was made, however the schedule was edited in between                  *)
(* (decide_schedule_proposal).                                              *)
AcceptedAgainstItsBase ==
    [][\A p \in Proposals :
          proposal[p].status = "pending" /\ proposal'[p].status = "accepted"
              => proposal[p].old = task.due /\ task'.due = proposal[p].due]_teamTaskVars

(* Work under way is bound to the contract version its team accepted        *)
(* (propose: "never silently amend accepted work").                         *)
AcceptedContractHolds ==
    task.status \notin {"proposed", "rejected"} => task.accepted = task.contract

(* A task, its reminders and the time.                                      *)
TaskTypeOK ==
    /\ task \in TeamTaskRow
    /\ reminder \in [ReminderCategories -> ReminderRow]
    /\ muted \subseteq ReminderCategories
    /\ clock \in Nat

(* The terms of a task hold through delayed readers, edits and proposals:   *)
(* its reminders, its contract and its deadline.                            *)
TaskTermsHold == [](TaskTypeOK /\ ReminderIsCurrent /\ AcceptedContractHolds) /\ AcceptedAgainstItsBase
=============================================================================
