----------------------------- MODULE Governance -----------------------------
(***************************************************************************)
(* The governance board of a collaboration program                         *)
(* (collaboration/governance.py, service.py, repository.py): members agree *)
(* on a plan, discuss it, approve it, and carry out assignments.           *)
(*                                                                         *)
(* Every command is one transaction that claims its idempotency key, loads *)
(* the board without a lock, runs the operation on the loaded copy, and    *)
(* writes the whole copy back if the program row, now locked, still has    *)
(* the version that was loaded.  So a command is two steps here: Load      *)
(* computes the board the operation leads to, Save writes it or fails.     *)
(***************************************************************************)
EXTENDS Integers, FiniteSets

CONSTANTS
    Principals,    \* people, some of whom become members
    Lead,          \* who creates the program
    Tenants,       \* teams
    TenantOf,      \* TenantOf[p] is the team of p
    Items,         \* discussion items
    Assignments,   \* assignment ids
    Commands,      \* commands that may be under way at once, each under its key
    NoOne,         \* no principal
    BoardLimit     \* bound on the versions of a board

ASSUME BoardParameters ==
    /\ Lead \in Principals /\ NoOne \notin Principals
    /\ TenantOf \in [Principals -> Tenants]
    /\ BoardLimit \in Nat

VARIABLES
    board,     \* the tables of the program: what _persist_state writes
    command    \* governance_commands and the transaction under each key

boardVars == <<board, command>>

-----------------------------------------------------------------------------
(* The state *)

Role == {"none", "lead", "contributor", "reviewer", "observer"}

Plan ==
    [state : {"absent", "draft", "discussion", "approved"},
     required : SUBSET Principals, approvals : SUBSET Principals,
     visible : SUBSET Tenants]

Item == [state : {"absent", "open", "resolved"}, blocking : BOOLEAN,
         author : Principals \cup {NoOne}]

Assignment ==
    [state : {"absent", "proposed", "accepted", "declined", "in_progress",
              "submitted", "verified"},
     assignee : Principals \cup {NoOne}, deps : SUBSET Assignments,
     visible : SUBSET Tenants]

NoPlan == [state |-> "absent", required |-> {}, approvals |-> {}, visible |-> {}]

NoItem == [state |-> "absent", blocking |-> FALSE, author |-> NoOne]

NoAssignment == [state |-> "absent", assignee |-> NoOne, deps |-> {}, visible |-> {}]

(* version 0: the program does not exist.                                   *)
NoBoard ==
    [version |-> 0, role |-> [p \in Principals |-> "none"], plan |-> NoPlan,
     items |-> [i \in Items |-> NoItem],
     asg |-> [a \in Assignments |-> NoAssignment]]

(* A claimed key with its transaction open carries the loaded version and   *)
(* the board to be written.                                                 *)
NoCommand == [state |-> "unused", version |-> 0, next |-> NoBoard]

BoardInit ==
    /\ board = NoBoard
    /\ command = [k \in Commands |-> NoCommand]

-----------------------------------------------------------------------------
(* The operations of a board: each is the set of boards it can lead to,     *)
(* empty where the operation raises.                                        *)

Members(b) == {p \in Principals : b.role[p] # "none"}

Participants(b) == {TenantOf[p] : p \in Members(b)}

(* _validate_visibility                                                     *)
ValidVisibility(b, visible, required) ==
    /\ visible # {} /\ visible \subseteq Participants(b)
    /\ {TenantOf[p] : p \in required} \subseteq visible
    /\ TenantOf[Lead] \in visible

SeesPlan(b, p) == p \in Members(b) /\ TenantOf[p] \in b.plan.visible

SeesAssignment(b, p, a) == p \in Members(b) /\ TenantOf[p] \in b.asg[a].visible

(* add_member: in any role, that of a further lead and of an observer too.  *)
AddMember(b, actor) ==
    {[b EXCEPT !.role[x[1]] = x[2]] :
        x \in {y \in Principals \X (Role \ {"none"}) :
                 b.role[actor] = "lead" /\ b.role[y[1]] = "none"}}

CreatePlan(b, actor) ==
    {[b EXCEPT !.plan = [state |-> "draft", required |-> x[1], approvals |-> {},
                         visible |-> x[2]]] :
        x \in {y \in (SUBSET Members(b)) \X (SUBSET Tenants) :
                 /\ b.role[actor] = "lead" /\ b.plan.state = "absent"
                 /\ actor \in y[1]
                 /\ ValidVisibility(b, y[2], y[1])}}

OpenDiscussion(b, actor) ==
    {c \in {[b EXCEPT !.plan.state = "discussion"]} :
        b.role[actor] = "lead" /\ SeesPlan(b, actor) /\ b.plan.state = "draft"}

(* add_discussion_item: any member but an observer, while in discussion.    *)
AddDiscussionItem(b, actor) ==
    {[b EXCEPT !.items[x[1]] = [state |-> "open", blocking |-> x[2], author |-> actor]] :
        x \in {y \in Items \X BOOLEAN :
                 /\ b.role[actor] # "observer" /\ SeesPlan(b, actor)
                 /\ b.plan.state = "discussion"
                 /\ b.items[y[1]].state = "absent"}}

(* resolve_discussion_item: the author or a reviewer, whatever the plan's   *)
(* state and however often.                                                 *)
ResolveDiscussionItem(b, actor) ==
    {[b EXCEPT !.items[i].state = "resolved"] :
        i \in {j \in Items : /\ b.role[actor] # "observer" /\ SeesPlan(b, actor)
                             /\ b.items[j].state # "absent"
                             /\ b.items[j].author = actor \/ b.role[actor] = "reviewer"}}

(* Mutant of Unresolved: only the actor's own items hold up an approval.    *)
UnresolvedOwn(b, actor) ==
    {i \in Items : b.items[i].state = "open" /\ b.items[i].blocking
                   /\ b.items[i].author = actor}

Unresolved(b, actor) ==
    {i \in Items : b.items[i].state = "open" /\ b.items[i].blocking}

(* approve_plan: the approval that completes the required set approves the  *)
(* plan.                                                                    *)
ApprovePlan(b, actor) ==
    LET approvals == b.plan.approvals \cup {actor}
    IN  {c \in {[b EXCEPT !.plan.approvals = approvals,
                          !.plan.state = IF b.plan.required \subseteq approvals
                                         THEN "approved" ELSE @]} :
            /\ SeesPlan(b, actor) /\ b.plan.state = "discussion"
            /\ actor \in b.plan.required
            /\ Unresolved(b, actor) = {}}

(* propose_assignment: from the approved plan, to a member who sees the     *)
(* work it depends on.                                                      *)
ProposeAssignment(b, actor) ==
    {[b EXCEPT !.asg[x[1]] =
         [state |-> "proposed", assignee |-> x[2], deps |-> x[3], visible |-> x[4]]] :
       x \in {y \in Assignments \X Principals \X (SUBSET Assignments) \X (SUBSET Tenants) :
                /\ b.role[actor] = "lead" /\ b.plan.state = "approved"
                /\ b.role[y[2]] \in {"contributor", "lead"}
                /\ b.asg[y[1]].state = "absent"
                /\ \A d \in y[3] : /\ b.asg[d].state # "absent"
                                   /\ TenantOf[y[2]] \in b.asg[d].visible
                /\ ValidVisibility(b, y[4], {actor, y[2]})
                /\ y[4] \subseteq b.plan.visible}}

RespondToAssignment(b, actor) ==
    {[b EXCEPT !.asg[x[1]].state = x[2]] :
        x \in {y \in Assignments \X {"accepted", "declined"} :
                 /\ SeesAssignment(b, actor, y[1]) /\ b.asg[y[1]].assignee = actor
                 /\ b.asg[y[1]].state = "proposed"}}

StartAssignment(b, actor) ==
    {[b EXCEPT !.asg[a].state = "in_progress"] :
        a \in {x \in Assignments :
                 /\ SeesAssignment(b, actor, x) /\ b.asg[x].assignee = actor
                 /\ b.asg[x].state = "accepted"
                 /\ \A d \in b.asg[x].deps : b.asg[d].state = "verified"}}

SubmitAssignment(b, actor) ==
    {[b EXCEPT !.asg[a].state = "submitted"] :
        a \in {x \in Assignments :
                 /\ SeesAssignment(b, actor, x) /\ b.asg[x].assignee = actor
                 /\ b.asg[x].state = "in_progress"}}

CanReview(b, actor, a) ==
    /\ b.role[actor] \in {"lead", "reviewer"} /\ SeesAssignment(b, actor, a)
    /\ b.asg[a].state = "submitted"

RequestChanges(b, actor) ==
    {[b EXCEPT !.asg[a].state = "in_progress"] :
        a \in {x \in Assignments : CanReview(b, actor, x)}}

(* review_assignment(accept) where the change-impact guard has let a pass.  *)
VerifyAssignment(b, actor, a) ==
    {c \in {[b EXCEPT !.asg[a].state = "verified"]} : CanReview(b, actor, a)}

-----------------------------------------------------------------------------
(* Commands *)

(* claim_command_in_transaction: a key whose transaction is open holds up   *)
(* the same key; a completed one only answers with its stored result, so    *)
(* its place is free for the next command under a key of its own.           *)
Claimable(k) == command[k].state = "unused"

Load(k, next) ==
    /\ Claimable(k)
    /\ board.version < BoardLimit
    /\ command' = [command EXCEPT ![k] =
                     [state |-> "open", version |-> board.version, next |-> next]]
    /\ UNCHANGED board

(* create_program inserts the board with its creator as lead; a program     *)
(* that exists makes the insert fail.                                       *)
CreateProgram(k) ==
    /\ Claimable(k) /\ board.version = 0
    /\ board' = [NoBoard EXCEPT !.version = 1, !.role[Lead] = "lead"]
    /\ UNCHANGED command

(* _execute up to the save: the actor is a member, the operation runs on    *)
(* the loaded copy.                                                         *)
Execute(k, actor, boards) ==
    /\ actor \in Members(board)
    /\ \E next \in boards : Load(k, next)

AddMemberCommand(k, actor) == Execute(k, actor, AddMember(board, actor))

CreatePlanCommand(k, actor) == Execute(k, actor, CreatePlan(board, actor))

OpenDiscussionCommand(k, actor) == Execute(k, actor, OpenDiscussion(board, actor))

AddItemCommand(k, actor) == Execute(k, actor, AddDiscussionItem(board, actor))

ResolveItemCommand(k, actor) == Execute(k, actor, ResolveDiscussionItem(board, actor))

ApprovePlanCommand(k, actor) == Execute(k, actor, ApprovePlan(board, actor))

(* Refused where allow_legacy_assignment_writes is off, as in bootstrap.py; *)
(* the programs that already have assignments go on.                        *)
ProposeCommand(k, actor) == Execute(k, actor, ProposeAssignment(board, actor))

RespondCommand(k, actor) == Execute(k, actor, RespondToAssignment(board, actor))

StartCommand(k, actor) == Execute(k, actor, StartAssignment(board, actor))

SubmitCommand(k, actor) == Execute(k, actor, SubmitAssignment(board, actor))

ReviewCommand(k, actor) == Execute(k, actor, RequestChanges(board, actor))

(* Mutant of Current: the version is not compared again under the lock.     *)
CurrentWhenLoaded(k) == command[k].version <= board.version

(* save_in_transaction locks the program row and compares its version.      *)
Current(k) == command[k].version = board.version

(* save_in_transaction, complete_command_in_transaction, and the commit.    *)
Save(k) ==
    /\ command[k].state = "open" /\ Current(k)
    /\ board' = [command[k].next EXCEPT !.version = board.version + 1]
    /\ command' = [command EXCEPT ![k] = NoCommand]

(* The version moved on: the transaction rolls back, its claim with it.     *)
Conflict(k) ==
    /\ command[k].state = "open" /\ ~Current(k)
    /\ command' = [command EXCEPT ![k] = NoCommand]
    /\ UNCHANGED board

(* The process dies or the connection drops before the commit.              *)
Abort(k) ==
    /\ command[k].state = "open"
    /\ command' = [command EXCEPT ![k] = NoCommand]
    /\ UNCHANGED board

BoardStep ==
    \E k \in Commands :
        \/ CreateProgram(k)
        \/ \E actor \in Principals :
              \/ AddMemberCommand(k, actor) \/ CreatePlanCommand(k, actor)
              \/ OpenDiscussionCommand(k, actor) \/ AddItemCommand(k, actor)
              \/ ResolveItemCommand(k, actor) \/ ApprovePlanCommand(k, actor)
              \/ ProposeCommand(k, actor) \/ RespondCommand(k, actor)
              \/ StartCommand(k, actor) \/ SubmitCommand(k, actor)
              \/ ReviewCommand(k, actor)
        \/ Save(k) \/ Conflict(k) \/ Abort(k)

-----------------------------------------------------------------------------
(* Properties *)

(* A plan is approved only with the approval of every required member and   *)
(* no blocking objection open, although an objection and the last approval  *)
(* may be under way at the same time (approve_plan works on a copy read     *)
(* without a lock).                                                         *)
ApprovedPlanIsSettled ==
    board.plan.state = "approved" =>
        /\ board.plan.required \subseteq board.plan.approvals
        /\ \A i \in Items : ~(board.items[i].state = "open" /\ board.items[i].blocking)

(* No command undoes what another recorded: a member stays, an approval     *)
(* stands, an objection is not lost, and verified work stays verified.  A   *)
(* command writes back the whole board it loaded (save_in_transaction), so  *)
(* this rests on the version compared under the lock.                       *)
BoardNeverForgets ==
    [][/\ \A p \in Members(board) : board'.role[p] = board.role[p]
       /\ board.plan.approvals \subseteq board'.plan.approvals
       /\ \A i \in Items : /\ board.items[i].state # "absent" => board'.items[i].state # "absent"
                           /\ board.items[i].state = "resolved" => board'.items[i].state = "resolved"
       /\ \A a \in Assignments :
             board.asg[a].state = "verified" => board'.asg[a].state = "verified"]_boardVars

(* The tables of a program and its claimed keys.                            *)
BoardTypeOK ==
    /\ board.version \in Nat
    /\ board.role \in [Principals -> Role]
    /\ board.plan \in Plan
    /\ board.items \in [Items -> Item]
    /\ board.asg \in [Assignments -> Assignment]
    /\ \A k \in Commands : command[k].version <= board.version

(* The board keeps what its members agreed: an approved plan is settled,    *)
(* and no command that loaded an older copy takes anything back.            *)
BoardIsKept == [](BoardTypeOK /\ ApprovedPlanIsSettled) /\ BoardNeverForgets
=============================================================================
