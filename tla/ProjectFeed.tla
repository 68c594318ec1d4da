----------------------------- MODULE ProjectFeed -----------------------------
(***************************************************************************)
(* What the teams of a project tell each other (product/service.py,        *)
(* TeamCollaborationService; product/notifications.py): messages, topics   *)
(* and the decision that closes one, the actions an agent run drafts and a *)
(* human executes, the activity every one of them appends, the             *)
(* notifications projected from it and the cursor up to which a member has *)
(* read.                                                                   *)
(*                                                                         *)
(* A call is a transaction that checks its rows, appends its activity and  *)
(* commits later: the sequence of an activity is drawn when it is          *)
(* appended, so activities may become visible out of the order of their    *)
(* numbers.  `writing' holds the open transaction of a member; the rows it *)
(* locks are those no other open transaction may check.                    *)
(***************************************************************************)
EXTENDS Naturals, FiniteSets

CONSTANTS
    FeedMembers,  \* accounts of the participating teams
    Owners,        \* those of the initiating team
    Drafts,        \* the actions of the agent run of a member
    DraftLimit,    \* bound on the version of a draft
    FeedLimit      \* bound on the number of activities

ASSUME FeedParameters == Owners \subseteq FeedMembers /\ {DraftLimit, FeedLimit} \subseteq Nat

VARIABLES
    feed,          \* project_activities: sequence and actor of the visible ones
    drawn,         \* the last sequence drawn
    writing,       \* the open transaction of a member
    topic,         \* project_topics and its contributions
    draft,         \* collaboration_action_drafts
    subjects,      \* the messages, tasks and topics executed drafts made
    cursor,        \* project_activity_cursors
    notices,       \* notifications: the activities a member is notified of
    binding        \* project_agent_runs: the mode of the run that made the drafts

feedVars == <<feed, drawn, writing, topic, draft, subjects, cursor, notices, binding>>

-----------------------------------------------------------------------------
(* The tables *)

(* said: the number of contributions. *)
TopicRow == [status : {"none", "open", "decided"}, said : Nat]

DraftRow == [status : {"none", "pending", "executed", "rejected"}, version : Nat]

ActivityRow == [sequence : Nat, actor : FeedMembers]

(* ProjectAgentMode *)
RunModes == {"none", "analysis", "collaboration_actions"}

NoWrite == [kind |-> "none", on |-> "none", sequence |-> 0]

FeedInit ==
    /\ feed = {}
    /\ drawn = 0
    /\ writing = [a \in FeedMembers |-> NoWrite]
    /\ topic = [status |-> "none", said |-> 0]
    /\ draft = [d \in Drafts |-> [status |-> "none", version |-> 1]]
    /\ subjects = [d \in Drafts |-> 0]
    /\ cursor = [a \in FeedMembers |-> 0]
    /\ notices = [a \in FeedMembers |-> {}]
    /\ binding = "none"

-----------------------------------------------------------------------------
(* Transactions *)

(* A row another open transaction has locked is waited for. *)
Unlocked(row) == \A a \in FeedMembers : writing[a].kind = "none" \/ writing[a].on # row

(* _activity: the sequence is drawn while the transaction is open. *)
AppendActivity(a, kind, row) ==
    /\ writing[a] = NoWrite /\ drawn < FeedLimit
    /\ drawn' = drawn + 1
    /\ writing' = [writing EXCEPT ![a] = [kind |-> kind, on |-> row, sequence |-> drawn + 1]]
    /\ UNCHANGED <<feed, topic, draft, subjects, cursor, notices, binding>>

(* project_activity: everyone but the actor is notified. *)
Notified(a, n) ==
    [b \in FeedMembers |-> IF b = a THEN notices[b] ELSE notices[b] \cup {n}]

-----------------------------------------------------------------------------
(* Messages and topics *)

SendMessage(a) == AppendActivity(a, "message", "none")

CreateTopic(a) == topic.status = "none" /\ Unlocked("new_topic") /\ AppendActivity(a, "topic", "new_topic")

(* or, for a reader, does not. *)
TopicRead == TRUE

(* _topic_row locks the topic *)
TopicLocked == Unlocked("topic")

ContributeTopic(a) == TopicLocked /\ topic.status = "open" /\ AppendActivity(a, "contribute", "topic")

DecideTopic(a) ==
    a \in Owners /\ TopicLocked /\ topic.status = "open" /\ AppendActivity(a, "decide", "topic")

-----------------------------------------------------------------------------
(* The drafts of an agent run *)

(* bind_project_agent_run: the mode of a run never changes. *)
BindRun(mode) ==
    /\ binding = "none"
    /\ binding' = mode
    /\ UNCHANGED <<feed, drawn, writing, topic, draft, subjects, cursor, notices>>

(* import_action_drafts, for a run that was started to propose actions. *)
ImportDraft(a, d) ==
    /\ binding = "collaboration_actions" /\ draft[d].status = "none" /\ Unlocked(d)
    /\ AppendActivity(a, "import", d)

(* An edit appends no activity. *)
UpdateDraft(d) ==
    /\ draft[d].status = "pending" /\ Unlocked(d) /\ draft[d].version < DraftLimit
    /\ draft' = [draft EXCEPT ![d].version = @ + 1]
    /\ UNCHANGED <<feed, drawn, writing, topic, subjects, cursor, notices, binding>>

(* The draft is read without its lock. *)
SeenPending(d) == draft[d].status = "pending"

(* _draft_row locks the draft, and what is decided is pending. *)
Undecided(d) == Unlocked(d) /\ draft[d].status = "pending"

(* _finish_draft *)
FinishDraft(a, d, execute) == Undecided(d) /\ AppendActivity(a, IF execute THEN "execute" ELSE "reject", d)

(* _execute_draft: the message, task or topic the draft describes. *)
Executed(d) == [subjects EXCEPT ![d] = @ + 1]

-----------------------------------------------------------------------------
(* Commit and rollback *)

CommitWrite(a) ==
    LET w == writing[a] IN
    /\ w.kind # "none"
    /\ feed' = feed \cup {[sequence |-> w.sequence, actor |-> a]}
    /\ notices' = Notified(a, w.sequence)
    /\ topic' = CASE w.kind = "topic" -> [topic EXCEPT !.status = "open"]
                  [] w.kind = "contribute" -> [topic EXCEPT !.said = @ + 1]
                  [] w.kind = "decide" -> [topic EXCEPT !.status = "decided"]
                  [] OTHER -> topic
    /\ draft' = CASE w.kind = "import" -> [draft EXCEPT ![w.on].status = "pending"]
                  [] w.kind = "execute" -> [draft EXCEPT ![w.on].status = "executed"]
                  [] w.kind = "reject" -> [draft EXCEPT ![w.on].status = "rejected"]
                  [] OTHER -> draft
    /\ subjects' = IF w.kind = "execute" THEN Executed(w.on) ELSE subjects
    /\ writing' = [writing EXCEPT ![a] = NoWrite]
    /\ UNCHANGED <<drawn, cursor, binding>>

(* A failed transaction leaves its number unused. *)
Rollback(a) ==
    /\ writing[a].kind # "none"
    /\ writing' = [writing EXCEPT ![a] = NoWrite]
    /\ UNCHANGED <<feed, drawn, topic, draft, subjects, cursor, notices, binding>>

-----------------------------------------------------------------------------
(* Reading *)

Latest == IF feed = {} THEN 0
          ELSE CHOOSE n \in {e.sequence : e \in feed} : \A e \in feed : e.sequence <= n

MarkProjectRead(a) ==
    /\ cursor[a] # Latest
    /\ cursor' = [cursor EXCEPT ![a] = Latest]
    /\ UNCHANGED <<feed, drawn, writing, topic, draft, subjects, notices, binding>>

ArchiveNotice(a) ==
    /\ notices[a] # {}
    /\ \E n \in notices[a] : notices' = [notices EXCEPT ![a] = @ \ {n}]
    /\ UNCHANGED <<feed, drawn, writing, topic, draft, subjects, cursor, binding>>

-----------------------------------------------------------------------------
(* The routes of control_plane/product_routes.py *)

MessageRoutes ==
    \E a \in FeedMembers : SendMessage(a) \/ MarkProjectRead(a) \/ ArchiveNotice(a)

TopicRoutes ==
    \E a \in FeedMembers : CreateTopic(a) \/ ContributeTopic(a) \/ DecideTopic(a)

DraftRoutes ==
    \/ \E mode \in RunModes \ {"none"} : BindRun(mode)
    \/ \E d \in Drafts : UpdateDraft(d) \/ \E a \in FeedMembers :
          ImportDraft(a, d) \/ \E execute \in BOOLEAN : FinishDraft(a, d, execute)

FeedNext ==
    \/ MessageRoutes \/ TopicRoutes \/ DraftRoutes
    \/ \E a \in FeedMembers : CommitWrite(a) \/ Rollback(a)

FeedSpec == FeedInit /\ [][FeedNext]_feedVars

-----------------------------------------------------------------------------
(* Properties *)

(* A decision is final: no contribution that was being written when the     *)
(* initiating team decided is added to the topic afterwards, and no second  *)
(* decision is (contribute_topic, decide_topic).                            *)
DecisionEndsDiscussion ==
    [][topic.status = "decided" => topic' = topic]_feedVars

(* Two members who execute or reject a draft at the same moment make one    *)
(* outcome of it: an executed draft has one subject, a rejected one none    *)
(* (_finish_draft).                                                         *)
DraftHasOneOutcome ==
    \A d \in Drafts : subjects[d] = IF draft[d].status = "executed" THEN 1 ELSE 0

(* The feed, its topic and drafts; no sequence is drawn twice.              *)
FeedTypeOK ==
    /\ \A e \in feed : e \in ActivityRow /\ e.sequence <= drawn
    /\ \A e, f \in feed : e.sequence = f.sequence => e = f
    /\ topic \in TopicRow
    /\ draft \in [Drafts -> DraftRow]
    /\ cursor \in [FeedMembers -> 0..drawn]

(* What members decide at the same moment is decided once: a topic is       *)
(* closed for good, and a draft is executed or rejected, never both.        *)
FeedIsSettled == [](FeedTypeOK /\ DraftHasOneOutcome) /\ DecisionEndsDiscussion
=============================================================================
