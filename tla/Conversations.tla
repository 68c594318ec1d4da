---------------------------- MODULE Conversations ----------------------------
(***************************************************************************)
(* The project conversation of an account (product/workspace.py): its      *)
(* messages, one agent turn at a time, the durable run behind a turn       *)
(* (control_plane/conversation_routes.py) and the projection of the ended  *)
(* run back into the turn (product/turn_projection.py).                    *)
(*                                                                         *)
(* A run is projected by the terminal callback and again by every pass of  *)
(* the reconciler, in any process of the control plane; `projector' holds  *)
(* what each of them has read.  Only the message counter of the            *)
(* conversation is read under a lock: the status of the conversation and   *)
(* of the turn are read first, so reading and writing are separate steps.  *)
(***************************************************************************)
EXTENDS Naturals, FiniteSets

CONSTANTS
    Projectors,    \* threads that project ended runs
    TurnKinds,     \* TurnTriggerKind: what the turns of the instance are for
    TurnLimit      \* bound on the number of turns

ASSUME ConversationParameters ==
    /\ TurnLimit \in Nat \ {0}
    /\ TurnKinds \subseteq {"user_message", "planning", "exchange", "exchange_draft"}

VARIABLES
    conversation,  \* project_conversations
    turns,         \* project_agent_turns
    messages,      \* project_conversation_messages
    runs,          \* the agent run of a turn, as the projection reads it
    launch,        \* how far the request that started the turn has come
    sending,       \* a message whose conversation was read active
    imported,      \* turns whose plan or exchange draft is stored
    projector      \* what each projecting thread has read

conversationVars ==
    <<conversation, turns, messages, runs, launch, sending, imported, projector>>

Turns == 1..TurnLimit

-----------------------------------------------------------------------------
(* The tables *)

TurnStatus == {"none", "active", "completed", "failed", "cancelled"}

TurnRow == [status : TurnStatus, kind : TurnKinds \cup {"none"}, bound : BOOLEAN, reply : Nat]

MessageRow == [sequence : Nat, turn : Turns, role : {"user", "assistant"}]

(* completed with an answer, with one that is no valid draft, with none *)
RunOutcomes == {"completed", "malformed", "empty", "failed", "cancelled"}

NoTurn == [status |-> "none", kind |-> "none", bound |-> FALSE, reply |-> 0]

Idle == [step |-> "idle", turn |-> 1]

ConversationInit ==
    /\ conversation = [status |-> "none", sequence |-> 0, agent |-> FALSE]
    /\ turns = [t \in Turns |-> NoTurn]
    /\ messages = {}
    /\ runs = [t \in Turns |-> "none"]
    /\ launch = [t \in Turns |-> "none"]
    /\ sending = FALSE
    /\ imported = {}
    /\ projector = [p \in Projectors |-> Idle]

-----------------------------------------------------------------------------
(* The conversation *)

(* ensure_team_project_agent and ensure_team_agent_profile: the agent of   *)
(* the team is in place, and committed, before the conversation that names *)
(* it.                                                                     *)
EnsureTeamAgent ==
    /\ ~conversation.agent
    /\ conversation' = [conversation EXCEPT !.agent = TRUE]
    /\ UNCHANGED <<turns, messages, runs, launch, sending, imported, projector>>

(* ensure_conversation: a concurrent first opening finds the one row. *)
EnsureConversation ==
    /\ conversation.status = "none" /\ conversation.agent
    /\ conversation' = [conversation EXCEPT !.status = "active"]
    /\ UNCHANGED <<turns, messages, runs, launch, sending, imported, projector>>

ArchiveConversation ==
    /\ conversation.status = "active"
    /\ conversation' = [conversation EXCEPT !.status = "archived"]
    /\ UNCHANGED <<turns, messages, runs, launch, sending, imported, projector>>

ReactivateConversation ==
    /\ conversation.status = "archived"
    /\ conversation' = [conversation EXCEPT !.status = "active"]
    /\ UNCHANGED <<turns, messages, runs, launch, sending, imported, projector>>

-----------------------------------------------------------------------------
(* append_user_message *)

ActiveTurns == {t \in Turns : turns[t].status = "active"}

(* Mutant of NoActiveTurn: only a turn that is bound to its run counts.    *)
NoBoundTurn == \A t \in ActiveTurns : ~turns[t].bound

(* Read under the lock of the conversation. *)
NoActiveTurn == ActiveTurns = {}

(* The status is read before the conversation is locked. *)
BeginSend ==
    /\ conversation.status = "active" /\ ~sending
    /\ sending' = TRUE
    /\ UNCHANGED <<conversation, turns, messages, runs, launch, imported, projector>>

NextTurn == Cardinality({t \in Turns : turns[t].status # "none"}) + 1

(* Mutant of Said: the counter is read before it is advanced.              *)
SaidBehind(t, role) ==
    messages \cup {[sequence |-> conversation.sequence, turn |-> t, role |-> role]}

(* The message takes the number after the last one.                        *)
Said(t, role) ==
    messages \cup {[sequence |-> conversation.sequence + 1, turn |-> t, role |-> role]}

AppendUserMessage(kind) ==
    /\ sending /\ NoActiveTurn /\ NextTurn <= TurnLimit
    /\ sending' = FALSE
    /\ messages' = Said(NextTurn, "user")
    /\ conversation' = [conversation EXCEPT !.sequence = @ + 1]
    /\ turns' = [turns EXCEPT ![NextTurn] =
                    [NoTurn EXCEPT !.status = "active", !.kind = kind]]
    /\ launch' = [launch EXCEPT ![NextTurn] = "starting"]
    /\ UNCHANGED <<runs, imported, projector>>

(* Another turn is active: the message is refused. *)
RefuseMessage ==
    /\ sending /\ ~NoActiveTurn
    /\ sending' = FALSE
    /\ UNCHANGED <<conversation, turns, messages, runs, launch, imported, projector>>

-----------------------------------------------------------------------------
(* launch_conversation_turn_run, start_exchange_draft_run and              *)
(* start_exchange_reply_turn                                               *)

CreateRun(t) ==
    /\ launch[t] = "starting"
    /\ launch' = [launch EXCEPT ![t] = "created"]
    /\ runs' = [runs EXCEPT ![t] = "running"]
    /\ UNCHANGED <<conversation, turns, messages, sending, imported, projector>>

(* The context of the run: the window of history, the brief and the        *)
(* attachments for a message or a plan, ...                                *)
LaunchTurnRun(t) == turns[t].kind \in {"user_message", "planning"} /\ CreateRun(t)

(* ... the teams and resources a draft is meant for, ... *)
StartExchangeDraftRun(t) == turns[t].kind = "exchange_draft" /\ CreateRun(t)

(* ... or the request of the other team. *)
StartExchangeReplyTurn(t) == turns[t].kind = "exchange" /\ CreateRun(t)

(* bind_turn_run, whatever the status of the turn *)
BoundTurn(t) == [turns EXCEPT ![t].bound = TRUE]

BindTurnRun(t) ==
    /\ launch[t] = "created"
    /\ launch' = [launch EXCEPT ![t] = "bound"]
    /\ turns' = BoundTurn(t)
    /\ UNCHANGED <<conversation, messages, runs, sending, imported, projector>>

(* An error on the way, for a reply also after the run is bound: fail_turn *)
(* reads the turn ...                                                      *)
LaunchFails(t) ==
    /\ launch[t] \in {"starting", "created"} \cup
                     (IF turns[t].kind = "exchange" THEN {"bound"} ELSE {})
    /\ launch' = [launch EXCEPT ![t] = IF turns[t].status = "active" THEN "failing" ELSE "lost"]
    /\ UNCHANGED <<conversation, turns, messages, runs, sending, imported, projector>>

(* ... and ends it. *)
Compensate(t) ==
    /\ launch[t] = "failing"
    /\ launch' = [launch EXCEPT ![t] = "lost"]
    /\ turns' = [turns EXCEPT ![t].status = "failed"]
    /\ UNCHANGED <<conversation, messages, runs, sending, imported, projector>>

(* The process stops between the message and the run. *)
LaunchLost(t) ==
    /\ launch[t] \in {"starting", "created", "failing"}
    /\ launch' = [launch EXCEPT ![t] = "lost"]
    /\ UNCHANGED <<conversation, turns, messages, runs, sending, imported, projector>>

RunEnds(t, outcome) ==
    /\ runs[t] = "running"
    /\ runs' = [runs EXCEPT ![t] = outcome]
    /\ UNCHANGED <<conversation, turns, messages, launch, sending, imported, projector>>

-----------------------------------------------------------------------------
(* AgentTurnProjection *)

Step(p, step, t) == [projector EXCEPT ![p] = [step |-> step, turn |-> t]]

(* The ended run of the turn is found by its binding or its correlation.   *)
RunFound(t) ==
    /\ runs[t] \in RunOutcomes
    /\ turns[t].status = "active" \/ ~turns[t].bound

(* on_run_terminal and replay_pending: the binding is healed. *)
Observe(p, t) ==
    /\ projector[p] = Idle /\ RunFound(t)
    /\ turns' = BoundTurn(t)
    /\ projector' = IF turns[t].status = "active" THEN Step(p, "observed", t) ELSE projector
    /\ UNCHANGED <<conversation, messages, runs, launch, sending, imported>>

(* What _project_completed stores before it completes the turn. *)
Importing(t) == runs[t] = "completed" /\ turns[t].kind \in {"planning", "exchange_draft"}

(* The import is left to a later pass. *)
ImportedLater(t) == imported

Imported(t) == IF Importing(t) THEN imported \cup {t} ELSE imported

ProjectDraft(p) ==
    LET t == projector[p].turn IN
    /\ projector[p].step = "observed"
    /\ imported' = Imported(t)
    /\ projector' = Step(p, "projected", t)
    /\ UNCHANGED <<conversation, turns, messages, runs, launch, sending>>

(* complete_turn, fail_turn and cancel_turn read the turn ... *)
ReadTurn(p) ==
    LET t == projector[p].turn IN
    /\ projector[p].step = "projected"
    /\ projector' = IF turns[t].status = "active" THEN Step(p, "settling", t)
                    ELSE [projector EXCEPT ![p] = Idle]
    /\ UNCHANGED <<conversation, turns, messages, runs, launch, sending, imported>>

Answered(t) == runs[t] \in {"completed", "malformed"}

(* ... and write what they decided.  complete_turn locks the conversation  *)
(* first, and does not read the turn again.                                *)
CompleteTurn(p) ==
    LET t == projector[p].turn IN
    /\ projector[p].step = "settling" /\ Answered(t)
    /\ messages' = Said(t, "assistant")
    /\ conversation' = [conversation EXCEPT !.sequence = @ + 1]
    /\ turns' = [turns EXCEPT ![t].status = "completed", ![t].bound = TRUE,
                              ![t].reply = conversation.sequence + 1]
    /\ projector' = [projector EXCEPT ![p] = Idle]
    /\ UNCHANGED <<runs, launch, sending, imported>>

FailTurn(p) ==
    LET t == projector[p].turn IN
    /\ projector[p].step = "settling" /\ runs[t] \in {"empty", "failed"}
    /\ turns' = [turns EXCEPT ![t].status = "failed"]
    /\ projector' = [projector EXCEPT ![p] = Idle]
    /\ UNCHANGED <<conversation, messages, runs, launch, sending, imported>>

CancelTurn(p) ==
    LET t == projector[p].turn IN
    /\ projector[p].step = "settling" /\ runs[t] = "cancelled"
    /\ turns' = [turns EXCEPT ![t].status = "cancelled"]
    /\ projector' = [projector EXCEPT ![p] = Idle]
    /\ UNCHANGED <<conversation, messages, runs, launch, sending, imported>>

(* The process of the projection stops. *)
ProjectorStops(p) ==
    /\ projector[p] # Idle
    /\ projector' = [projector EXCEPT ![p] = Idle]
    /\ UNCHANGED <<conversation, turns, messages, runs, launch, sending, imported>>

-----------------------------------------------------------------------------
ConversationRoutes ==
    \/ EnsureTeamAgent \/ EnsureConversation \/ ArchiveConversation \/ ReactivateConversation
    \/ BeginSend \/ RefuseMessage

LaunchSteps ==
    \E t \in Turns : LaunchTurnRun(t) \/ StartExchangeDraftRun(t) \/ StartExchangeReplyTurn(t)
                     \/ BindTurnRun(t) \/ LaunchFails(t) \/ Compensate(t)
                     \/ LaunchLost(t) \/ \E outcome \in RunOutcomes : RunEnds(t, outcome)

SettleSteps ==
    \E p \in Projectors : ReadTurn(p) \/ CompleteTurn(p) \/ FailTurn(p) \/ CancelTurn(p)

ConversationNext ==
    \/ ConversationRoutes \/ LaunchSteps \/ SettleSteps
    \/ \E kind \in TurnKinds : AppendUserMessage(kind)
    \/ \E p \in Projectors : ProjectDraft(p) \/ ProjectorStops(p) \/ \E t \in Turns : Observe(p, t)

ConversationSpec == ConversationInit /\ [][ConversationNext]_conversationVars

-----------------------------------------------------------------------------
(* Properties *)

(* A conversation never has two agent turns running, whatever order        *)
(* messages, failing launches and late projections come in: the check for  *)
(* an active turn is made under the lock of the conversation.              *)
OneActiveTurn == Cardinality(ActiveTurns) <= 1

(* A turn that ended with its answer has stored the plan or the exchange   *)
(* draft the answer holds, although the projection may stop between the    *)
(* two and be taken up by another thread.                                  *)
CompletedTurnHasItsDraft ==
    \A t \in Turns : turns[t].status = "completed" /\ Importing(t) => t \in imported

(* The reply a completed turn names is the agent's message of that turn,   *)
(* and no two messages of a conversation have one number, although several *)
(* threads complete turns while users write (complete_turn).               *)
RepliesAreRecorded ==
    /\ \A x, y \in messages : x.sequence = y.sequence => x = y
    /\ \A t \in Turns : turns[t].status = "completed" =>
           [sequence |-> turns[t].reply, turn |-> t, role |-> "assistant"] \in messages

(* "All operations are idempotent; worker retries never duplicate          *)
(* messages" (turn_projection.py): a turn is answered once, whichever      *)
(* threads project its run.                                                *)
AnsweredOnce ==
    \A x, y \in messages : x.turn = y.turn /\ x.role = y.role => x = y
=============================================================================
