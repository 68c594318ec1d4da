------------------------------ MODULE Exchanges ------------------------------
(***************************************************************************)
(* Agent exchanges (product/exchange.py, control_plane/exchange_routes.py):*)
(* a team drafts a request, a member approves it and it is sent to the     *)
(* recipient teams; the agent of a recipient drafts a reply in a turn of   *)
(* that team's conversation and a human submits it.                        *)
(*                                                                         *)
(* No row of an exchange is locked before it is written: a call reads,     *)
(* decides and writes in separate steps, and a write does not look again   *)
(* at what was read.  `approving', `answering', `asked' and `storing' hold *)
(* what the open calls have read.  A response that is not committed yet    *)
(* holds its recipient's row, and another write of that row waits for it.  *)
(* The conversation of Conversations is that of the recipient Host.        *)
(***************************************************************************)
EXTENDS Conversations

CONSTANTS
    ExchangeMembers,       \* members of the source team
    Recipients,    \* the recipient teams
    Host,          \* the recipient whose conversation is modelled
    DraftVersions, \* bound on the version of the draft
    ExchangeLimit  \* bound on the number of exchanges approved

ASSUME ExchangeParameters ==
    /\ Host \in Recipients
    /\ {DraftVersions, ExchangeLimit} \subseteq Nat \ {0}

VARIABLES
    proposal,      \* agent_exchange_drafts
    approving,     \* the version a member has read for approval or rejection
    exchanges,     \* agent_exchanges: status and the version of the draft sent
    recipients,    \* agent_exchange_recipients of the last exchange
    answering,     \* what the open response of a recipient has read
    asked,         \* a request for a reply draft has found the recipient Host open
    about,         \* the exchange a turn drafts the reply to
    storing        \* what a projector that stores a reply draft has read

draftVars == <<proposal, approving>>
replyVars == <<asked, about, storing>>
exchangeVars ==
    <<proposal, approving, exchanges, recipients, answering, asked, about, storing>>

-----------------------------------------------------------------------------
(* The tables *)

ProposalRow == [status : {"none", "drafting", "approved", "rejected"}, version : Nat]

ExchangeRow == [status : {"none", "sent", "responded"}, content : Nat]

(* turn: the turn that drafts the reply, 0 for none; drafted: draft_content; *)
(* response: response_id, the team's row of agent_exchange_responses.       *)
RecipientRow ==
    [status : {"pending", "drafting", "responded"}, turn : 0..TurnLimit,
     drafted : BOOLEAN, response : BOOLEAN]

NewRecipient == [status |-> "pending", turn |-> 0, drafted |-> FALSE, response |-> FALSE]

NoExchangeCall == [step |-> "none", version |-> 0]

NoAnswer == [step |-> "none", last |-> FALSE]

ExchangeInit ==
    /\ ConversationInit
    /\ proposal = [status |-> "none", version |-> 1]
    /\ approving = [m \in ExchangeMembers |-> NoExchangeCall]
    /\ exchanges = [e \in 1..ExchangeLimit |-> [status |-> "none", content |-> 0]]
    /\ recipients = [r \in Recipients |-> NewRecipient]
    /\ answering = [r \in Recipients |-> NoAnswer]
    /\ asked = FALSE
    /\ about = [t \in Turns |-> 0]
    /\ storing = [p \in Projectors |-> "none"]

-----------------------------------------------------------------------------
(* The draft *)

Sent == {e \in 1..ExchangeLimit : exchanges[e].status # "none"}

CreateExchangeDraft ==
    /\ proposal.status = "none"
    /\ proposal' = [proposal EXCEPT !.status = "drafting"]
    /\ UNCHANGED <<approving, exchanges, recipients, answering, replyVars, conversationVars>>

UpdateExchangeDraft ==
    /\ proposal.status = "drafting" /\ proposal.version < DraftVersions
    /\ proposal' = [proposal EXCEPT !.version = @ + 1]
    /\ UNCHANGED <<approving, exchanges, recipients, answering, replyVars, conversationVars>>

(* approve_draft and reject_draft read an open draft; the version approved *)
(* is the one the member was shown.                                        *)
ReadDraft(m, step) ==
    /\ approving[m] = NoExchangeCall /\ proposal.status = "drafting"
    /\ approving' = [approving EXCEPT ![m] = [step |-> step, version |-> proposal.version]]
    /\ UNCHANGED <<proposal, exchanges, recipients, answering, replyVars, conversationVars>>

(* The exchange sent is the draft that was read. *)
SentContent(m) == approving[m].version

(* The recipients are those of the new exchange; calls about an earlier    *)
(* one are left aside.                                                     *)
ApproveDraft(m) ==
    LET e == Cardinality(Sent) + 1 IN
    /\ approving[m].step = "approve" /\ e <= ExchangeLimit
    /\ exchanges' = [exchanges EXCEPT ![e] = [status |-> "sent", content |-> SentContent(m)]]
    /\ recipients' = [r \in Recipients |-> NewRecipient]
    /\ proposal' = [proposal EXCEPT !.status = "approved"]
    /\ approving' = [approving EXCEPT ![m] = NoExchangeCall]
    /\ answering' = [r \in Recipients |-> NoAnswer]
    /\ asked' = FALSE
    /\ storing' = [p \in Projectors |-> "none"]
    /\ UNCHANGED <<about, conversationVars>>

RejectDraft(m) ==
    /\ approving[m].step = "reject"
    /\ proposal' = [proposal EXCEPT !.status = "rejected"]
    /\ approving' = [approving EXCEPT ![m] = NoExchangeCall]
    /\ UNCHANGED <<exchanges, recipients, answering, replyVars, conversationVars>>

-----------------------------------------------------------------------------
(* submit_response *)

Last == Cardinality(Sent)

(* Those the agents have not drafted for yet. *)
RemainingPending(r) == {s \in Recipients \ {r} : recipients[s].status = "pending"}

(* The recipients that have not answered once r has. *)
Remaining(r) == {s \in Recipients \ {r} : recipients[s].status \in {"pending", "drafting"}}

(* The status is read, the response inserted (uq_exchange_team_response:   *)
(* one of a team) and the row marked, and the rows that remain are read as *)
(* at most one: with two or more the call raises and nothing is written.   *)
ReadRecipient(r) ==
    /\ Last > 0 /\ answering[r] = NoAnswer
    /\ recipients[r].status # "responded" /\ ~recipients[r].response
    /\ Cardinality(Remaining(r)) <= 1
    /\ answering' = [answering EXCEPT ![r] = [step |-> "answer", last |-> Remaining(r) = {}]]
    /\ UNCHANGED <<draftVars, exchanges, recipients, replyVars, conversationVars>>

(* The call commits. *)
SubmitResponse(r) ==
    /\ answering[r].step = "answer"
    /\ recipients' = [recipients EXCEPT ![r].status = "responded", ![r].response = TRUE]
    /\ exchanges' = IF answering[r].last THEN [exchanges EXCEPT ![Last].status = "responded"]
                    ELSE exchanges
    /\ answering' = [answering EXCEPT ![r] = NoAnswer]
    /\ UNCHANGED <<draftVars, replyVars, conversationVars>>

-----------------------------------------------------------------------------
(* The drafting turn of Host *)

(* A message or a draft of an exchange starts its turn. *)
SendTurn(kind) ==
    /\ kind # "exchange" /\ AppendUserMessage(kind)
    /\ UNCHANGED exchangeVars

MayDraft ==
    Last > 0 /\ recipients[Host].status # "responded" /\ recipients[Host].turn = 0

(* draft_reply_turn and launch_recipient_draft_turns read the recipient ... *)
AskForDraft ==
    /\ "exchange" \in TurnKinds /\ ~asked /\ MayDraft
    /\ asked' = TRUE
    /\ UNCHANGED <<draftVars, exchanges, recipients, answering, about, storing, conversationVars>>

(* ... and start a turn for it. *)
StartDraftTurn ==
    /\ asked /\ AppendUserMessage("exchange")
    /\ asked' = FALSE
    /\ about' = [about EXCEPT ![NextTurn] = Last]
    /\ UNCHANGED <<draftVars, exchanges, recipients, answering, storing>>

(* record_response_draft_turn, after the run was created and bound *)
RecordDraftTurn(t) ==
    /\ launch[t] = "bound" /\ turns[t].kind = "exchange"
    /\ launch' = [launch EXCEPT ![t] = "recorded"]
    /\ recipients' = IF about[t] = Last THEN [recipients EXCEPT ![Host].turn = t] ELSE recipients
    /\ UNCHANGED <<draftVars, exchanges, answering, replyVars, conversation, turns, messages,
                   runs, sending, imported, projector>>

-----------------------------------------------------------------------------
(* The side effects of the projection, before the turn is settled *)

(* clear_response_draft_turn *)
ReleasedTurn(t) ==
    IF recipients[Host].turn = t THEN [recipients EXCEPT ![Host].turn = 0] ELSE recipients

(* The reply of an exchange turn is to be stored. *)
HasReplyDraft(p) ==
    LET t == projector[p].turn IN
    projector[p].step = "observed" /\ turns[t].kind = "exchange" /\ Answered(t)

ProjectTurn(p) ==
    LET t == projector[p].turn IN
    /\ ~HasReplyDraft(p) /\ ProjectDraft(p)
    /\ recipients' = IF Answered(t) THEN recipients ELSE ReleasedTurn(t)
    /\ UNCHANGED <<draftVars, exchanges, answering, replyVars>>

(* recipient_for_turn: without a recipient nothing is stored. *)
FindRecipient(p) ==
    /\ HasReplyDraft(p) /\ storing[p] = "none"
    /\ \/ /\ recipients[Host].turn = projector[p].turn
          /\ storing' = [storing EXCEPT ![p] = "found"]
          /\ UNCHANGED conversationVars
       \/ /\ recipients[Host].turn # projector[p].turn
          /\ ProjectDraft(p)
          /\ UNCHANGED storing
    /\ UNCHANGED <<draftVars, exchanges, recipients, answering, asked, about>>

(* store_response_draft reads the status, and leaves a reply alone that it *)
(* finds submitted; ...                                                    *)
ReadReplyStatus(p) ==
    /\ storing[p] = "found"
    /\ \/ /\ recipients[Host].status = "responded"
          /\ storing' = [storing EXCEPT ![p] = "none"]
          /\ ProjectDraft(p)
       \/ /\ recipients[Host].status # "responded"
          /\ storing' = [storing EXCEPT ![p] = "open"]
          /\ UNCHANGED conversationVars
    /\ UNCHANGED <<draftVars, exchanges, recipients, answering, asked, about>>

(* ... the update does not ask again, and waits for an open response.      *)
StoreReplyDraft(p) ==
    /\ storing[p] = "open" /\ answering[Host] = NoAnswer
    /\ recipients' = [recipients EXCEPT ![Host].status = "drafting", ![Host].turn = 0,
                                        ![Host].drafted = TRUE]
    /\ storing' = [storing EXCEPT ![p] = "none"]
    /\ ProjectDraft(p)
    /\ UNCHANGED <<draftVars, exchanges, answering, asked, about>>

(* The process of the projection stops, wherever it is. *)
StopProjection(p) ==
    /\ ProjectorStops(p)
    /\ storing' = [storing EXCEPT ![p] = "none"]
    /\ UNCHANGED <<draftVars, exchanges, recipients, answering, asked, about>>

-----------------------------------------------------------------------------
ExchangeDraftRoutes ==
    \/ CreateExchangeDraft \/ UpdateExchangeDraft
    \/ \E m \in ExchangeMembers : ReadDraft(m, "approve") \/ ReadDraft(m, "reject")
                          \/ ApproveDraft(m) \/ RejectDraft(m)

ResponseRoutes == \E r \in Recipients : ReadRecipient(r) \/ SubmitResponse(r)

DraftTurnSteps ==
    \/ AskForDraft \/ StartDraftTurn
    \/ \E t \in Turns : RecordDraftTurn(t)

ProjectionSideEffects ==
    \E p \in Projectors : ProjectTurn(p) \/ FindRecipient(p) \/ ReadReplyStatus(p)
                          \/ StoreReplyDraft(p) \/ StopProjection(p)

ExchangeNext ==
    \/ ExchangeDraftRoutes \/ ResponseRoutes \/ DraftTurnSteps \/ ProjectionSideEffects
    \/ \E kind \in TurnKinds : SendTurn(kind)
    \/ /\ ConversationRoutes \/ LaunchSteps \/ SettleSteps
          \/ \E p \in Projectors, t \in Turns : Observe(p, t)
       /\ UNCHANGED exchangeVars

exchangeAndConversationVars == <<exchangeVars, conversationVars>>

ExchangeSpec == ExchangeInit /\ [][ExchangeNext]_exchangeAndConversationVars

(* Recipients keep answering: a team that may answer does, and what it     *)
(* submits is written.                                                     *)
ExchangeFairness ==
    \A r \in Recipients : WF_exchangeVars(ReadRecipient(r)) /\ WF_exchangeVars(SubmitResponse(r))

-----------------------------------------------------------------------------
(* Properties *)

(* An exchange is marked as responded only when every recipient has a      *)
(* stored response, although the responses are submitted concurrently and  *)
(* without a lock, and late drafts set rows back to drafting.              *)
RespondedMeansAnswered ==
    Last > 0 /\ exchanges[Last].status = "responded" => \A r \in Recipients : recipients[r].response

(* "already submitted; a retry must not overwrite it" (store_response_draft): *)
(* a reply a team has submitted is not reopened by the draft that a slow      *)
(* agent turn delivers afterwards.                                            *)
SubmittedReplyStays ==
    [][\A r \in Recipients :
          recipients[r].status = "responded" /\ Last' = Last
              => recipients'[r].status = "responded"]_exchangeAndConversationVars

(* "The exchange becomes RESPONDED when all recipients have replied": an   *)
(* exchange that was sent is answered in the end, as long as its           *)
(* recipients keep submitting.                                             *)
ExchangeIsAnswered ==
    \A e \in 1..ExchangeLimit : [](exchanges[e].status = "sent" => <>(exchanges[e].status = "responded"))

(* The tables of the conversation and of its exchanges.                     *)
ExchangeTypeOK ==
    /\ turns \in [Turns -> TurnRow]
    /\ \A x \in messages : x \in MessageRow /\ x.sequence <= conversation.sequence
    /\ exchanges \in [1..ExchangeLimit -> ExchangeRow]
    /\ recipients \in [Recipients -> RecipientRow]

(* Conversations and exchanges agree: a conversation has one turn at work,  *)
(* a completed turn has stored its draft and names its reply, and an        *)
(* exchange is responded to only when its recipients have answered.         *)
ConversationsAgree ==
    /\ ExchangeTypeOK /\ OneActiveTurn /\ CompletedTurnHasItsDraft
    /\ RepliesAreRecorded /\ RespondedMeansAnswered
=============================================================================
