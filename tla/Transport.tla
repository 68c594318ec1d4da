----------------------------- MODULE Transport -----------------------------
(***************************************************************************)
(* The durable transport between teams (collaboration/transport.py): the   *)
(* outbox a governance command fills, the signed envelope, the recipient's *)
(* inbox.  The relay and the consumer are services outside this            *)
(* repository; they are modelled by the calls the transport offers them.   *)
(*                                                                         *)
(* One call is one transaction and one action.  There is no clock: a lease *)
(* that `lapsed' can be seen as expired.  A claim counts an attempt and    *)
(* issues a fresh token, so the number of the attempt stands for the token *)
(* and, since an envelope is built once per claim and stamped with the     *)
(* time of building, for the envelope's digest as well.                    *)
(***************************************************************************)
EXTENDS Integers

CONSTANTS
    Messages,      \* outbox message ids; the id determines the recipient
    Relays,        \* services with the role collaboration_relay
    Consumers,     \* services with the role collaboration_consumer
    NoMessage,     \* no message
    SendLimit,     \* governance_outbox.max_attempts
    HandleLimit    \* collaboration_inbox.max_attempts

ASSUME TransportLimits ==
    /\ SendLimit \in Nat \ {0} /\ HandleLimit \in Nat \ {0}
    /\ NoMessage \notin Messages

VARIABLES
    outbox,    \* governance_outbox
    inbox,     \* collaboration_inbox, by message id
    wire,      \* envelopes sent and not lost: <<message, digest>>
    relay,     \* what a relay holds, and the answer to what it sent
    consumer   \* what a consumer holds

transportVars == <<outbox, inbox, wire, relay, consumer>>

-----------------------------------------------------------------------------
(* The state *)

(* token 0: no lease; digest 0: no envelope.                                *)
OutboxRow ==
    [status : {"absent", "pending", "claimed", "published", "dead_letter"},
     attempts : Nat, token : Nat, lapsed : BOOLEAN, delayed : BOOLEAN,
     digest : Nat]

InboxRow ==
    [status : {"absent", "received", "claimed", "processed", "rejected"},
     attempts : Nat, token : Nat, lapsed : BOOLEAN, delayed : BOOLEAN,
     digest : Nat]

NoRow ==
    [status |-> "absent", attempts |-> 0, token |-> 0, lapsed |-> FALSE,
     delayed |-> FALSE, digest |-> 0]

RelayState ==
    [msg : Messages \cup {NoMessage}, token : Nat,
     answer : {"none", "built", "sent", "accepted", "refused"}]

IdleRelay == [msg |-> NoMessage, token |-> 0, answer |-> "none"]

IdleConsumer == [msg |-> NoMessage, token |-> 0]

TransportInit ==
    /\ outbox = [m \in Messages |-> NoRow]
    /\ inbox = [m \in Messages |-> NoRow]
    /\ wire = {}
    /\ relay = [r \in Relays |-> IdleRelay]
    /\ consumer = [c \in Consumers |-> IdleConsumer]

(* _persist_events: the command that changed the board writes the events'   *)
(* outbox rows in the same transaction.                                     *)
PersistEvent(m) ==
    /\ outbox[m].status = "absent"
    /\ outbox' = [outbox EXCEPT ![m].status = "pending"]
    /\ UNCHANGED <<inbox, wire, relay, consumer>>

-----------------------------------------------------------------------------
(* Leases *)

(* Mutant of Released: an expired row always waits for another attempt.     *)
ReleasedAlways(x, limit, again, over, delay) ==
    [x EXCEPT !.status = again, !.token = 0, !.lapsed = FALSE,
              !.delayed = delay]

(* A row whose lease ends without success.                                  *)
Released(x, limit, again, over, delay) ==
    [x EXCEPT !.status = IF x.attempts < limit THEN again ELSE over,
              !.token = 0, !.lapsed = FALSE, !.delayed = delay]

(* _recover_outbox, _recover_inbox: every expired lease of the tenant ends. *)
RecoverOutbox ==
    [m \in Messages |->
        IF outbox[m].status = "claimed" /\ outbox[m].lapsed
        THEN Released(outbox[m], SendLimit, "pending", "dead_letter", FALSE)
        ELSE outbox[m]]

RecoverInbox ==
    [m \in Messages |->
        IF inbox[m].status = "claimed" /\ inbox[m].lapsed
        THEN Released(inbox[m], HandleLimit, "received", "rejected", FALSE)
        ELSE inbox[m]]

Claimed(x) ==
    [x EXCEPT !.status = "claimed", !.attempts = @ + 1, !.token = x.attempts + 1]

(* _require_outbox_lease, _require_inbox_lease                              *)
HoldsOutbox(r) ==
    /\ relay[r].msg # NoMessage
    /\ outbox[relay[r].msg].status = "claimed"
    /\ outbox[relay[r].msg].token = relay[r].token
    /\ ~outbox[relay[r].msg].lapsed

HoldsInbox(c) ==
    /\ consumer[c].msg # NoMessage
    /\ inbox[consumer[c].msg].status = "claimed"
    /\ inbox[consumer[c].msg].token = consumer[c].token
    /\ ~inbox[consumer[c].msg].lapsed

-----------------------------------------------------------------------------
(* The relay *)

ClaimOutbound(r, m) ==
    LET rows == RecoverOutbox
    IN  /\ relay[r].msg = NoMessage
        /\ rows[m].status = "pending" /\ ~rows[m].delayed
        /\ rows[m].attempts < SendLimit
        /\ outbox' = [rows EXCEPT ![m] = Claimed(@)]
        /\ relay' = [relay EXCEPT ![r] =
                        [msg |-> m, token |-> rows[m].attempts + 1, answer |-> "none"]]
        /\ UNCHANGED <<inbox, wire, consumer>>

(* claim_outbound finds nothing to claim; what it recovered is committed.   *)
ClaimNoOutbound ==
    LET rows == RecoverOutbox
    IN  /\ \A m \in Messages :
              ~(rows[m].status = "pending" /\ ~rows[m].delayed
                /\ rows[m].attempts < SendLimit)
        /\ outbox' = rows
        /\ UNCHANGED <<inbox, wire, relay, consumer>>

(* heartbeat_outbound renews a lease that has not been seen as expired;     *)
(* with no clock it leaves the row as it is, and a holder it refuses drops  *)
(* the message.                                                             *)
HeartbeatOutbound(r) ==
    /\ relay[r].msg # NoMessage /\ ~HoldsOutbox(r)
    /\ relay' = [relay EXCEPT ![r] = IdleRelay]
    /\ UNCHANGED <<outbox, inbox, wire, consumer>>

(* build_envelope: SignedEnvelopeCodec.issue stamps the time of the call.   *)
BuildEnvelope(r) ==
    /\ relay[r].msg # NoMessage /\ relay[r].answer = "none"
    /\ relay' = [relay EXCEPT ![r].answer = "built"]
    /\ UNCHANGED <<outbox, inbox, wire, consumer>>

(* The signed envelope: what it says of the message, and its digest.        *)
Envelope(r) == <<relay[r].msg, relay[r].token>>

Send(r) ==
    /\ relay[r].answer = "built"
    /\ wire' = wire \cup {Envelope(r)}
    /\ relay' = [relay EXCEPT ![r].answer = "sent"]
    /\ UNCHANGED <<outbox, inbox, consumer>>

(* mark_published: the relay got the recipient's receipt.                   *)
MarkPublished(r) ==
    /\ relay[r].answer = "accepted" /\ HoldsOutbox(r)
    /\ outbox' = [outbox EXCEPT ![relay[r].msg] =
                    [@ EXCEPT !.status = "published", !.token = 0,
                              !.digest = relay[r].token]]
    /\ relay' = [relay EXCEPT ![r] = IdleRelay]
    /\ UNCHANGED <<inbox, wire, consumer>>

(* fail_outbound: the recipient refused, or nothing was heard.              *)
FailOutbound(r) ==
    /\ relay[r].answer \in {"sent", "refused"} /\ HoldsOutbox(r)
    /\ outbox' = [outbox EXCEPT ![relay[r].msg] =
                    Released(@, SendLimit, "pending", "dead_letter", TRUE)]
    /\ relay' = [relay EXCEPT ![r] = IdleRelay]
    /\ UNCHANGED <<inbox, wire, consumer>>

RelayCrash(r) ==
    /\ relay[r].msg # NoMessage
    /\ relay' = [relay EXCEPT ![r] = IdleRelay]
    /\ UNCHANGED <<outbox, inbox, wire, consumer>>

-----------------------------------------------------------------------------
(* The wire and the recipient *)

(* An envelope is lost, or older than max_age when SignedEnvelopeCodec.     *)
(* verify sees it, which refuses it.                                        *)
LoseEnvelope(e) ==
    /\ e \in wire
    /\ wire' = wire \ {e}
    /\ UNCHANGED <<outbox, inbox, relay, consumer>>

(* The receipt reaches the relay that waits for it, or is lost.             *)
Answer(e, what) ==
    \/ UNCHANGED relay
    \/ \E r \in Relays :
          /\ relay[r].msg = e[1] /\ relay[r].token = e[2] /\ relay[r].answer = "sent"
          /\ relay' = [relay EXCEPT ![r].answer = what]

(* Mutant of SameEnvelope: a known message id is a duplicate whatever it    *)
(* carries.                                                                 *)
SameEnvelopeById(x, digest) == x.status # "absent"

(* receive compares the digest of an envelope whose message id it has.      *)
SameEnvelope(x, digest) == x.status # "absent" /\ x.digest = digest

(* receive: the first envelope of a message is stored, the same one again   *)
(* is a duplicate, another one under the same id raises.                    *)
Receive(e) ==
    /\ e \in wire
    /\ \/ /\ inbox[e[1]].status = "absent"
          /\ inbox' = [inbox EXCEPT ![e[1]] =
                         [NoRow EXCEPT !.status = "received", !.digest = e[2]]]
          /\ Answer(e, "accepted")
       \/ /\ SameEnvelope(inbox[e[1]], e[2])
          /\ Answer(e, "accepted") /\ UNCHANGED inbox
       \/ /\ inbox[e[1]].status # "absent" /\ ~SameEnvelope(inbox[e[1]], e[2])
          /\ Answer(e, "refused") /\ UNCHANGED inbox
    /\ UNCHANGED <<outbox, wire, consumer>>

ClaimInbound(c, m) ==
    LET rows == RecoverInbox
    IN  /\ consumer[c].msg = NoMessage
        /\ rows[m].status = "received" /\ ~rows[m].delayed
        /\ rows[m].attempts < HandleLimit
        /\ inbox' = [rows EXCEPT ![m] = Claimed(@)]
        /\ consumer' = [consumer EXCEPT ![c] =
                          [msg |-> m, token |-> rows[m].attempts + 1]]
        /\ UNCHANGED <<outbox, wire, relay>>

ClaimNoInbound ==
    LET rows == RecoverInbox
    IN  /\ \A m \in Messages :
              ~(rows[m].status = "received" /\ ~rows[m].delayed
                /\ rows[m].attempts < HandleLimit)
        /\ inbox' = rows
        /\ UNCHANGED <<outbox, wire, relay, consumer>>

HeartbeatInbound(c) ==
    /\ consumer[c].msg # NoMessage /\ ~HoldsInbox(c)
    /\ consumer' = [consumer EXCEPT ![c] = IdleConsumer]
    /\ UNCHANGED <<outbox, inbox, wire, relay>>

CompleteInbound(c) ==
    /\ HoldsInbox(c)
    /\ inbox' = [inbox EXCEPT ![consumer[c].msg].status = "processed",
                              ![consumer[c].msg].token = 0]
    /\ consumer' = [consumer EXCEPT ![c] = IdleConsumer]
    /\ UNCHANGED <<outbox, wire, relay>>

FailInbound(c) ==
    /\ HoldsInbox(c)
    /\ inbox' = [inbox EXCEPT ![consumer[c].msg] =
                   Released(@, HandleLimit, "received", "rejected", TRUE)]
    /\ consumer' = [consumer EXCEPT ![c] = IdleConsumer]
    /\ UNCHANGED <<outbox, wire, relay>>

ConsumerCrash(c) ==
    /\ consumer[c].msg # NoMessage
    /\ consumer' = [consumer EXCEPT ![c] = IdleConsumer]
    /\ UNCHANGED <<outbox, inbox, wire, relay>>

(* Time: a lease runs out, a retry delay passes.                            *)
LapseOutbox(m) ==
    /\ outbox[m].status = "claimed" /\ ~outbox[m].lapsed
    /\ outbox' = [outbox EXCEPT ![m].lapsed = TRUE]
    /\ UNCHANGED <<inbox, wire, relay, consumer>>

LapseInbox(m) ==
    /\ inbox[m].status = "claimed" /\ ~inbox[m].lapsed
    /\ inbox' = [inbox EXCEPT ![m].lapsed = TRUE]
    /\ UNCHANGED <<outbox, wire, relay, consumer>>

DelayPasses(m) ==
    /\ \/ /\ outbox[m].delayed
          /\ outbox' = [outbox EXCEPT ![m].delayed = FALSE] /\ UNCHANGED inbox
       \/ /\ inbox[m].delayed
          /\ inbox' = [inbox EXCEPT ![m].delayed = FALSE] /\ UNCHANGED outbox
    /\ UNCHANGED <<wire, relay, consumer>>

RelayStep ==
    \/ \E r \in Relays, m \in Messages : ClaimOutbound(r, m)
    \/ ClaimNoOutbound
    \/ \E r \in Relays : \/ HeartbeatOutbound(r) \/ BuildEnvelope(r) \/ Send(r)
                         \/ MarkPublished(r) \/ FailOutbound(r)

ConsumerStep ==
    \/ \E c \in Consumers, m \in Messages : ClaimInbound(c, m)
    \/ ClaimNoInbound
    \/ \E c \in Consumers : HeartbeatInbound(c) \/ CompleteInbound(c) \/ FailInbound(c)

TimeStep == \E m \in Messages : LapseOutbox(m) \/ LapseInbox(m) \/ DelayPasses(m)

TransportNext ==
    \/ \E m \in Messages : PersistEvent(m)
    \/ RelayStep
    \/ \E r \in Relays : RelayCrash(r)
    \/ \E e \in wire : LoseEnvelope(e) \/ Receive(e)
    \/ ConsumerStep
    \/ \E c \in Consumers : ConsumerCrash(c)
    \/ TimeStep

(* Relays and consumers keep calling and do not stay down; leases and       *)
(* delays end.  Nothing is assumed of the wire.                             *)
TransportFairness ==
    /\ WF_transportVars(RelayStep)
    /\ WF_transportVars(ConsumerStep)
    /\ WF_transportVars(TimeStep)

TransportSpec == TransportInit /\ [][TransportNext]_transportVars /\ TransportFairness

-----------------------------------------------------------------------------
(* Properties *)

(* A row the sender's outbox calls published (mark_published) is in the     *)
(* recipient's inbox with the very envelope the outbox recorded, whatever   *)
(* was lost, repeated or taken over by a second relay on the way.           *)
PublishedWasReceived ==
    \A m \in Messages :
        outbox[m].status = "published" =>
            inbox[m].status # "absent" /\ inbox[m].digest = outbox[m].digest

(* Outbox, inbox and what relays hold.                                      *)
TransportTypeOK ==
    /\ outbox \in [Messages -> OutboxRow]
    /\ inbox \in [Messages -> InboxRow]
    /\ relay \in [Relays -> RelayState]

(* Every event written to the outbox ends published or as a dead letter,    *)
(* and every stored envelope processed or rejected, although relays and     *)
(* consumers crash with leases in their hands and attempts are bounded;     *)
(* what the outbox calls published is in the inbox.                         *)
MessagesSettle ==
    /\ [](TransportTypeOK /\ PublishedWasReceived)
    /\ \A m \in Messages :
          /\ outbox[m].status # "absent" ~> outbox[m].status \in {"published", "dead_letter"}
          /\ inbox[m].status # "absent" ~> inbox[m].status \in {"processed", "rejected"}
=============================================================================
