------------------------------- MODULE Gateway -------------------------------
(***************************************************************************)
(* The model gateway (runtime/providers/gateway.py): one process routes    *)
(* the model calls of its agent loops over the registered providers.       *)
(*                                                                         *)
(* A call picks its candidates once, in order of preference, leaving out   *)
(* the providers whose circuit is open, and tries the first MaxFailover+1  *)
(* of them in turn.  An attempt waits for a slot of the provider, calls    *)
(* it, and either answers or fails; a retryable failure counts against the *)
(* provider's circuit and moves the call on to the next candidate, unless  *)
(* text of a streamed answer has reached the caller already.  The calls    *)
(* interleave at every await, so a circuit may open or close between the   *)
(* choice of candidates and the attempt.  A circuit closes by itself when  *)
(* its cooldown is over: the count of failures stays, and the next failure *)
(* opens it again.                                                         *)
(*                                                                         *)
(* Tokens and prices are abstracted to two sets: the providers that        *)
(* satisfy the route policy, and those of them the cost limit can fund.    *)
(***************************************************************************)
EXTENDS Naturals, Sequences, FiniteSets

CONSTANTS
    ModelCalls,
    Preference,     \* the providers by priority, estimated cost and id
    Eligible,       \* those the policy, tools and token limits admit
    Affordable,     \* those whose worst case the cost limit can fund
    Slots,          \* max_concurrency of a provider
    MaxFailover,    \* max_failover_attempts
    Threshold       \* circuit_failure_threshold

Providers == {Preference[i] : i \in 1..Len(Preference)}

ASSUME GatewayAssumption ==
    /\ Slots \in [Providers -> Nat \ {0}]
    /\ MaxFailover \in Nat
    /\ Threshold \in Nat \ {0}

VARIABLES
    failures,   \* consecutive_failures
    opened,     \* opened_until lies in the future
    calls

gatewayVars == <<failures, opened, calls>>

\* A call: where it stands, the candidates it has left (the current one
\* first), whether this attempt has emitted text, and the providers whose
\* output the caller has received.
NewCall == [stage |-> "new", stream |-> FALSE, left |-> << >>,
            text |-> FALSE, heard |-> {}, outcome |-> "none"]

Current(c) == Head(calls[c].left)

\* The slots of a provider in use.  A streamed answer holds its slot while
\* the generator is suspended on its last event.
InUse(p) ==
    Cardinality({c \in ModelCalls :
        calls[c].stage \in {"calling", "answered"} /\ Current(c) = p})

Candidates(ignoreCircuit, ignoreCost) ==
    SelectSeq(Preference, LAMBDA p :
        /\ p \in Eligible
        /\ ignoreCircuit \/ ~opened[p]
        /\ ignoreCost \/ p \in Affordable)

\* Why a call with no candidate is refused.
RouteRefusal ==
    IF Candidates(TRUE, FALSE) # << >> THEN "capacity"
    ELSE IF Candidates(TRUE, TRUE) # << >> THEN "cost"
    ELSE "no_route"

FirstTries(candidates) ==
    SubSeq(candidates, 1,
           IF Len(candidates) <= MaxFailover THEN Len(candidates)
                                             ELSE MaxFailover + 1)

GatewayInit ==
    /\ failures = [p \in Providers |-> 0]
    /\ opened = [p \in Providers |-> FALSE]
    /\ calls = [c \in ModelCalls |-> NewCall]

Ended(c, outcome) ==
    [calls EXCEPT ![c].stage = "ended", ![c].outcome = outcome]

Route(c, stream) ==
    /\ calls[c].stage = "new"
    /\ calls' =
         IF Candidates(FALSE, FALSE) = << >>
         THEN Ended(c, RouteRefusal)
         ELSE [calls EXCEPT ![c].stage = "waiting", ![c].stream = stream,
                            ![c].left = FirstTries(Candidates(FALSE, FALSE))]
    /\ UNCHANGED <<failures, opened>>

Acquire(c) ==
    /\ calls[c].stage = "waiting"
    /\ InUse(Current(c)) < Slots[Current(c)]
    /\ calls' = [calls EXCEPT ![c].stage = "calling"]
    /\ UNCHANGED <<failures, opened>>

\* _record_failure: only a retryable failure counts.
RecordFailure(p, retryable) ==
    /\ failures' = IF retryable THEN [failures EXCEPT ![p] = @ + 1] ELSE failures
    /\ opened' = IF retryable /\ failures[p] + 1 >= Threshold
                 THEN [opened EXCEPT ![p] = TRUE] ELSE opened

\* (mutation) The failover looks only at the kind of the failure.
FailsOverByKind(call, retryable) == retryable /\ Len(call.left) > 1

\* Whether a failed attempt moves on to the next candidate.
FailsOver(call, retryable) ==
    retryable /\ ~call.text /\ Len(call.left) > 1

AttemptFails(c, retryable) ==
    /\ RecordFailure(Current(c), retryable)
    /\ calls' =
         IF FailsOver(calls[c], retryable)
         THEN [calls EXCEPT ![c].stage = "waiting", ![c].text = FALSE,
                            ![c].left = Tail(@)]
         ELSE Ended(c, "error")

\* No slot within concurrency_wait_seconds: a capacity failure, retryable.
WaitTimesOut(c) ==
    /\ calls[c].stage = "waiting"
    /\ InUse(Current(c)) = Slots[Current(c)]
    /\ AttemptFails(c, TRUE)

\* A provider error, or an answer above its limits (a protocol error).
ProviderFails(c, retryable) ==
    /\ calls[c].stage = "calling"
    /\ AttemptFails(c, retryable)

EmitText(c) ==
    /\ calls[c].stage = "calling" /\ calls[c].stream
    /\ calls' = [calls EXCEPT ![c].text = TRUE, ![c].heard = @ \cup {Current(c)}]
    /\ UNCHANGED <<failures, opened>>

\* An answer within its limits closes the provider's circuit, whatever
\* other attempts recorded while it was under way.
ProviderAnswers(c) ==
    /\ calls[c].stage = "calling"
    /\ failures' = [failures EXCEPT ![Current(c)] = 0]
    /\ opened' = [opened EXCEPT ![Current(c)] = FALSE]
    /\ calls' = [calls EXCEPT
                   ![c].stage = IF calls[c].stream THEN "answered" ELSE "ended",
                   ![c].outcome = "answered",
                   ![c].heard = @ \cup {Current(c)}]

\* The consumer of a stream takes the last event's successor, or drops the
\* generator while it is suspended: either way the slot is released.
CloseStream(c) ==
    /\ calls[c].stage = "answered" \/ calls[c].text
    /\ calls[c].stage # "ended"
    /\ calls' = [calls EXCEPT ![c].stage = "ended"]
    /\ UNCHANGED <<failures, opened>>

\* The task of a call is cancelled at an await; nothing is recorded.
CancelCall(c) ==
    /\ calls[c].stage \in {"waiting", "calling"}
    /\ calls' = Ended(c, "cancelled")
    /\ UNCHANGED <<failures, opened>>

CooldownPasses(p) ==
    /\ opened[p]
    /\ opened' = [opened EXCEPT ![p] = FALSE]
    /\ UNCHANGED <<failures, calls>>

GatewayNext ==
    \/ \E c \in ModelCalls :
         \/ \E stream \in BOOLEAN : Route(c, stream)
         \/ Acquire(c) \/ WaitTimesOut(c) \/ EmitText(c) \/ ProviderAnswers(c)
         \/ \E retryable \in BOOLEAN : ProviderFails(c, retryable)
         \/ CloseStream(c) \/ CancelCall(c)
    \/ \E p \in Providers : CooldownPasses(p)

GatewaySpec == GatewayInit /\ [][GatewayNext]_gatewayVars

(***************************************************************************)
(* What a caller receives comes from one provider: after text of a stream  *)
(* has been passed on, no failure replays the request elsewhere, and an    *)
(* answered call makes no other request (gateway.py, complete_routed and   *)
(* stream_routed).                                                         *)
(***************************************************************************)
OneVoice == \A c \in ModelCalls : Cardinality(calls[c].heard) <= 1
=============================================================================
