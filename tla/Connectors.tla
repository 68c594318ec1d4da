----------------------------- MODULE Connectors -----------------------------
(***************************************************************************)
(* One connector of a tenant and the writes that go through it             *)
(* (connectors/): the registry of its reviewed revisions (repository.py),  *)
(* the client of a tool worker with its retries and circuit breaker        *)
(* (client.py), and the adapter in front of GitHub with its ledger         *)
(* (github_adapter.py, github_native.py).                                  *)
(*                                                                         *)
(* A call is one tool job; it may be executed several times, and each      *)
(* execution posts its request several times under the one idempotency key *)
(* of the job.  A posted request arrives when it likes, also after its     *)
(* client has given up, or never; the adapter may die in the middle of it. *)
(* A revision is abstracted to the adapter it points to, and a request to  *)
(* its key and body.                                                       *)
(***************************************************************************)
EXTENDS Naturals, Sequences, FiniteSets

CONSTANTS
    ConnectorCalls,     \* tool jobs that use the connector
    CallKey,            \* the idempotency key of a job
    CallBody,           \* the path and body it sends
    ReadCalls,          \* the jobs that only read (commit-checks)
    Adapters,           \* the adapters a revision may point to, one ledger each
    Administrators,     \* principals with the role connector_administrator
    ConnectorReviewers, \* principals with the role connector_reviewer
    NoPrincipal,
    ClientAttempts,     \* max_attempts of the endpoint
    JobTries,           \* max_attempts of each of those jobs
    BreakerThreshold,   \* circuit_failure_threshold
    RevisionLimit       \* bound: revisions proposed in a behaviour

ASSUME ConnectorAssumption ==
    /\ {ClientAttempts, BreakerThreshold} \subseteq Nat \ {0}
    /\ JobTries \in [ConnectorCalls -> Nat \ {0}]
    /\ RevisionLimit \in Nat
    /\ NoPrincipal \notin Administrators \cup ConnectorReviewers
    /\ ReadCalls \subseteq ConnectorCalls
    /\ \A c \in ConnectorCalls : CallBody[c] # "none"

VARIABLES
    revisions,  \* connector_registrations, by version
    remote,     \* a job inside SecureConnectorClient.execute
    breaker,    \* _Circuit: failures, and whether open_until lies ahead
    posts,      \* the requests a job has posted, in order
    ledger,     \* operations of each adapter, by idempotency key
    carried     \* the posted requests GitHub has carried out

connectorVars == <<revisions, remote, breaker, posts, ledger, carried>>

Unseen == [body |-> "none", result |-> FALSE]

NewRemote == [step |-> "idle", tries |-> 0, attempt |-> 0, at |-> 0]

CallsInit ==
    /\ remote = [c \in ConnectorCalls |-> NewRemote]
    /\ breaker = [failures |-> 0, open |-> FALSE]
    /\ posts = [c \in ConnectorCalls |-> <<>>]
    /\ ledger = [a \in Adapters |-> [k \in {CallKey[c] : c \in ConnectorCalls} |-> Unseen]]
    /\ carried = {}

ConnectorsInit == revisions = <<>> /\ CallsInit

-----------------------------------------------------------------------------
(* The registry *)

Pending == {v \in DOMAIN revisions : revisions[v].status = "pending"}

Active == {v \in DOMAIN revisions : revisions[v].status = "active"}

(* The partial unique index admits one pending revision, whatever propose   *)
(* and request_disable read before they insert.                             *)
Insert(p, action, adapter) ==
    /\ Pending = {}
    /\ Len(revisions) < RevisionLimit
    /\ revisions' = Append(revisions, [action |-> action, status |-> "pending", at |-> adapter,
                                       by |-> p, reviewer |-> NoPrincipal])
    /\ UNCHANGED <<remote, breaker, posts, ledger, carried>>

ProposeRevision(p) == p \in Administrators /\ \E a \in Adapters : Insert(p, "activate", a)

RequestDisable(p) ==
    /\ p \in Administrators
    /\ \E v \in Active : Insert(p, "disable", revisions[v].at)

(* Mutant of Superseded: an approval leaves what is active alone.           *)
SupersededNone(v) == {}

(* An approval disables what is active before it activates, or disables,    *)
(* what was proposed.                                                       *)
Superseded(v) == Active

MayReview(p, v) == p \in ConnectorReviewers /\ v \in Pending /\ revisions[v].by # p

Reviewed(p, v, status) ==
    [u \in DOMAIN revisions |->
        IF u = v THEN [revisions[u] EXCEPT !.status = status, !.reviewer = p]
        ELSE IF status # "rejected" /\ u \in Superseded(v)
             THEN [revisions[u] EXCEPT !.status = "disabled"]
             ELSE revisions[u]]

Review(p, v) ==
    /\ MayReview(p, v)
    /\ \/ revisions' = Reviewed(p, v, "rejected")
       \/ revisions' = Reviewed(p, v, IF revisions[v].action = "activate"
                                      THEN "active" ELSE "disabled")
    /\ UNCHANGED <<remote, breaker, posts, ledger, carried>>

-----------------------------------------------------------------------------
(* The client *)

(* execute resolves the active revision once, for all of its attempts.      *)
ExecuteJob(c) ==
    /\ remote[c].step \in {"idle", "retryable"} /\ remote[c].tries < JobTries[c]
    /\ ~breaker.open
    /\ \E v \in Active :
          remote' = [remote EXCEPT ![c] = [step |-> "token", tries |-> @.tries + 1,
                                           attempt |-> 0, at |-> v]]
    /\ UNCHANGED <<revisions, breaker, posts, ledger, carried>>

(* The connector is absent or disabled.                                     *)
Denied(c) ==
    /\ remote[c].step \in {"idle", "retryable"} /\ remote[c].tries < JobTries[c]
    /\ Active = {}
    /\ remote' = [remote EXCEPT ![c].step = "failed", ![c].tries = @ + 1]
    /\ UNCHANGED <<revisions, breaker, posts, ledger, carried>>

(* circuit_open is retryable and counts as an execution of the job.         *)
ShortCircuit(c) ==
    /\ remote[c].step \in {"idle", "retryable"} /\ remote[c].tries < JobTries[c]
    /\ breaker.open /\ Active # {}
    /\ remote' = [remote EXCEPT ![c].step = "retryable", ![c].tries = @ + 1]
    /\ UNCHANGED <<revisions, breaker, posts, ledger, carried>>

(* No token: the exception is no ConnectorError and ends the job.           *)
TokenFails(c) ==
    /\ remote[c].step = "token"
    /\ remote' = [remote EXCEPT ![c].step = "failed"]
    /\ UNCHANGED <<revisions, breaker, posts, ledger, carried>>

Post(c) ==
    /\ remote[c].step \in {"token", "backoff"}
    /\ remote' = [remote EXCEPT ![c].step = "waiting", ![c].attempt = @ + 1]
    /\ posts' = [posts EXCEPT ![c] = Append(@, [at |-> revisions[remote[c].at].at,
                                                step |-> "posted"])]
    /\ UNCHANGED <<revisions, breaker, ledger, carried>>

(* _failure; the count is only compared with the threshold and stops there. *)
Failed ==
    LET n == IF breaker.failures < BreakerThreshold THEN breaker.failures + 1
             ELSE breaker.failures
    IN  [failures |-> n, open |-> breaker.open \/ n >= BreakerThreshold]

(* A network error, or an answer of those the client takes for transient.   *)
Transient(c) ==
    IF remote[c].attempt < ClientAttempts
    THEN remote' = [remote EXCEPT ![c].step = "backoff"] /\ UNCHANGED breaker
    ELSE remote' = [remote EXCEPT ![c].step = "retryable"] /\ breaker' = Failed

Answer(c) == posts[c][Len(posts[c])].step

NetworkFailure(c) ==
    /\ remote[c].step = "waiting"
    /\ Transient(c)
    /\ UNCHANGED <<revisions, posts, ledger, carried>>

(* 200, with a body that makes a receipt or none, or that the client        *)
(* refuses; 409; 502.                                                       *)
Receive(c) ==
    /\ remote[c].step = "waiting"
    /\ \/ /\ Answer(c) = "answered"
          /\ \/ /\ \E step \in {"done", "failed"} : remote' = [remote EXCEPT ![c].step = step]
                /\ breaker' = [failures |-> 0, open |-> FALSE]
             \/ /\ remote' = [remote EXCEPT ![c].step = "failed"]
                /\ UNCHANGED breaker
       \/ /\ Answer(c) = "refused"
          /\ remote' = [remote EXCEPT ![c].step = "failed"]
          /\ breaker' = Failed
       \/ Answer(c) = "unknown" /\ Transient(c)
    /\ UNCHANGED <<revisions, posts, ledger, carried>>

(* The tool worker cancels the handler: a timeout of the tool, or a lost    *)
(* lease after which another worker has the job.                            *)
Cancelled(c) ==
    /\ remote[c].step \in {"token", "waiting", "backoff"}
    /\ remote' = [remote EXCEPT ![c].step = "retryable"]
    /\ UNCHANGED <<revisions, breaker, posts, ledger, carried>>

Cooldown ==
    /\ breaker.open
    /\ breaker' = [breaker EXCEPT !.open = FALSE]
    /\ UNCHANGED <<revisions, remote, posts, ledger, carried>>

-----------------------------------------------------------------------------
(* The adapter *)

At(c, n) == posts[c][n].at

Entry(c, n) == ledger[At(c, n)][CallKey[c]]

Moves(c, n, from, to) ==
    /\ posts[c][n].step = from
    /\ posts' = [posts EXCEPT ![c][n].step = to]

Recorded(c, n, entry) == [ledger EXCEPT ![At(c, n)][CallKey[c]] = entry]

(* Mutant of Known: only a request that was completed is known.             *)
KnownWhenDone(c, n) ==
    CASE ~Entry(c, n).result -> ""
      [] Entry(c, n).body # CallBody[c] -> "refused"
      [] OTHER -> "answered"

(* Mutant of Known: a request is known by its key alone.                    *)
KnownByKey(c, n) ==
    CASE Entry(c, n) = Unseen -> ""
      [] ~Entry(c, n).result -> "refused"
      [] OTHER -> "answered"

(* AdapterLedger.begin, one IMMEDIATE transaction: what it answers for a    *)
(* request it knows of, or "" when it stores the intent.                    *)
Known(c, n) ==
    CASE Entry(c, n) = Unseen -> ""
      [] Entry(c, n).body # CallBody[c] -> "refused"
      [] ~Entry(c, n).result -> "refused"
      [] OTHER -> "answered"

Begin(c, n) ==
    /\ c \notin ReadCalls
    /\ IF Known(c, n) = ""
       THEN /\ Moves(c, n, "posted", "begun")
            /\ ledger' = Recorded(c, n, [body |-> CallBody[c], result |-> FALSE])
       ELSE Moves(c, n, "posted", Known(c, n)) /\ UNCHANGED ledger
    /\ UNCHANGED <<revisions, remote, breaker, carried>>

BeginRead(c, n) ==
    /\ c \in ReadCalls
    /\ Moves(c, n, "posted", "begun")
    /\ UNCHANGED <<revisions, remote, breaker, ledger, carried>>

(* NativeGitHubClient.execute: GitHub acts or not, and the answer gets back *)
(* readable or not.                                                         *)
Native(c, n) ==
    /\ \/ /\ carried' = carried \cup {<<c, n>>}
          /\ Moves(c, n, "begun", "acted") \/ Moves(c, n, "begun", "unknown")
       \/ Moves(c, n, "begun", "unknown") /\ UNCHANGED carried
    /\ UNCHANGED <<revisions, remote, breaker, ledger>>

(* AdapterLedger.complete and the answer *)
CompleteCall(c, n) ==
    /\ Moves(c, n, "acted", "answered")
    /\ ledger' = IF c \in ReadCalls THEN ledger
                 ELSE Recorded(c, n, [Entry(c, n) EXCEPT !.result = TRUE])
    /\ UNCHANGED <<revisions, remote, breaker, carried>>

(* The adapter dies with the request in its hands; its ledger stays.        *)
AdapterDies(c, n) ==
    /\ Moves(c, n, "begun", "gone") \/ Moves(c, n, "acted", "gone")
    /\ UNCHANGED <<revisions, remote, breaker, ledger, carried>>

-----------------------------------------------------------------------------
RegistryNext ==
    \/ \E p \in Administrators : ProposeRevision(p) \/ RequestDisable(p)
    \/ \E p \in ConnectorReviewers, v \in DOMAIN revisions : Review(p, v)

ClientNext(c) ==
    \/ ExecuteJob(c) \/ Denied(c) \/ ShortCircuit(c) \/ TokenFails(c) \/ Post(c)
    \/ NetworkFailure(c) \/ Receive(c) \/ Cancelled(c)

AdapterNext(c, n) ==
    Begin(c, n) \/ BeginRead(c, n) \/ Native(c, n) \/ CompleteCall(c, n) \/ AdapterDies(c, n)

CallsNext ==
    \/ Cooldown
    \/ \E c \in ConnectorCalls : ClientNext(c) \/ \E n \in DOMAIN posts[c] : AdapterNext(c, n)

ConnectorsNext == RegistryNext \/ CallsNext

ConnectorsSpec == ConnectorsInit /\ [][ConnectorsNext]_connectorVars

-----------------------------------------------------------------------------
(* Properties *)

(* Revisions, calls, circuit and what was carried out.                      *)
ConnectorsTypeOK ==
    /\ revisions \in Seq([action : {"activate", "disable"},
                          status : {"pending", "active", "rejected", "disabled"},
                          at : Adapters, by : Administrators,
                          reviewer : ConnectorReviewers \cup {NoPrincipal}])
    /\ \A c \in ConnectorCalls :
          /\ remote[c] \in [step : {"idle", "token", "waiting", "backoff",
                                   "retryable", "failed", "done"},
                            tries : 0 .. JobTries[c], attempt : 0 .. ClientAttempts,
                            at : 0 .. RevisionLimit]
          /\ Len(posts[c]) <= ClientAttempts * JobTries[c]
    /\ breaker \in [failures : 0 .. BreakerThreshold, open : BOOLEAN]
    /\ carried \subseteq UNION {{c} \X DOMAIN posts[c] : c \in ConnectorCalls}

(* The writes under a key that one adapter has had carried out.             *)
Writes(a, k) == {e \in carried : e[1] \notin ReadCalls /\ CallKey[e[1]] = k /\ At(e[1], e[2]) = a}

(* However often a write is posted, late, twice or again after the adapter  *)
(* died, one adapter carries it out at most once; what its ledger calls     *)
(* done was carried out with the very body that stands in it.               *)
WrittenOnce ==
    \A a \in Adapters, k \in {CallKey[c] : c \in ConnectorCalls} :
        /\ Cardinality(Writes(a, k)) <= 1
        /\ \A e \in Writes(a, k) : ledger[a][k].body = CallBody[e[1]]
        /\ ledger[a][k].result => Writes(a, k) # {}

(* A job that reports success had its own request carried out, by the       *)
(* adapter that answered it.                                                *)
SuccessIsReal ==
    \A c \in ConnectorCalls \ ReadCalls :
        remote[c].step = "done" =>
            \E e \in Writes(At(c, Len(posts[c])), CallKey[c]) : CallBody[e[1]] = CallBody[c]

(* One revision is in force at a time; another person than its author put   *)
(* it there, and no later one was approved.                                 *)
OneRevisionInForce ==
    \A v \in Active :
        /\ revisions[v].reviewer \notin {NoPrincipal, revisions[v].by}
        /\ \A u \in DOMAIN revisions : u > v => revisions[u].status \in {"pending", "rejected"}

(* Writes through a connector happen at most once and success is never made *)
(* up, while the reviewed revision in force changes under the calls.        *)
ConnectorsAreFaithful ==
    ConnectorsTypeOK /\ WrittenOnce /\ SuccessIsReal /\ OneRevisionInForce
=============================================================================
