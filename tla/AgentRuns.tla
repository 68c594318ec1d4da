----------------------------- MODULE AgentRuns -----------------------------
(***************************************************************************)
(* Durable agent runs: the lease-fenced state machine of                   *)
(* agent_runs/repository.py, the DurableAgentWorker and AgentLoop that     *)
(* drive it, the control commands a run receives while it works, and the   *)
(* approval resume that rewrites a parked checkpoint.                      *)
(*                                                                         *)
(* Every repository method is one database transaction that locks the run  *)
(* row, so it is one action.  What happens between two transactions (the   *)
(* model call of a worker, the separate reads of resume_approval) is where *)
(* other processes interleave.                                             *)
(*                                                                         *)
(* There is no clock.  `now' is sampled by the caller before the row lock  *)
(* is granted, so a lease-checked call that waited for the lock may still  *)
(* succeed after the lease ran out: `lapsed' says the lease can be seen as *)
(* expired, and a call by the token's holder may then succeed or be        *)
(* refused.  All workers may run under one service principal, so           *)
(* lease_owner tells nothing apart and only the token is modelled.         *)
(***************************************************************************)
EXTENDS Integers, FiniteSets

CONSTANTS
    Runs,          \* run ids
    Workers,       \* agent worker processes
    Clients,       \* callers of resume_approval
    Approvals,     \* managed approvals; each one names its tool call too
    None,          \* no run, no approval, no call
    MaxTurns,      \* RunBudget.max_turns
    MaxFailures,   \* AGENT_RUNS.max_failures
    MaxHistory,    \* control commands a run may ever receive (100_000)
    MaxPending,    \* control commands it may have pending (1000)
    BatchSize,     \* control commands one poll returns (100)
    MaxVersion     \* bound: no resume starts at or above this row version

ASSUME LimitsAssumption ==
    /\ MaxTurns \in Nat \ {0}
    /\ MaxFailures \in Nat \ {0}
    /\ MaxHistory \in Nat
    /\ MaxPending \in Nat
    /\ BatchSize \in Nat \ {0}
    /\ MaxVersion \in Nat

ASSUME NoneAssumption == None \notin Runs \cup Approvals

VARIABLES
    row,      \* agent_runs: the row of each run
    ckpt,     \* the decrypted checkpoint stored in the row
    cmd,      \* agent_run_commands: status of each control sequence
    issued,   \* number of lease tokens ever generated for a run
    wk,       \* a worker's process_once: its lease and the loop's state
    cl        \* a client's resume_approval call

vars == <<row, ckpt, cmd, issued, wk, cl>>

-----------------------------------------------------------------------------
(* The state *)

Seqs == 1..MaxHistory

Status == {"absent", "queued", "leased", "running", "awaiting_approval",
           "awaiting_tool", "completed", "failed", "cancelled"}

Leased == {"leased", "running"}

Terminal == {"completed", "failed", "cancelled"}

(* msgs[s]: how often the conversation holds the message of command s;      *)
(* open: tool calls whose message says approval_required; binds: approval   *)
(* bindings; dispatch: some tool message says dispatch_required.            *)
Checkpoint ==
    [msgs : [Seqs -> Nat], cursor : 0..MaxHistory, turns : 0..MaxTurns,
     open : SUBSET Approvals,
     binds : SUBSET ((Approvals \cup {None}) \X (Approvals \cup {None})),
     dispatch : BOOLEAN]

(* token 0: no lease; delayed: next_attempt_at lies in the future.          *)
Row ==
    [status : Status, version : Nat, turns : 0..MaxTurns, token : Nat,
     lapsed : BOOLEAN, delayed : BOOLEAN, failures : 0..MaxFailures,
     pending : Approvals \cup {None}]

WorkerPC == {"idle", "claimed", "started", "turn", "model", "commit", "raised"}

Outcome == {"completed", "failed", "awaiting_approval", "awaiting_tool"}

(* pc: where process_once is; ck, applied: the loop's conversation and      *)
(* applied_control_sequences; result, ask: what it returned.                *)
Worker ==
    [pc : WorkerPC, run : Runs \cup {None}, token : Nat, ck : Checkpoint,
     applied : SUBSET Seqs, result : Outcome \cup {"none"},
     ask : Approvals \cup {None}]

ClientPC == {"idle", "get", "load", "write"}

Client ==
    [pc : ClientPC, run : Runs \cup {None},
     approval : Approvals \cup {None}, expect : Nat,
     call : Approvals \cup {None}, turns : 0..MaxTurns, ck : Checkpoint]

NewCheckpoint ==
    [msgs |-> [s \in Seqs |-> 0], cursor |-> 0, turns |-> 0, open |-> {},
     binds |-> {}, dispatch |-> FALSE]

NoRow ==
    [status |-> "absent", version |-> 0, turns |-> 0, token |-> 0,
     lapsed |-> FALSE, delayed |-> FALSE, failures |-> 0, pending |-> None]

IdleWorker ==
    [pc |-> "idle", run |-> None, token |-> 0, ck |-> NewCheckpoint,
     applied |-> {}, result |-> "none", ask |-> None]

IdleClient ==
    [pc |-> "idle", run |-> None, approval |-> None, expect |-> 0,
     call |-> None, turns |-> 0, ck |-> NewCheckpoint]

Init ==
    /\ row = [r \in Runs |-> NoRow]
    /\ ckpt = [r \in Runs |-> NewCheckpoint]
    /\ cmd = [r \in Runs |-> [s \in Seqs |-> "absent"]]
    /\ issued = [r \in Runs |-> 0]
    /\ wk = [w \in Workers |-> IdleWorker]
    /\ cl = [c \in Clients |-> IdleClient]

-----------------------------------------------------------------------------
(* The control plane *)

(* create: the row is inserted queued, at version 1, with its checkpoint.   *)
Create(r) ==
    /\ row[r].status = "absent"
    /\ row' = [row EXCEPT ![r].status = "queued", ![r].version = @ + 1]
    /\ UNCHANGED <<ckpt, cmd, issued, wk, cl>>

(* Mutant of Due: the poll returns the command at the cursor again.         *)
DueAgain(r, low, high) ==
    {s \in Seqs : low <= s /\ s <= high /\ cmd[r][s] = "pending"}

(* Pending commands of run r with a sequence in (low, high].                *)
Due(r, low, high) ==
    {s \in Seqs : low < s /\ s <= high /\ cmd[r][s] = "pending"}

(* _reject_pending_controls                                                 *)
RejectPending(c) ==
    [s \in Seqs |-> IF c[s] = "pending" THEN "rejected" ELSE c[s]]

(* submit_control: the next sequence number under the row lock; a follow-up *)
(* reopens a completed run.  A command id seen before, a stale              *)
(* expected_run_version and a refusal leave everything as it is.            *)
SubmitControl(r, type) ==
    /\ row[r].status \notin {"absent", "failed", "cancelled"}
    /\ row[r].status = "completed" => type = "follow_up"
    /\ Cardinality(Due(r, 0, MaxHistory)) < MaxPending
    /\ \E s \in Seqs :
          /\ \A t \in Seqs : t < s <=> cmd[r][t] # "absent"
          /\ cmd' = [cmd EXCEPT ![r][s] = "pending"]
    /\ row' = IF row[r].status = "completed"
              THEN [row EXCEPT ![r].status = "queued", ![r].version = @ + 1,
                               ![r].delayed = FALSE]
              ELSE row
    /\ UNCHANGED <<ckpt, issued, wk, cl>>

(* cancel_queued: acts on a queued run only, never on a leased one.         *)
CancelQueued(r) ==
    /\ row[r].status = "queued"
    /\ row' = [row EXCEPT ![r].status = "cancelled", ![r].version = @ + 1,
                          ![r].delayed = FALSE]
    /\ cmd' = [cmd EXCEPT ![r] = RejectPending(@)]
    /\ UNCHANGED <<ckpt, issued, wk, cl>>

-----------------------------------------------------------------------------
(* Leases *)

Busy(w) == wk[w].pc # "idle"

(* Mutant of HoldsLease: any lease on the run will do.                      *)
HoldsAnyLease(w) == Busy(w) /\ row[wk[w].run].token # 0

(* _validate_lease and the same checks in heartbeat and                     *)
(* _lease_checkpoint_transition: the row still carries this worker's token. *)
HoldsLease(w) == Busy(w) /\ row[wk[w].run].token = wk[w].token

(* Mutant of FreshToken: a token fixed per run.                             *)
SameToken(r) == 1

(* secrets.token_urlsafe(32): a token never issued before.                  *)
FreshToken(r) == issued[r] + 1

(* claim_next: a fresh token, and the checkpoint handed to the worker.      *)
Claim(w, r) ==
    /\ ~Busy(w)
    /\ row[r].status = "queued" /\ ~row[r].delayed
    /\ row' = [row EXCEPT ![r].status = "leased", ![r].version = @ + 1,
                          ![r].token = FreshToken(r), ![r].lapsed = FALSE]
    /\ issued' = [issued EXCEPT ![r] = @ + 1]
    /\ wk' = [wk EXCEPT ![w] =
                 [pc |-> "claimed", run |-> r, token |-> FreshToken(r), ck |-> ckpt[r],
                  applied |-> {}, result |-> "none", ask |-> None]]
    /\ UNCHANGED <<ckpt, cmd, cl>>

(* The checks of _lease_checkpoint_transition and                           *)
(* _validate_control_checkpoint on a checkpoint k that claims to have       *)
(* applied the command sequences in `applied'.                              *)
ControlBindingValid(r, k, applied) ==
    /\ k.cursor >= ckpt[r].cursor
    /\ \A s \in applied : ckpt[r].cursor < s /\ s <= k.cursor
    /\ Due(r, 0, k.cursor) = applied
    /\ applied # {} => \A s \in Seqs : k.msgs[s] <= 1
    /\ \A s \in applied : k.msgs[s] = 1

(* start.  The reply may be lost after the commit: the worker then sees an  *)
(* exception.                                                               *)
Start(w) ==
    /\ wk[w].pc = "claimed"
    /\ HoldsLease(w)
    /\ row[wk[w].run].status \in Leased
    /\ ControlBindingValid(wk[w].run, ckpt[wk[w].run], {})
    /\ row' = [row EXCEPT ![wk[w].run].status = "running",
                          ![wk[w].run].version = @ + 1,
                          ![wk[w].run].delayed = FALSE]
    /\ \E pc \in {"started", "raised"} : wk' = [wk EXCEPT ![w].pc = pc]
    /\ UNCHANGED <<ckpt, cmd, issued, cl>>

(* heartbeat, sent while the loop runs; it does not bump the version.       *)
Heartbeat(w) ==
    /\ wk[w].pc \in {"started", "turn", "model"}
    /\ HoldsLease(w)
    /\ row[wk[w].run].status \in Leased
    /\ row[wk[w].run].lapsed
    /\ row' = [row EXCEPT ![wk[w].run].lapsed = FALSE]
    /\ UNCHANGED <<ckpt, cmd, issued, wk, cl>>

LeaseLapses(r) ==
    /\ row[r].status \in Leased /\ ~row[r].lapsed
    /\ row' = [row EXCEPT ![r].lapsed = TRUE]
    /\ UNCHANGED <<ckpt, cmd, issued, wk, cl>>

BackoffElapses(r) ==
    /\ row[r].delayed
    /\ row' = [row EXCEPT ![r].delayed = FALSE]
    /\ UNCHANGED <<ckpt, cmd, issued, wk, cl>>

(* Mutant of Exhausted: one failure too many.                               *)
ExhaustedLate(x) == x.failures + 1 > MaxFailures

(* The row after one more failed attempt (retry, recover_expired): failed   *)
(* when the failures reach max_failures, else queued behind a delay.        *)
Exhausted(x) == x.failures + 1 >= MaxFailures

(* Mutant of AfterFailure: the token of the failed attempt is kept.         *)
AfterFailureKeepsToken(x) ==
    [status |-> IF Exhausted(x) THEN "failed" ELSE "queued",
     version |-> x.version + 1, turns |-> x.turns, token |-> x.token,
     lapsed |-> FALSE, delayed |-> ~Exhausted(x),
     failures |-> x.failures + 1, pending |-> x.pending]

AfterFailure(x) ==
    [status |-> IF Exhausted(x) THEN "failed" ELSE "queued",
     version |-> x.version + 1, turns |-> x.turns, token |-> 0,
     lapsed |-> FALSE, delayed |-> ~Exhausted(x),
     failures |-> x.failures + 1, pending |-> x.pending]

(* Commands of a run whose row becomes x.                                   *)
CommandsAfter(x, c) == IF x.status = "failed" THEN RejectPending(c) ELSE c

(* Mutant of RecoverExpired: leases that were never started are forgotten.  *)
RecoverExpiredRunning ==
    \E S \in SUBSET {r \in Runs : row[r].status = "running" /\ row[r].lapsed} :
        /\ S # {}
        /\ row' = [r \in Runs |-> IF r \in S THEN AfterFailure(row[r]) ELSE row[r]]
        /\ cmd' = [r \in Runs |-> IF r \in S
                                  THEN CommandsAfter(AfterFailure(row[r]), cmd[r])
                                  ELSE cmd[r]]
        /\ UNCHANGED <<ckpt, issued, wk, cl>>

(* recover_expired: every expired lease its scan saw, in one transaction.   *)
RecoverExpired ==
    \E S \in SUBSET {r \in Runs : row[r].status \in Leased /\ row[r].lapsed} :
        /\ S # {}
        /\ row' = [r \in Runs |-> IF r \in S THEN AfterFailure(row[r]) ELSE row[r]]
        /\ cmd' = [r \in Runs |-> IF r \in S
                                  THEN CommandsAfter(AfterFailure(row[r]), cmd[r])
                                  ELSE cmd[r]]
        /\ UNCHANGED <<ckpt, issued, wk, cl>>

-----------------------------------------------------------------------------
(* The agent loop, inside a worker that holds (or once held) a lease *)

(* Mutant of Finish: the bindings survive into the next checkpoint.         *)
FinishWithBindings(w, k, applied, result, ask) ==
    wk' = [wk EXCEPT ![w] =
             [pc |-> "commit", run |-> @.run, token |-> @.token, ck |-> k,
              applied |-> applied, result |-> result, ask |-> ask]]

(* The loop returns: codec.result drops the bindings the request carried.   *)
Finish(w, k, applied, result, ask) ==
    wk' = [wk EXCEPT ![w] =
             [pc |-> "commit", run |-> @.run, token |-> @.token,
              ck |-> [k EXCEPT !.binds = {}],
              applied |-> applied, result |-> result, ask |-> ask]]

(* The loop goes on.                                                        *)
Proceed(w, pc, k, applied) ==
    wk' = [wk EXCEPT ![w] =
             [pc |-> pc, run |-> @.run, token |-> @.token, ck |-> k,
              applied |-> applied, result |-> "none", ask |-> None]]

(* The tool message of binding b's call is replaced.                        *)
Closed(k, b) ==
    [msgs |-> k.msgs, cursor |-> k.cursor, turns |-> k.turns,
     open |-> k.open \ {b[1]}, binds |-> k.binds \ {b}, dispatch |-> k.dispatch]

(* run(), first part: a bound approval is consumed and its call becomes a   *)
(* dispatch or a plain tool result; it may still be unusable (revoked,      *)
(* expired) or be denied.  A binding whose call is not waiting for approval *)
(* raises.                                                                  *)
ResumeBinding(w) ==
    /\ wk[w].pc = "started"
    /\ \E b \in wk[w].ck.binds :
          LET k == wk[w].ck
          IN  /\ b[1] \in k.open
              /\ \/ \E d \in {k.dispatch, TRUE} :
                       Proceed(w, "started", [Closed(k, b) EXCEPT !.dispatch = d], {})
                 \/ Finish(w, k, {}, "awaiting_approval", b[2])
                 \/ Finish(w, Closed(k, b), {}, "failed", None)
    /\ UNCHANGED <<row, ckpt, cmd, issued, cl>>

(* run(), second part: approvals still open, then undispatched tool calls,  *)
(* suspend the run before another model turn.                               *)
EnterLoop(w) ==
    /\ wk[w].pc = "started" /\ wk[w].ck.binds = {}
    /\ LET k == wk[w].ck IN
       \/ \E a \in k.open : Finish(w, k, {}, "awaiting_approval", a)
       \/ k.open = {} /\ k.dispatch /\ Finish(w, k, {}, "awaiting_tool", None)
       \/ k.open = {} /\ ~k.dispatch /\ Proceed(w, "turn", k, {})
    /\ UNCHANGED <<row, ckpt, cmd, issued, cl>>

(* One poll (list_control, pending_only) after sequence `after' returns the *)
(* pending commands up to n: all of them, or a full batch.                  *)
PollReaches(r, after, n) ==
    /\ n = after \/ (n > after /\ cmd[r][n] = "pending")
    /\ Cardinality(Due(r, after, n)) <= BatchSize
    /\ Due(r, n, MaxHistory) # {} => Cardinality(Due(r, after, n)) = BatchSize

(* Mutant of Pulled: the cursor stays behind.                               *)
PulledWithoutCursor(r, k, n) ==
    [k EXCEPT !.msgs = [s \in Seqs |-> IF s \in Due(r, k.cursor, n)
                                       THEN @[s] + 1 ELSE @[s]]]

(* pull_control: the polled messages are appended, the cursor follows.      *)
Pulled(r, k, n) ==
    [msgs |-> [s \in Seqs |-> IF s \in Due(r, k.cursor, n)
                              THEN k.msgs[s] + 1 ELSE k.msgs[s]],
     cursor |-> n, turns |-> k.turns, open |-> k.open, binds |-> k.binds,
     dispatch |-> k.dispatch]

(* The messages of tool calls: A need approval, d says some await dispatch. *)
WithToolCalls(k, A, d) ==
    [msgs |-> k.msgs, cursor |-> k.cursor, turns |-> k.turns,
     open |-> k.open \cup A, binds |-> k.binds, dispatch |-> d]

(* The head of the while loop: the budgets of turns and of model cost (not  *)
(* counted here, so any turn may find it spent), then pull_control.         *)
BeginTurn(w) ==
    /\ wk[w].pc = "turn"
    /\ LET k == wk[w].ck
           r == wk[w].run
       IN  \/ Finish(w, k, wk[w].applied, "failed", None)
           \/ /\ k.turns < MaxTurns
              /\ \E n \in 0..MaxHistory :
                    /\ PollReaches(r, k.cursor, n)
                    /\ Proceed(w, "model", [Pulled(r, k, n) EXCEPT !.turns = @ + 1],
                               wk[w].applied \cup Due(r, k.cursor, n))
    /\ UNCHANGED <<row, ckpt, cmd, issued, cl>>

(* The model answers.  A budget overrun or a truncated answer fails the     *)
(* run; an answer without tool calls completes it unless one more poll      *)
(* brings commands; tool calls need approvals, dispatch, or ran in process. *)
ModelReturns(w) ==
    /\ wk[w].pc = "model"
    /\ LET k == wk[w].ck
           r == wk[w].run
       IN  \/ Finish(w, k, wk[w].applied, "failed", None)
           \/ /\ k.turns < MaxTurns => PollReaches(r, k.cursor, k.cursor)
              /\ Finish(w, k, wk[w].applied, "completed", None)
           \/ /\ k.turns < MaxTurns
              /\ \E n \in 0..MaxHistory :
                    /\ n # k.cursor /\ PollReaches(r, k.cursor, n)
                    /\ Proceed(w, "turn", Pulled(r, k, n),
                               wk[w].applied \cup Due(r, k.cursor, n))
           \/ \E A \in SUBSET Approvals, d \in BOOLEAN :
                 LET k2 == WithToolCalls(k, A, d)
                 IN  \/ \E a \in A : Finish(w, k2, wk[w].applied, "awaiting_approval", a)
                     \/ A = {} /\ d /\ Finish(w, k2, wk[w].applied, "awaiting_tool", None)
                     \/ A = {} /\ ~d /\ Proceed(w, "turn", k2, wk[w].applied)
    /\ UNCHANGED <<row, ckpt, cmd, issued, cl>>

-----------------------------------------------------------------------------
(* The worker writes its outcome *)

(* Mutant of CommitTarget: a late command does not stop the completion.     *)
CommitTargetAsAsked(r, k, result) == result

(* The status a checkpoint asks for, and the one it gets: a completion that *)
(* finds commands behind its cursor is requeued instead.                    *)
CommitTarget(r, k, result) ==
    IF result = "completed" /\ Due(r, k.cursor, MaxHistory) # {}
    THEN "queued" ELSE result

(* Mutant of CommandsCommitted: the commands are not marked.                *)
CommandsUnmarked(c, applied) == c

CommandsCommitted(c, applied) ==
    [s \in Seqs |-> IF s \in applied THEN "applied" ELSE c[s]]

(* The row after a checkpoint that ends the lease.                          *)
AfterCheckpoint(x, target, turns, ask) ==
    [status |-> target, version |-> x.version + 1, turns |-> turns, token |-> 0,
     lapsed |-> FALSE, delayed |-> FALSE, failures |-> x.failures, pending |-> ask]

(* checkpoint, and ToolBatchCoordinator.dispatch for awaiting_tool: row,    *)
(* checkpoint and command statuses in one transaction.  The reply may be    *)
(* lost.                                                                    *)
Commit(w) ==
    /\ wk[w].pc = "commit"
    /\ HoldsLease(w)
    /\ LET r == wk[w].run
           k == wk[w].ck
           target == CommitTarget(r, k, wk[w].result)
       IN  /\ ControlBindingValid(r, k, wk[w].applied)
           /\ row' = [row EXCEPT ![r] = AfterCheckpoint(@, target, k.turns, wk[w].ask)]
           /\ ckpt' = [ckpt EXCEPT ![r] = k]
           /\ cmd' = [cmd EXCEPT ![r] =
                 CommandsAfter(row'[r], CommandsCommitted(@, wk[w].applied))]
    /\ \/ wk' = [wk EXCEPT ![w] = IdleWorker]
       \/ wk' = [wk EXCEPT ![w].pc = "raised"]
    /\ UNCHANGED <<issued, cl>>

(* A retryable exception anywhere in process_once: retry.                   *)
Retry(w) ==
    /\ HoldsLease(w)
    /\ row[wk[w].run].status \in Leased
    /\ row' = [row EXCEPT ![wk[w].run] = AfterFailure(@)]
    /\ cmd' = [cmd EXCEPT ![wk[w].run] = CommandsAfter(AfterFailure(row[wk[w].run]), @)]
    /\ wk' = [wk EXCEPT ![w] = IdleWorker]
    /\ UNCHANGED <<ckpt, issued, cl>>

(* Any other exception: abort fails the run, whatever its failure count.    *)
Abort(w) ==
    /\ HoldsLease(w)
    /\ row[wk[w].run].status \in Leased
    /\ row' = [row EXCEPT ![wk[w].run] =
                 AfterCheckpoint(@, "failed", @.turns, @.pending)]
    /\ cmd' = [cmd EXCEPT ![wk[w].run] = RejectPending(@)]
    /\ wk' = [wk EXCEPT ![w] = IdleWorker]
    /\ UNCHANGED <<ckpt, issued, cl>>

(* AgentRunPersistenceError: the lease is gone or expired, or the control   *)
(* binding is refused.  The worker reports LEASE_LOST and writes nothing.   *)
LoseLease(w) ==
    /\ Busy(w)
    /\ ~ /\ HoldsLease(w)
         /\ ~row[wk[w].run].lapsed
         /\ wk[w].pc = "commit" =>
               ControlBindingValid(wk[w].run, wk[w].ck, wk[w].applied)
    /\ wk' = [wk EXCEPT ![w] = IdleWorker]
    /\ UNCHANGED <<row, ckpt, cmd, issued, cl>>

(* The process dies, or a heartbeat call fails and the loop is cancelled.   *)
Vanish(w) ==
    /\ Busy(w)
    /\ wk' = [wk EXCEPT ![w] = IdleWorker]
    /\ UNCHANGED <<row, ckpt, cmd, issued, cl>>

-----------------------------------------------------------------------------
(* Waking a parked run *)

(* The client has read the run and asks to resume it with that version.     *)
BeginResume(c, r) ==
    /\ cl[c].pc = "idle"
    /\ row[r].status = "awaiting_approval"
    /\ row[r].version < MaxVersion
    /\ cl' = [cl EXCEPT ![c] =
                 [pc |-> "get", run |-> r, approval |-> row[r].pending,
                  expect |-> row[r].version, call |-> None, turns |-> 0,
                  ck |-> NewCheckpoint]]
    /\ UNCHANGED <<row, ckpt, cmd, issued, wk>>

(* resume_approval reads the run: its pending call and its usage.           *)
GetRun(c) ==
    /\ cl[c].pc = "get"
    /\ cl' = [cl EXCEPT ![c] =
                 [pc |-> "load", run |-> @.run, approval |-> @.approval,
                  expect |-> @.expect, call |-> row[@.run].pending,
                  turns |-> row[@.run].turns, ck |-> @.ck]]
    /\ UNCHANGED <<row, ckpt, cmd, issued, wk>>

(* The checkpoint copy with the binding of the pending call to the approval. *)
Bound(k, call, approval) == [k EXCEPT !.binds = @ \cup {<<call, approval>>}]

(* load_checkpoint, in a transaction of its own; the usage must agree with  *)
(* the run read before; the binding is added to the copy.                   *)
LoadCheckpoint(c) ==
    /\ cl[c].pc = "load"
    /\ ckpt[cl[c].run].turns = cl[c].turns
    /\ cl' = [cl EXCEPT ![c] =
                 [pc |-> "write", run |-> @.run, approval |-> @.approval,
                  expect |-> @.expect, call |-> @.call, turns |-> @.turns,
                  ck |-> Bound(ckpt[@.run], @.call, @.approval)]]
    /\ UNCHANGED <<row, ckpt, cmd, issued, wk>>

(* Mutant of ResumeAccepted: the version is not compared.                   *)
ResumeAcceptedAnyVersion(c) ==
    /\ row[cl[c].run].status = "awaiting_approval"
    /\ row[cl[c].run].pending = cl[c].approval

(* The conditions of requeue_after_approval.                                *)
ResumeAccepted(c) ==
    /\ row[cl[c].run].status = "awaiting_approval"
    /\ row[cl[c].run].pending = cl[c].approval
    /\ row[cl[c].run].version = cl[c].expect

RequeueAfterApproval(c) ==
    /\ cl[c].pc = "write"
    /\ ResumeAccepted(c)
    /\ row' = [row EXCEPT ![cl[c].run].status = "queued",
                          ![cl[c].run].version = @ + 1,
                          ![cl[c].run].pending = None]
    /\ ckpt' = [ckpt EXCEPT ![cl[c].run] = cl[c].ck]
    /\ cl' = [cl EXCEPT ![c] = IdleClient]
    /\ UNCHANGED <<cmd, issued, wk>>

(* The approval is not approved, a check fails, or the caller goes away.    *)
AbandonResume(c) ==
    /\ cl[c].pc # "idle"
    /\ cl' = [cl EXCEPT ![c] = IdleClient]
    /\ UNCHANGED <<row, ckpt, cmd, issued, wk>>

(* wake_if_complete locks the run, writes the tool results into its         *)
(* checkpoint and calls requeue_after_tools in the same transaction.        *)
RequeueAfterTools(r) ==
    /\ row[r].status = "awaiting_tool"
    /\ row' = [row EXCEPT ![r].status = "queued", ![r].version = @ + 1]
    /\ ckpt' = [ckpt EXCEPT ![r].dispatch = FALSE]
    /\ UNCHANGED <<cmd, issued, wk, cl>>

-----------------------------------------------------------------------------

WorkerStep(w) ==
    \/ \E r \in Runs : Claim(w, r)
    \/ Start(w)
    \/ ResumeBinding(w)
    \/ EnterLoop(w)
    \/ BeginTurn(w)
    \/ ModelReturns(w)
    \/ Commit(w)
    \/ Retry(w)
    \/ Abort(w)
    \/ LoseLease(w)

ClientStep(c) ==
    \/ \E r \in Runs : BeginResume(c, r)
    \/ GetRun(c)
    \/ LoadCheckpoint(c)
    \/ RequeueAfterApproval(c)
    \/ AbandonResume(c)

RunStep(r) ==
    \/ Create(r)
    \/ \E type \in {"steer", "follow_up"} : SubmitControl(r, type)
    \/ CancelQueued(r)
    \/ LeaseLapses(r)
    \/ BackoffElapses(r)
    \/ RequeueAfterTools(r)

NextWithoutRecovery ==
    \/ \E w \in Workers : WorkerStep(w) \/ Heartbeat(w) \/ Vanish(w)
    \/ \E c \in Clients : ClientStep(c)
    \/ \E r \in Runs : RunStep(r)

Next == NextWithoutRecovery \/ RecoverExpired

Spec == Init /\ [][Next]_vars

-----------------------------------------------------------------------------
(* Fairness.  A worker process keeps taking its next step (process_once is  *)
(* called in a loop and every model call is bounded by a timeout); a lease  *)
(* nobody can renew runs out; delays pass; dispatched tool batches finish.  *)
(* Nothing is assumed of clients, of approvers or of heartbeats.            *)
LeaseRunsOut(r) == ~(\E w \in Workers : HoldsLease(w) /\ wk[w].run = r) /\ LeaseLapses(r)

DeployedFairness ==
    /\ \A w \in Workers : WF_vars(WorkerStep(w))
    /\ \A r \in Runs : /\ WF_vars(LeaseRunsOut(r))
                       /\ WF_vars(BackoffElapses(r))
                       /\ WF_vars(RequeueAfterTools(r))

(* The system with the recovery scheduler the documentation describes.      *)
FairSpec == Spec /\ DeployedFairness /\ WF_vars(RecoverExpired)

(* The system as its processes are assembled: worker_main, tool_worker_main *)
(* and the control plane; none of them calls recover_expired of this        *)
(* repository.                                                              *)
DeployedSpec == Init /\ [][NextWithoutRecovery]_vars /\ DeployedFairness

-----------------------------------------------------------------------------
(* Properties *)

(* Every variable has its type.                                             *)
TypeOK ==
    /\ row \in [Runs -> Row]
    /\ ckpt \in [Runs -> Checkpoint]
    /\ cmd \in [Runs -> [Seqs -> {"absent", "pending", "applied", "rejected"}]]
    /\ issued \in [Runs -> Nat]
    /\ wk \in [Workers -> Worker]
    /\ cl \in [Clients -> Client]

(* Two workers never both pass the lease check for one run, however late a  *)
(* worker that lost its lease comes back (claim_next, recover_expired).     *)
OneHolder ==
    \A v, w \in Workers :
        HoldsLease(v) /\ HoldsLease(w) /\ wk[v].run = wk[w].run => v = w

(* What the lease holder would write is the stored checkpoint plus the      *)
(* pending commands it pulled: it has missed no command and no other write. *)
HolderExtendsCheckpoint ==
    \A w \in Workers : HoldsLease(w) =>
        LET k == wk[w].ck
            d == ckpt[wk[w].run]
        IN  /\ d.turns <= k.turns
            /\ d.cursor <= k.cursor
            /\ wk[w].applied = Due(wk[w].run, d.cursor, k.cursor)
            /\ \A s \in Seqs :
                  k.msgs[s] = d.msgs[s] + (IF s \in wk[w].applied THEN 1 ELSE 0)

(* The checks on applied_control_sequences never refuse the outcome of the  *)
(* worker that holds the lease (the run would be stuck until it expires).   *)
HolderIsNeverRefused ==
    \A w \in Workers : HoldsLease(w) /\ wk[w].pc = "commit" =>
        ControlBindingValid(wk[w].run, wk[w].ck, wk[w].applied)

(* A command counts as applied exactly when the stored conversation holds   *)
(* it, once; commands are applied in submission order, without a gap.       *)
ControlExactlyOnce ==
    \A r \in Runs, s \in Seqs :
        /\ ckpt[r].msgs[s] = IF cmd[r][s] = "applied" THEN 1 ELSE 0
        /\ cmd[r][s] = "applied" <=> s <= ckpt[r].cursor

(* A run that reached a terminal state leaves no command pending: nobody    *)
(* would ever apply or reject it.                                           *)
NoStrandedCommand ==
    \A r \in Runs, s \in Seqs :
        row[r].status \in Terminal => cmd[r][s] # "pending"

(* A resume whose conditions hold at the moment of the write carries the    *)
(* checkpoint that is stored then plus its binding, although it read run    *)
(* and checkpoint in earlier transactions (resume_approval).                *)
ResumeLosesNothing ==
    \A c \in Clients : cl[c].pc = "write" /\ ResumeAccepted(c) =>
        /\ cl[c].call = cl[c].approval
        /\ cl[c].ck = Bound(ckpt[cl[c].run], cl[c].approval, cl[c].approval)

(* A binding in a stored checkpoint names a call that still waits for       *)
(* exactly that approval: resuming it cannot raise (_pending_call).         *)
BindingsAreOpen ==
    \A r \in Runs : \A b \in ckpt[r].binds :
        b[1] = b[2] /\ b[1] \in ckpt[r].open

(* A parked run waits for an approval its own checkpoint has open.          *)
ParkedOnOpenApproval ==
    \A r \in Runs : row[r].status = "awaiting_approval" =>
        row[r].pending \in ckpt[r].open /\ ckpt[r].binds = {}

(* The usage column and the usage in the checkpoint agree (codec.request    *)
(* and resume_approval refuse the run otherwise).                           *)
UsageAgrees == \A r \in Runs : row[r].turns = ckpt[r].turns

(* max_failures is a hard bound over retries and lease recoveries together. *)
FailureBudget ==
    \A r \in Runs : row[r].failures < MaxFailures \/ row[r].status = "failed"

(* No step takes a command, a turn or the cursor out of a checkpoint, and   *)
(* no step changes one without a new version.                               *)
CheckpointNeverRegresses ==
    [][\A r \in Runs :
          /\ ckpt'[r].turns >= ckpt[r].turns
          /\ ckpt'[r].cursor >= ckpt[r].cursor
          /\ \A s \in Seqs : ckpt'[r].msgs[s] >= ckpt[r].msgs[s]
          /\ ckpt'[r] # ckpt[r] => row'[r].version > row[r].version]_vars

(* failed and cancelled are final, and so is the fate of a command.         *)
FinalStays ==
    [][\A r \in Runs :
          /\ row[r].status \in {"failed", "cancelled"} => row'[r] = row[r]
          /\ \A s \in Seqs : cmd[r][s] \in {"applied", "rejected"} =>
                cmd'[r][s] = cmd[r][s]]_vars

(* A run that has work to do is eventually done or waits for a person:      *)
(* crashes, lost leases and failures cannot keep it going forever.          *)
RunSettles ==
    \A r \in Runs :
        row[r].status \in {"queued", "leased", "running", "awaiting_tool"}
            ~> row[r].status \in Terminal \cup {"awaiting_approval"}

(* A submitted command is eventually applied or rejected, unless its run    *)
(* waits for a person.                                                      *)
CommandSettles ==
    \A r \in Runs, s \in Seqs :
        cmd[r][s] = "pending"
            ~> cmd[r][s] # "pending" \/ row[r].status = "awaiting_approval"

(* "Expired leases are requeued by the recovery scheduler"                  *)
(* (docs/agent-runs.md).                                                    *)
ExpiredLeaseIsRecovered ==
    \A r \in Runs :
        row[r].status \in Leased /\ row[r].lapsed
            ~> row[r].status \notin Leased \/ ~row[r].lapsed

(* The worker that holds a lease may always write, writes on top of what is *)
(* stored, and does so within the failure budget.                           *)
CheckpointDiscipline == HolderExtendsCheckpoint /\ HolderIsNeverRefused /\ FailureBudget

(* Every command submitted to a run reaches its conversation once, or is    *)
(* rejected when the run ends.                                              *)
CommandsApplyOnce == ControlExactlyOnce /\ NoStrandedCommand

(* Neither what a checkpoint holds nor the end of a run is taken back.      *)
RunNeverRegresses == CheckpointNeverRegresses /\ FinalStays

(* A run parked for an approval can be resumed: its pending call is open,   *)
(* its bindings match and its usage is that of its checkpoint.              *)
ParkedRunAgrees == BindingsAreOpen /\ ParkedOnOpenApproval /\ UsageAgrees

(* Runs, commands and expired leases all come to an end.                    *)
WorkSettles == RunSettles /\ CommandSettles /\ ExpiredLeaseIsRecovered
=============================================================================
