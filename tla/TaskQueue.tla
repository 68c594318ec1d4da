----------------------------- MODULE TaskQueue -----------------------------
(***************************************************************************)
(* The durable execution queue: execution/repository.py and the service in *)
(* front of it.  Tasks form a DAG inside a tenant; workers outside this    *)
(* repository claim them over HTTP, hold them under a lease and report     *)
(* back; anyone entitled may ask for a cancellation, which a worker has to *)
(* acknowledge.                                                            *)
(*                                                                         *)
(* A repository call is one transaction and one action.  There is no       *)
(* clock: `lapsed' says a lease can be seen as expired.  Every claim       *)
(* issues a fresh token and counts one attempt, so the number of the       *)
(* attempt stands for its token.                                           *)
(***************************************************************************)
EXTENDS Integers, FiniteSets

CONSTANTS
    Tasks,         \* execution task ids of one tenant
    Queues,        \* queue names
    Workers,       \* worker services
    None,          \* no task, no queue
    MaxAttempts    \* EXECUTION_TASKS.max_attempts

ASSUME QueueLimits ==
    /\ MaxAttempts \in Nat \ {0}
    /\ None \notin Tasks \cup Queues

VARIABLES
    task,    \* execution_tasks and execution_task_dependencies
    ew       \* what a worker believes it holds

vars == <<task, ew>>

-----------------------------------------------------------------------------
(* The state *)

Status == {"absent", "queued", "leased", "running", "retry_wait",
           "succeeded", "failed", "cancelled"}

Waiting == {"queued", "retry_wait"}

Leased == {"leased", "running"}

Terminal == {"succeeded", "failed", "cancelled"}

(* token 0: no lease; delayed: available_at lies in the future; cancel:     *)
(* cancel_requested.                                                        *)
Task ==
    [status : Status, queue : Queues \cup {None}, deps : SUBSET Tasks,
     attempts : Nat, token : Nat, lapsed : BOOLEAN, delayed : BOOLEAN,
     cancel : BOOLEAN]

Worker == [task : Tasks \cup {None}, token : Nat]

NoTask ==
    [status |-> "absent", queue |-> None, deps |-> {}, attempts |-> 0,
     token |-> 0, lapsed |-> FALSE, delayed |-> FALSE, cancel |-> FALSE]

IdleWorker == [task |-> None, token |-> 0]

Init ==
    /\ task = [t \in Tasks |-> NoTask]
    /\ ew = [w \in Workers |-> IdleWorker]

-----------------------------------------------------------------------------
(* Submitting and cancelling *)

Known(t) == task[t].status # "absent"

(* enqueue: a new task whose dependencies exist; the same request again     *)
(* finds the task and changes nothing, another one under its identity       *)
(* raises.                                                                  *)
Enqueue(t, q, D, delayed) ==
    /\ ~Known(t)
    /\ t \notin D /\ \A d \in D : Known(d)
    /\ task' = [task EXCEPT ![t] =
                  [status |-> "queued", queue |-> q, deps |-> D, attempts |-> 0,
                   token |-> 0, lapsed |-> FALSE, delayed |-> delayed,
                   cancel |-> FALSE]]
    /\ UNCHANGED ew

(* _clear_lease: the row after its lease ended; cancel_requested stays.     *)
ClearLease(x, status, delayed) ==
    [status |-> status, queue |-> x.queue, deps |-> x.deps,
     attempts |-> x.attempts, token |-> 0, lapsed |-> FALSE,
     delayed |-> delayed, cancel |-> x.cancel]

(* request_cancel: a waiting task is cancelled at once, a leased one is     *)
(* marked for its worker.                                                   *)
RequestCancel(t) ==
    /\ \/ /\ task[t].status \in Waiting
          /\ task' = [task EXCEPT ![t] = ClearLease(@, "cancelled", @.delayed)]
       \/ /\ task[t].status \in Leased
          /\ task' = [task EXCEPT ![t].cancel = TRUE]
    /\ UNCHANGED ew

-----------------------------------------------------------------------------
(* Claiming *)

Dead(t) == task[t].status \in {"failed", "cancelled"}

(* Mutant of Blocked: only a failed dependency blocks.                      *)
BlockedByFailure(t) == \E d \in task[t].deps : task[d].status = "failed"

(* A dependency that can no longer succeed.                                 *)
Blocked(t) == \E d \in task[t].deps : Dead(d)

(* _settle_blocked cancels the waiting tasks S of the queue that a          *)
(* dependency blocks; rows locked by others are skipped, and a task whose   *)
(* dependency is cancelled in this very pass may be met after it or before. *)
Settles(q, S) ==
    /\ S \subseteq {t \in Tasks : task[t].status \in Waiting /\ task[t].queue = q}
    /\ \A t \in S : Blocked(t) \/ task[t].deps \cap S # {}

Settled(S) ==
    [t \in Tasks |->
        IF t \in S THEN ClearLease(task[t], "cancelled", task[t].delayed) ELSE task[t]]

(* Mutant of Ready: a dependency that is over counts as done.               *)
ReadyWhenOver(t) ==
    /\ task[t].status \in Waiting /\ ~task[t].delayed /\ ~task[t].cancel
    /\ \A d \in task[t].deps : task[d].status \in Terminal

(* What claim_next may select.                                              *)
Ready(t) ==
    /\ task[t].status \in Waiting /\ ~task[t].delayed /\ ~task[t].cancel
    /\ \A d \in task[t].deps : task[d].status = "succeeded"

(* Mutant of LeasedTo: every lease on a task carries the same token.        *)
LeasedToSameToken(x) ==
    [status |-> "leased", queue |-> x.queue, deps |-> x.deps,
     attempts |-> x.attempts + 1, token |-> 1, lapsed |-> FALSE,
     delayed |-> x.delayed, cancel |-> x.cancel]

LeasedTo(x) ==
    [status |-> "leased", queue |-> x.queue, deps |-> x.deps,
     attempts |-> x.attempts + 1, token |-> x.attempts + 1, lapsed |-> FALSE,
     delayed |-> x.delayed, cancel |-> x.cancel]

(* claim_next settles the blocked tasks of the queue and leases one that is *)
(* ready, in one transaction.  Priority only orders the candidates, and     *)
(* locked ones are skipped, so it may be any of them.                       *)
ClaimNext(w, q, S, t) ==
    /\ ew[w].task = None
    /\ Settles(q, S)
    /\ task[t].queue = q /\ Ready(t) /\ t \notin S
    /\ task' = [Settled(S) EXCEPT ![t] = LeasedTo(@)]
    /\ ew' = [ew EXCEPT ![w] = [task |-> t, token |-> task'[t].token]]

(* claim_next finds nothing to lease; what it settled is committed.         *)
ClaimNothing(q, S) ==
    /\ S # {} /\ Settles(q, S)
    /\ task' = Settled(S)
    /\ UNCHANGED ew

-----------------------------------------------------------------------------
(* Under a lease *)

(* Mutant of Holds: any lease on the task will do.                          *)
HoldsAny(w) == ew[w].task # None /\ task[ew[w].task].token # 0

(* _require_lease: the row still carries this worker's token.               *)
Holds(w) == ew[w].task # None /\ task[ew[w].task].token = ew[w].token

(* The worker learns of the commit, or the reply is lost and it still       *)
(* believes in its lease.                                                   *)
Replied(w) == ew' = [ew EXCEPT ![w] = IdleWorker] \/ UNCHANGED ew

Start(w) ==
    /\ Holds(w) /\ task[ew[w].task].status = "leased"
    /\ task' = [task EXCEPT ![ew[w].task].status = "running"]
    /\ UNCHANGED ew

Heartbeat(w) ==
    /\ Holds(w) /\ task[ew[w].task].lapsed
    /\ task' = [task EXCEPT ![ew[w].task].lapsed = FALSE]
    /\ UNCHANGED ew

(* Mutant of Succeed: the cancellation is not looked at.                    *)
SucceedAnyway(w) ==
    /\ Holds(w) /\ task[ew[w].task].status = "running"
    /\ task' = [task EXCEPT ![ew[w].task] = ClearLease(@, "succeeded", @.delayed)]
    /\ Replied(w)

(* succeed, through _finish: refused while a cancellation is pending.       *)
Succeed(w) ==
    /\ Holds(w) /\ task[ew[w].task].status = "running"
    /\ ~task[ew[w].task].cancel
    /\ task' = [task EXCEPT ![ew[w].task] = ClearLease(@, "succeeded", @.delayed)]
    /\ Replied(w)

(* Mutant of AttemptsLeft: one attempt too many.                            *)
AttemptsLeftLate(x) == x.attempts <= MaxAttempts

AttemptsLeft(x) == x.attempts < MaxAttempts

(* fail: back to the queue after a delay the worker chooses, or failed for  *)
(* good.  The cancellation is not looked at.                                *)
Fail(w, retryable, delayed) ==
    /\ Holds(w) /\ task[ew[w].task].status = "running"
    /\ task' = [task EXCEPT ![ew[w].task] =
                  IF retryable /\ AttemptsLeft(@)
                  THEN ClearLease(@, "retry_wait", delayed)
                  ELSE ClearLease(@, "failed", delayed)]
    /\ Replied(w)

AcknowledgeCancel(w) ==
    /\ Holds(w) /\ task[ew[w].task].cancel
    /\ task' = [task EXCEPT ![ew[w].task] = ClearLease(@, "cancelled", @.delayed)]
    /\ Replied(w)

(* The worker is refused, gives up, or dies.                                *)
Forget(w) ==
    /\ ew[w].task # None
    /\ ew' = [ew EXCEPT ![w] = IdleWorker]
    /\ UNCHANGED task

LeaseLapses(t) ==
    /\ task[t].status \in Leased /\ ~task[t].lapsed
    /\ task' = [task EXCEPT ![t].lapsed = TRUE]
    /\ UNCHANGED ew

DelayElapses(t) ==
    /\ task[t].delayed
    /\ task' = [task EXCEPT ![t].delayed = FALSE]
    /\ UNCHANGED ew

(* The row of an expired lease after recovery.                              *)
Recovered(x) ==
    ClearLease(x, IF x.cancel THEN "cancelled"
                  ELSE IF AttemptsLeft(x) THEN "retry_wait" ELSE "failed", FALSE)

(* Mutant of RecoverExpired: leases that were never started are forgotten.  *)
RecoverExpiredRunning ==
    \E S \in SUBSET {t \in Tasks : task[t].status = "running" /\ task[t].lapsed} :
        /\ S # {}
        /\ task' = [t \in Tasks |-> IF t \in S THEN Recovered(task[t]) ELSE task[t]]
        /\ UNCHANGED ew

(* recover_expired: every lease its scan saw expired, in one transaction.   *)
RecoverExpired ==
    \E S \in SUBSET {t \in Tasks : task[t].status \in Leased /\ task[t].lapsed} :
        /\ S # {}
        /\ task' = [t \in Tasks |-> IF t \in S THEN Recovered(task[t]) ELSE task[t]]
        /\ UNCHANGED ew

-----------------------------------------------------------------------------

TaskStep(t) ==
    \/ \E q \in Queues, D \in SUBSET Tasks, delayed \in BOOLEAN : Enqueue(t, q, D, delayed)
    \/ RequestCancel(t)
    \/ LeaseLapses(t)
    \/ DelayElapses(t)

WorkerStep(w) ==
    \/ Start(w)
    \/ Heartbeat(w)
    \/ Succeed(w)
    \/ \E retryable, delayed \in BOOLEAN : Fail(w, retryable, delayed)
    \/ AcknowledgeCancel(w)
    \/ Forget(w)

Claims ==
    \E q \in Queues, S \in SUBSET Tasks :
        ClaimNothing(q, S) \/ \E w \in Workers, t \in Tasks : ClaimNext(w, q, S, t)

Next ==
    \/ \E t \in Tasks : TaskStep(t)
    \/ \E w \in Workers : WorkerStep(w)
    \/ Claims
    \/ RecoverExpired

Spec == Init /\ [][Next]_vars

(* A worker that has a task says something about it in the end: it reports, *)
(* acknowledges or gives up.                                                *)
WorkerEnds(w) ==
    \/ Start(w)
    \/ Succeed(w)
    \/ \E retryable, delayed \in BOOLEAN : Fail(w, retryable, delayed)
    \/ AcknowledgeCancel(w)
    \/ Forget(w)

LeaseRunsOut(t) ==
    /\ ~ \E w \in Workers : Holds(w) /\ ew[w].task = t
    /\ LeaseLapses(t)

(* Workers poll every queue; delays pass; a lease nobody can renew runs     *)
(* out.                                                                     *)
Polling ==
    /\ \A w \in Workers : WF_vars(WorkerEnds(w))
    /\ \A t \in Tasks :
          /\ WF_vars(\E w \in Workers, q \in Queues : ClaimNext(w, q, {}, t))
          /\ WF_vars(\E q \in Queues : ClaimNothing(q, {t}))
          /\ WF_vars(LeaseRunsOut(t))
          /\ WF_vars(DelayElapses(t))

(* With a scheduler that calls recover_expired; the repository ships none   *)
(* for this queue.                                                          *)
FairSpec == Spec /\ Polling /\ WF_vars(RecoverExpired)

-----------------------------------------------------------------------------
(* Properties *)

(* Every variable has its type.                                             *)
TypeOK ==
    /\ task \in [Tasks -> Task]
    /\ ew \in [Workers -> Worker]

(* A task is started at most max_attempts times over failures and lease     *)
(* recoveries, and one that waits has an attempt left (fail,                *)
(* recover_expired).                                                        *)
AttemptBudget ==
    \A t \in Tasks :
        /\ task[t].attempts <= MaxAttempts
        /\ task[t].status \in Waiting => task[t].attempts < MaxAttempts

(* Two workers never both pass _require_lease for one task.                 *)
OneHolder ==
    \A v, w \in Workers : Holds(v) /\ Holds(w) /\ ew[v].task = ew[w].task => v = w

(* A task that was ever claimed has seen every dependency succeed, and they *)
(* still stand as succeeded, however late it runs (claim_next).             *)
DependenciesFirst ==
    \A t \in Tasks : task[t].attempts > 0 =>
        \A d \in task[t].deps : task[d].status = "succeeded"

(* Once a cancellation was requested of a running task it never succeeds    *)
(* and is never claimed again (_finish, claim_next).                        *)
CancelIsRespected ==
    [][\A t \in Tasks : task[t].cancel =>
          /\ task'[t].cancel
          /\ task'[t].attempts = task[t].attempts
          /\ task'[t].status # "succeeded"]_vars

(* A worker that lost its lease, even one that only lost the reply, changes *)
(* nothing any more; and a task that is over stays so.                      *)
LateWorkerChangesNothing ==
    [][\A t \in Tasks :
          /\ task[t].status \in Terminal => task'[t].status = task[t].status
          /\ task[t].status \in Leased /\ task'[t].status \notin Leased
             => \/ task[t].lapsed
                \/ \E w \in Workers : ew[w].task = t /\ ew[w].token = task[t].token]_vars

(* Every task comes to an end: it runs, uses up its attempts, is cancelled, *)
(* or is settled because something it needs has failed, across queues, as   *)
(* long as no task is put back for a retry while its cancellation is        *)
(* pending: claim_next passes over such a task for good.                    *)
TaskSettles ==
    [](\A t \in Tasks : ~(task[t].status = "retry_wait" /\ task[t].cancel))
    => \A t \in Tasks : Known(t) ~> task[t].status \in Terminal

(* A task with a dependency that failed or was cancelled is cancelled too   *)
(* (_settle_blocked).                                                       *)
BlockedIsCancelled ==
    \A t \in Tasks :
        (\E d \in task[t].deps : task[d].status \in {"failed", "cancelled"})
            ~> task[t].status = "cancelled"

(* The queue drains and stays sound: every task settles within its          *)
(* attempts, what is blocked for good is cancelled, and a worker whose      *)
(* lease was recovered, or taken over by another, changes nothing when it   *)
(* reports at last.                                                         *)
QueueSettles ==
    /\ [](AttemptBudget /\ OneHolder) /\ LateWorkerChangesNothing
    /\ TaskSettles /\ BlockedIsCancelled
=============================================================================
