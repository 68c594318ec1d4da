------------------------------ MODULE ToolJobs ------------------------------
(***************************************************************************)
(* Tool jobs: the leased queue of tool_jobs/repository.py, the             *)
(* DurableToolWorker that runs the handlers, the ToolBatchCoordinator that *)
(* parks an agent run with its batch and wakes it, and the specialist      *)
(* delegation that suspends a job until a child run ends.                  *)
(*                                                                         *)
(* As in AgentRuns a repository call is one transaction and one action,    *)
(* and there is no clock: `lapsed' says a lease can be seen as expired.    *)
(* Every claim issues a fresh token and counts one attempt, so the number  *)
(* of the attempt stands for its token.                                    *)
(***************************************************************************)
EXTENDS Integers, FiniteSets

CONSTANTS
    Runs,           \* agent runs that park with tool batches
    Calls,          \* tool call ids of a run
    Specialist,     \* the calls whose tool is specialist.delegate
    Workers,        \* tool worker processes
    None,           \* no run, no call
    MaxAttempts,    \* TOOL_JOBS.max_attempts
    ReuseCallIds,   \* may the model provider repeat a call id in a later batch?
    MayOverrun      \* may a model call use more tokens than the gateway estimated?

ASSUME JobLimits ==
    /\ MaxAttempts \in Nat \ {0}
    /\ Specialist \subseteq Calls
    /\ None \notin Runs \cup Calls
    /\ ReuseCallIds \in BOOLEAN /\ MayOverrun \in BOOLEAN

VARIABLES
    run,     \* the parent run, as far as its tool batches go
    job,     \* tool_jobs: one row per call
    deleg,   \* specialist_delegations, the child run and its reservation
    tw       \* a tool worker's run_once

vars == <<run, job, deleg, tw>>

-----------------------------------------------------------------------------
(* The state *)

JobStatus == {"absent", "queued", "leased", "running", "retry_wait",
              "awaiting_specialist", "succeeded", "failed"}

JobLeased == {"leased", "running"}

JobTerminal == {"succeeded", "failed"}

(* waiting: calls whose tool message says dispatch_required; got: what the  *)
(* tool message of a call says once its batch came back; task: the team     *)
(* task the run executes is in_progress.                                    *)
Run ==
    [status : {"working", "awaiting_tool"}, waiting : SUBSET Calls,
     got : [Calls -> {"none", "succeeded", "failed"}], task : BOOLEAN]

(* token 0: no lease; delayed: available_at lies in the future.             *)
Job ==
    [status : JobStatus, attempts : Nat, token : Nat,
     lapsed : BOOLEAN, delayed : BOOLEAN]

ChildEnd == {"completed", "failed", "cancelled"}

(* children: child runs created; over: the child used more tokens than were  *)
(* reserved for it; settled: how often its usage was added to the project's. *)
Delegation ==
    [status : {"none", "PENDING", "COMPLETED", "FAILED", "CANCELLED"},
     child : {"none", "queued", "active"} \cup ChildEnd,
     children : Nat, over : BOOLEAN, settled : Nat]

Outcome == {"none", "ok", "retry", "permanent", "await"}

(* made: the delegate transaction of this attempt has committed.            *)
Worker ==
    [pc : {"idle", "claimed", "running", "finishing"}, run : Runs \cup {None},
     call : Calls \cup {None}, token : Nat, made : BOOLEAN,
     outcome : Outcome]

IdleWorker ==
    [pc |-> "idle", run |-> None, call |-> None, token |-> 0, made |-> FALSE,
     outcome |-> "none"]

Init ==
    /\ run = [r \in Runs |-> [status |-> "working", waiting |-> {},
                              got |-> [c \in Calls |-> "none"], task |-> TRUE]]
    /\ job = [r \in Runs |-> [c \in Calls |->
                [status |-> "absent", attempts |-> 0, token |-> 0,
                 lapsed |-> FALSE, delayed |-> FALSE]]]
    /\ deleg = [r \in Runs |-> [c \in Calls |->
                  [status |-> "none", child |-> "none", children |-> 0,
                   over |-> FALSE, settled |-> 0]]]
    /\ tw = [w \in Workers |-> IdleWorker]

-----------------------------------------------------------------------------
(* The coordinator *)

(* enqueue: a job whose idempotency key exists is left as it is.            *)
Enqueued(j) ==
    IF j.status = "absent" THEN [j EXCEPT !.status = "queued"] ELSE j

(* dispatch: the checkpoint and every job of the batch in one transaction.  *)
(* The agent worker's lease check is AgentRuns!Commit; a call id repeated    *)
(* with other arguments raises and nothing is parked.                       *)
Dispatch(r, C) ==
    /\ run[r].status = "working" /\ C # {}
    /\ ReuseCallIds \/ \A c \in C : job[r][c].status = "absent"
    /\ run' = [run EXCEPT ![r] = [status |-> "awaiting_tool", waiting |-> C,
                                   got |-> @.got, task |-> @.task]]
    /\ job' = [job EXCEPT ![r] =
                 [c \in Calls |-> IF c \in C THEN Enqueued(@[c]) ELSE @[c]]]
    /\ UNCHANGED <<deleg, tw>>

(* Mutant of BatchReady: the run is woken by the first finished job.        *)
BatchReadyEarly(x, J) ==
    /\ x.status = "awaiting_tool"
    /\ \E c \in x.waiting : J[c].status \in JobTerminal
    /\ \A c \in x.waiting : x.got[c] = "none"

(* Mutant of BatchReady: a tool message that carries a result is answered   *)
(* again.                                                                   *)
BatchReadyAgain(x, J) ==
    /\ x.status = "awaiting_tool"
    /\ \A c \in x.waiting : J[c].status \in JobTerminal

(* Mutant of BatchReady: only a batch that succeeded wakes the run.         *)
BatchReadySucceeded(x, J) ==
    /\ x.status = "awaiting_tool"
    /\ \A c \in x.waiting : J[c].status = "succeeded"
    /\ \A c \in x.waiting : x.got[c] = "none"

(* wake_if_complete goes on: every job of the batch is terminal.  A call    *)
(* whose earlier tool message already carries a result raises ("tool result *)
(* placeholder is malformed").                                              *)
BatchReady(x, J) ==
    /\ x.status = "awaiting_tool"
    /\ \A c \in x.waiting : J[c].status \in JobTerminal
    /\ \A c \in x.waiting : x.got[c] = "none"

(* The results are written into the checkpoint and the run is requeued.     *)
Woken(x, J) ==
    [status |-> "working", waiting |-> {},
     got |-> [c \in Calls |-> IF c \notin x.waiting THEN x.got[c]
                              ELSE IF J[c].status = "succeeded" THEN "succeeded"
                              ELSE "failed"],
     task |-> x.task]

(* wake_if_complete, called for every parked run before and after each      *)
(* claim of a tool worker (reconcile).                                      *)
Wake(r) ==
    /\ BatchReady(run[r], job[r])
    /\ run' = [run EXCEPT ![r] = Woken(@, job[r])]
    /\ UNCHANGED <<job, deleg, tw>>

-----------------------------------------------------------------------------
(* Leases *)

JobOf(w) == job[tw[w].run][tw[w].call]

(* Mutant of HoldsJob: any lease on the job will do.                        *)
HoldsAnyJob(w) == tw[w].pc # "idle" /\ JobOf(w).token # 0

(* _lease: the row still carries this worker's token.                       *)
HoldsJob(w) == tw[w].pc # "idle" /\ JobOf(w).token = tw[w].token

(* Mutant of Claim: every lease on a job carries the same token.             *)
ClaimSameToken(w, r, c) ==
    /\ tw[w].pc = "idle"
    /\ job[r][c].status \in {"queued", "retry_wait"} /\ ~job[r][c].delayed
    /\ job' = [job EXCEPT ![r][c] =
                 [status |-> "leased", attempts |-> @.attempts + 1, token |-> 1,
                  lapsed |-> FALSE, delayed |-> FALSE]]
    /\ tw' = [tw EXCEPT ![w] =
                 [pc |-> "claimed", run |-> r, call |-> c, token |-> 1,
                  made |-> FALSE, outcome |-> "none"]]
    /\ UNCHANGED <<run, deleg>>

(* claim_next                                                               *)
Claim(w, r, c) ==
    /\ tw[w].pc = "idle"
    /\ job[r][c].status \in {"queued", "retry_wait"} /\ ~job[r][c].delayed
    /\ LET n == job[r][c].attempts + 1
       IN  /\ job' = [job EXCEPT ![r][c] =
                        [status |-> "leased", attempts |-> n, token |-> n,
                         lapsed |-> FALSE, delayed |-> FALSE]]
           /\ tw' = [tw EXCEPT ![w] =
                        [pc |-> "claimed", run |-> r, call |-> c, token |-> n,
                         made |-> FALSE, outcome |-> "none"]]
    /\ UNCHANGED <<run, deleg>>

(* start, before the handler or before the refusal of a job with bad        *)
(* arguments.                                                               *)
Start(w) ==
    /\ tw[w].pc = "claimed"
    /\ HoldsJob(w) /\ JobOf(w).status = "leased"
    /\ job' = [job EXCEPT ![tw[w].run][tw[w].call].status = "running"]
    /\ tw' = [tw EXCEPT ![w].pc = "running"]
    /\ UNCHANGED <<run, deleg>>

(* _heartbeat, in the background until the outcome is written.              *)
Heartbeat(w) ==
    /\ tw[w].pc \in {"running", "finishing"}
    /\ HoldsJob(w) /\ JobOf(w).lapsed
    /\ job' = [job EXCEPT ![tw[w].run][tw[w].call].lapsed = FALSE]
    /\ UNCHANGED <<run, deleg, tw>>

LeaseLapses(r, c) ==
    /\ job[r][c].status \in JobLeased /\ ~job[r][c].lapsed
    /\ job' = [job EXCEPT ![r][c].lapsed = TRUE]
    /\ UNCHANGED <<run, deleg, tw>>

DelayElapses(r, c) ==
    /\ job[r][c].delayed
    /\ job' = [job EXCEPT ![r][c].delayed = FALSE]
    /\ UNCHANGED <<run, deleg, tw>>

(* The row after its lease ended with the given status.                     *)
Released(j, status) ==
    [status |-> status, attempts |-> j.attempts, token |-> 0, lapsed |-> FALSE,
     delayed |-> status = "retry_wait"]

(* Mutant of AfterAttempt: one attempt too many.                            *)
AfterAttemptLate(j) ==
    Released(j, IF j.attempts <= MaxAttempts THEN "retry_wait" ELSE "failed")

(* A retryable failure (fail, recover_expired).                             *)
AfterAttempt(j) ==
    Released(j, IF j.attempts < MaxAttempts THEN "retry_wait" ELSE "failed")

(* recover_expired, called before every claim: the expired leases it could  *)
(* lock, in one transaction.                                                *)
RecoverExpired ==
    \E S \in SUBSET {k \in Runs \X Calls : /\ job[k[1]][k[2]].status \in JobLeased
                                           /\ job[k[1]][k[2]].lapsed} :
        /\ S # {}
        /\ job' = [r \in Runs |-> [c \in Calls |->
                      IF <<r, c>> \in S THEN AfterAttempt(job[r][c]) ELSE job[r][c]]]
        /\ UNCHANGED <<run, deleg, tw>>

-----------------------------------------------------------------------------
(* The handler *)

(* The handler is over.                                                     *)
Finishing(k, o) ==
    [pc |-> "finishing", run |-> k.run, call |-> k.call, token |-> k.token,
     made |-> k.made, outcome |-> o]

(* Mutant of Execute: the job is parked before its delegation is made.       *)
ExecuteParksEarly(w) ==
    /\ tw[w].pc = "running"
    /\ \E o \in {"ok", "retry", "permanent", "await"} :
          /\ o = "ok" <=> tw[w].call \notin Specialist
          /\ tw' = [tw EXCEPT ![w] = Finishing(@, o)]
    /\ UNCHANGED <<run, job, deleg>>

(* The handler returns, times out, raises, or was never reached; a          *)
(* delegation only ever ends in an error or in AwaitingSpecialistTool.      *)
Execute(w) ==
    /\ tw[w].pc = "running"
    /\ \E o \in {"ok", "retry", "permanent", "await"} :
          /\ o = "ok" => tw[w].call \notin Specialist
          /\ o = "await" => tw[w].made
          /\ tw' = [tw EXCEPT ![w] = Finishing(@, o)]
    /\ UNCHANGED <<run, job, deleg>>

(* Mutant of Delegated: a repeated attempt creates a second child.          *)
DelegatedAgain(d) ==
    [status |-> "PENDING", child |-> "queued", children |-> d.children + 1,
     over |-> FALSE, settled |-> d.settled]

(* The delegation row after delegate: an existing one is reused.            *)
Delegated(d) ==
    IF d.status # "none" THEN d
    ELSE [status |-> "PENDING", child |-> "queued", children |-> d.children + 1,
          over |-> FALSE, settled |-> d.settled]

(* SpecialistDelegationService.delegate: delegation, child run and budget   *)
(* reservation in one transaction fenced by the job's lease.  It runs in a  *)
(* thread that neither a timeout of the handler nor a lost heartbeat stops; *)
(* in the second case it may commit after Vanish, which leaves the same     *)
(* rows behind as committing before it.                                     *)
Delegate(w) ==
    /\ \/ tw[w].pc = "running"
       \/ tw[w].pc = "finishing" /\ tw[w].outcome = "retry"
    /\ tw[w].call \in Specialist /\ ~tw[w].made
    /\ HoldsJob(w) /\ JobOf(w).status = "running"
    /\ run[tw[w].run].status = "awaiting_tool" /\ run[tw[w].run].task
    /\ tw[w].call \in run[tw[w].run].waiting
    /\ deleg' = [deleg EXCEPT ![tw[w].run][tw[w].call] = Delegated(@)]
    /\ tw' = [tw EXCEPT ![w].made = TRUE]
    /\ UNCHANGED <<run, job>>

(* The row after the outcome is written.                                    *)
AfterOutcome(j, o) ==
    CASE o = "ok"        -> Released(j, "succeeded")
      [] o = "retry"     -> AfterAttempt(j)
      [] o = "permanent" -> Released(j, "failed")
      [] o = "await"     -> Released(j, "awaiting_specialist")

(* succeed, fail, await_specialist                                          *)
WriteOutcome(w) ==
    /\ tw[w].pc = "finishing"
    /\ HoldsJob(w) /\ JobOf(w).status = "running"
    /\ job' = [job EXCEPT ![tw[w].run][tw[w].call] = AfterOutcome(@, tw[w].outcome)]
    /\ tw' = [tw EXCEPT ![w] = IdleWorker]
    /\ UNCHANGED <<run, deleg>>

(* A database error in succeed is caught like an error of the handler: the  *)
(* job is then failed for good.                                             *)
SucceedRaises(w) ==
    /\ tw[w].pc = "finishing" /\ tw[w].outcome = "ok"
    /\ tw' = [tw EXCEPT ![w].outcome = "permanent"]
    /\ UNCHANGED <<run, job, deleg>>

(* ToolJobError: the lease is gone or expired.  The worker goes on with the *)
(* next job and leaves this one to recovery.                                *)
LoseJob(w) ==
    /\ tw[w].pc # "idle"
    /\ ~HoldsJob(w) \/ JobOf(w).lapsed
    /\ tw' = [tw EXCEPT ![w] = IdleWorker]
    /\ UNCHANGED <<run, job, deleg>>

(* The process dies, or a failed heartbeat cancels the handler.             *)
Vanish(w) ==
    /\ tw[w].pc # "idle"
    /\ tw' = [tw EXCEPT ![w] = IdleWorker]
    /\ UNCHANGED <<run, job, deleg>>

-----------------------------------------------------------------------------
(* The specialist's run *)

(* The child run, as AgentRuns lets it move: claimed, back in the queue      *)
(* after a failed attempt, or over.                                         *)
ChildIs(d, child, over) ==
    [status |-> d.status, child |-> child, children |-> d.children, over |-> over,
     settled |-> d.settled]

ChildStarts(r, c) ==
    /\ deleg[r][c].child = "queued"
    /\ deleg' = [deleg EXCEPT ![r][c] = ChildIs(@, "active", FALSE)]
    /\ UNCHANGED <<run, job, tw>>

ChildRetries(r, c) ==
    /\ deleg[r][c].child = "active"
    /\ deleg' = [deleg EXCEPT ![r][c] = ChildIs(@, "queued", FALSE)]
    /\ UNCHANGED <<run, job, tw>>

(* A model call that takes the child over its token budget fails it.        *)
ChildEnds(r, c) ==
    /\ deleg[r][c].child = "active"
    /\ \E end \in {"completed", "failed"}, over \in BOOLEAN :
          /\ over => MayOverrun /\ end = "failed"
          /\ deleg' = [deleg EXCEPT ![r][c] = ChildIs(@, end, over)]
    /\ UNCHANGED <<run, job, tw>>

(* The team task leaves in_progress: it is submitted, reworked or cancelled *)
(* by somebody else.                                                        *)
TaskLeaves(r) ==
    /\ run[r].task
    /\ run' = [run EXCEPT ![r].task = FALSE]
    /\ UNCHANGED <<job, deleg, tw>>

(* Mutant of CompleteSpecialist: a job that is over is completed again.     *)
CompleteAnySpecialist(r, c, ok) ==
    /\ job' = [job EXCEPT ![r][c] = Released(@, IF ok THEN "succeeded" ELSE "failed")]
    /\ \/ UNCHANGED run
       \/ BatchReady(run[r], job'[r]) /\ run' = [run EXCEPT ![r] = Woken(@, job'[r])]

(* complete_specialist: the same result again is ignored; a job that is     *)
(* neither waiting nor completed by this delegation raises and undoes the   *)
(* whole transaction.  The control plane's projection also wakes the parent *)
(* run if this was the last job of its batch, the agent worker's has no     *)
(* coordinator and leaves that to reconcile.                                *)
CompleteSpecialist(r, c, ok) ==
    /\ \/ /\ job[r][c].status = "awaiting_specialist"
          /\ job' = [job EXCEPT ![r][c] = Released(@, IF ok THEN "succeeded" ELSE "failed")]
       \/ deleg[r][c].status # "PENDING" /\ UNCHANGED job
    /\ \/ UNCHANGED run
       \/ BatchReady(run[r], job'[r]) /\ run' = [run EXCEPT ![r] = Woken(@, job'[r])]

(* Mutant of Settled: a terminal event that was seen is charged again.      *)
SettledAgain(d, status, child) ==
    [status |-> status, child |-> child, children |-> d.children, over |-> d.over,
     settled |-> d.settled + 1]

(* The delegation with its result, its reservation settled with the child's *)
(* usage; budget.settle ignores a terminal event it has seen.               *)
Settled(d, status, child) ==
    [status |-> status, child |-> child, children |-> d.children, over |-> d.over,
     settled |-> IF d.status = "PENDING" THEN d.settled + 1 ELSE d.settled]

(* _terminal_result: a completed child whose output does not validate       *)
(* counts as failed.  A projection that is repeated must find what it       *)
(* stored.                                                                  *)
TerminalResult(d) ==
    IF d.status # "PENDING" THEN {d.status}
    ELSE CASE d.child = "completed" -> {"COMPLETED", "FAILED"}
           [] d.child = "failed"    -> {"FAILED"}
           [] d.child = "cancelled" -> {"CANCELLED"}

(* project, from the terminal callback or from replay_pending: delegation,  *)
(* settlement, job and wake-up in one transaction.  budget.settle raises    *)
(* for a run that used more than was reserved for it.                       *)
ProjectChild(r, c) ==
    /\ deleg[r][c].child \in ChildEnd /\ ~deleg[r][c].over
    /\ \E status \in TerminalResult(deleg[r][c]) :
          /\ deleg' = [deleg EXCEPT ![r][c] = Settled(@, status, @.child)]
          /\ CompleteSpecialist(r, c, status = "COMPLETED")
    /\ UNCHANGED tw

(* _cancel_invalidated_child: the task moved on before the child started.   *)
CancelInvalidatedChild(r, c) ==
    /\ deleg[r][c].status = "PENDING" /\ deleg[r][c].child = "queued"
    /\ ~run[r].task
    /\ deleg' = [deleg EXCEPT ![r][c] = Settled(@, "CANCELLED", "cancelled")]
    /\ CompleteSpecialist(r, c, FALSE)
    /\ UNCHANGED tw

-----------------------------------------------------------------------------
RunStep(r) == TaskLeaves(r) \/ Wake(r) \/ \E C \in SUBSET Calls : Dispatch(r, C)

JobStep(r, c) ==
    \/ LeaseLapses(r, c)
    \/ DelayElapses(r, c)
    \/ ChildStarts(r, c)
    \/ ChildRetries(r, c)
    \/ ChildEnds(r, c)
    \/ ProjectChild(r, c)
    \/ CancelInvalidatedChild(r, c)

WorkerStep(w) ==
    \/ Start(w)
    \/ Heartbeat(w)
    \/ Execute(w)
    \/ Delegate(w)
    \/ WriteOutcome(w)
    \/ SucceedRaises(w)
    \/ LoseJob(w)
    \/ Vanish(w)

Next ==
    \/ \E r \in Runs : RunStep(r)
    \/ \E r \in Runs, c \in Calls : JobStep(r, c)
    \/ \E w \in Workers : WorkerStep(w)
    \/ \E w \in Workers, r \in Runs, c \in Calls : Claim(w, r, c)
    \/ RecoverExpired

Spec == Init /\ [][Next]_vars

(* A worker that has a job goes on with it.                                 *)
WorkerGoesOn(w) == Start(w) \/ Execute(w) \/ WriteOutcome(w) \/ LoseJob(w)

(* The lease of a worker that is gone runs out.                             *)
LeaseRunsOut(r, c) ==
    /\ ~ \E w \in Workers : tw[w].run = r /\ tw[w].call = c /\ HoldsJob(w)
    /\ LeaseLapses(r, c)

(* Workers poll: each run_once reconciles, recovers and claims.  The child  *)
(* run ends (AgentRuns!RunSettles) however often it is put back.            *)
Fairness ==
    /\ \A w \in Workers : WF_vars(WorkerGoesOn(w))
    /\ WF_vars(RecoverExpired)
    /\ \A r \in Runs : WF_vars(Wake(r))
    /\ \A r \in Runs, c \in Calls :
          /\ WF_vars(\E w \in Workers : Claim(w, r, c))
          /\ WF_vars(LeaseRunsOut(r, c))
          /\ WF_vars(DelayElapses(r, c))
          /\ WF_vars(ChildStarts(r, c))
          /\ SF_vars(ChildEnds(r, c))
          /\ WF_vars(ProjectChild(r, c))

FairSpec == Spec /\ Fairness

-----------------------------------------------------------------------------
(* Properties *)

(* Every variable has its type.                                             *)
TypeOK ==
    /\ run \in [Runs -> Run]
    /\ job \in [Runs -> [Calls -> Job]]
    /\ deleg \in [Runs -> [Calls -> Delegation]]
    /\ tw \in [Workers -> Worker]

(* However claims, crashes, timeouts and lease recoveries interleave, a job *)
(* is started at most max_attempts times, and one that is still to run has  *)
(* an attempt left (repository.py, fail and recover_expired).               *)
AttemptBudget ==
    \A r \in Runs, c \in Calls :
        /\ job[r][c].attempts <= MaxAttempts
        /\ job[r][c].status \in {"queued", "retry_wait"} => job[r][c].attempts < MaxAttempts

(* Two workers never hold the same job, even when one of them lost it to    *)
(* recovery while its handler was running (_lease).                         *)
JobHasOneHolder ==
    \A v, w \in Workers :
        /\ tw[v].pc # "idle" /\ tw[w].pc # "idle"
        /\ tw[v].run = tw[w].run /\ tw[v].call = tw[w].call
        /\ tw[v].token = tw[w].token
        => v = w

(* What the conversation says about a call is what became of its job, and   *)
(* stays so: a late worker or a late specialist never changes a job whose   *)
(* result has been given to the model (wake_if_complete, _lease,            *)
(* complete_specialist).                                                    *)
ResultsAreFinal ==
    \A r \in Runs, c \in Calls :
        run[r].got[c] # "none" => job[r][c].status = run[r].got[c]

(* No job of a run is left open behind its back: a run that is working has  *)
(* none that could still run a tool for it (dispatch, wake_if_complete).    *)
NoOrphanJob ==
    \A r \in Runs, c \in Calls :
        run[r].status = "working" => job[r][c].status \in {"absent"} \cup JobTerminal

(* A worker whose lease was taken away writes nothing: neither an outcome   *)
(* nor a delegation (_lease, _job_fence).                                   *)
LateWorkerChangesNothing ==
    [][\A w \in Workers :
          tw[w].pc \in {"running", "finishing"} /\ JobOf(w).token # tw[w].token
          => /\ tw'[w] # tw[w] => job' = job
             /\ ~(tw'[w].made /\ ~tw[w].made)]_vars

(* However often the delegating job is retried, it gets one child run, and  *)
(* the child's usage is added to the project's at most once (delegate,      *)
(* project, budget.settle).                                                 *)
OneChildOneSettlement ==
    \A r \in Runs, c \in Calls : deleg[r][c].children <= 1 /\ deleg[r][c].settled <= 1

(* A job parked without a lease, which no recovery looks at, always has a   *)
(* delegation whose child will end it (await_specialist); and a delegation  *)
(* that was settled agrees with its child and with its job.                 *)
SpecialistAgrees ==
    \A r \in Runs, c \in Calls :
        LET d == deleg[r][c]
        IN  /\ job[r][c].status = "awaiting_specialist" => d.status = "PENDING"
            /\ d.status \in {"COMPLETED", "FAILED", "CANCELLED"} =>
                  /\ d.child \in ChildEnd /\ d.settled = 1
                  /\ job[r][c].status = IF d.status = "COMPLETED" THEN "succeeded" ELSE "failed"

(* The jobs implement the batch the run parked with.                        *)
Batch == INSTANCE ToolBatch WITH
            phase <- [r \in Runs |-> run[r].status],
            waiting <- [r \in Runs |-> run[r].waiting],
            answer <- [r \in Runs |-> run[r].got]

(* Whatever happens to jobs, leases and specialists, a run sees its batch   *)
(* come back once, whole, and no answer given before changes (coordinator). *)
ImplementsToolBatch == Batch!Spec

(* A parked run comes back (reconcile), as long as call ids are not reused  *)
(* and the specialists stay within their reservations.                      *)
BatchReturns ==
    \A r \in Runs : run[r].status = "awaiting_tool" ~> run[r].status = "working"

(* Jobs, their workers and their specialists agree: attempts are bounded,   *)
(* a job has one holder, nobody works behind a run's back, a delegation has *)
(* one child and one settlement, and a worker that lost its lease writes    *)
(* nothing.                                                                 *)
JobsAgree ==
    /\ [](AttemptBudget /\ JobHasOneHolder /\ NoOrphanJob)
    /\ [](OneChildOneSettlement /\ SpecialistAgrees)
    /\ LateWorkerChangesNothing
=============================================================================
