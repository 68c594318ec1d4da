----------------------------- MODULE Verification -----------------------------
(***************************************************************************)
(* The verification of one structured task (verification/): a submission   *)
(* of an agent run is checked for the integrity of its artifacts, by a     *)
(* sandboxed tool, by an independent agent review and by a person, each    *)
(* once the ones before it passed.                                         *)
(*                                                                         *)
(* verify_run locks the process row and does everything in one             *)
(* transaction; it is called again and again, by the callbacks of runs, by *)
(* the reconcilers of several processes and by the parties of the task,    *)
(* while tool jobs and review runs proceed, people decide, resources are   *)
(* withdrawn and the task itself changes.  A change of the task that is    *)
(* not the submission's own (an assignment, a new deadline) moves          *)
(* updated_at and so makes a waiting verification stale.                   *)
(***************************************************************************)
EXTENDS Naturals, FiniteSets

CONSTANTS
    RunLimit,           \* bound: execution runs of the task
    ToolAttempts,       \* attempts of a verification tool (10 in the code)
    ReviewAttempts,     \* attempts of an agent review (3 in the code)
    VerifierProcesses,  \* processes that run verify_run
    ControlPlane,       \* the one that serves the parties of the task
    ContentReaders      \* those configured with an artifact store

ASSUME VerificationAssumption ==
    /\ RunLimit \in Nat /\ {ToolAttempts, ReviewAttempts} \subseteq Nat \ {0}
    /\ ContentReaders \subseteq VerifierProcesses
    /\ ControlPlane \in VerifierProcesses

Submissions == 1..RunLimit

VARIABLES
    taskRow,        \* status, and the submission that wrote updated_at last (0: none)
    latestRun,      \* the highest execution_attempt of the task
    shared,         \* the submitted resources are still shared with the project
    intact,         \* the artifact store returns the submitted bytes
    evidence,       \* by source run: its binding's result, then its task_verifications row
    checkJob,       \* the tool jobs of a verification by attempt
    agentReview,    \* agent_reviews by attempt, with the review run and its reservation
    humanReview     \* human_reviews

verificationVars == <<taskRow, latestRun, shared, intact, evidence, checkJob,
                      agentReview, humanReview>>

NoEvidence == [status |-> "none", attempt |-> 0]
NoAgentReview == [status |-> "none", run |-> "none", settled |-> FALSE]

VerificationInit ==
    /\ taskRow = [status |-> "accepted", of |-> 0]
    /\ latestRun = 0
    /\ shared = TRUE /\ intact = TRUE
    /\ evidence = [s \in Submissions |-> NoEvidence]
    /\ checkJob = [s \in Submissions |-> [a \in 1..ToolAttempts |-> "none"]]
    /\ agentReview = [s \in Submissions |->
                        [n \in 1..ReviewAttempts |-> NoAgentReview]]
    /\ humanReview = [s \in Submissions |-> "none"]

\* submission_is_current
SubmissionIsCurrent(s) ==
    /\ taskRow = [status |-> "submitted", of |-> s]
    /\ latestRun = s

-----------------------------------------------------------------------------
(* The checks, in the order verify_run makes them *)

Verdict(statuses) ==
    IF "FAIL" \in statuses THEN "FAIL"
    ELSE IF "PENDING" \in statuses THEN "PENDING" ELSE "PASS"

\* The integrity of the artifacts: a process without a store cannot tell.
Baseline(v) ==
    IF v \notin ContentReaders THEN "PENDING"
    ELSE IF intact THEN "PASS" ELSE "FAIL"

\* The tool check: the attempt it pins, the job of that attempt, its status.
\* Without a sound baseline nothing is pinned, not even what was before.
NoToolCheck(s) == [attempt |-> 0, jobs |-> checkJob[s], status |-> "PENDING"]

Enqueued(job) == IF job = "none" THEN "queued" ELSE job

JobVerdict(job) ==
    IF job = "passed" THEN "PASS" ELSE IF job = "failed" THEN "FAIL" ELSE "PENDING"

ToolCheckAt(s, a) ==
    [attempt |-> a,
     jobs    |-> [checkJob[s] EXCEPT ![a] = Enqueued(@)],
     status  |-> JobVerdict(checkJob[s][a])]

PinnedAttempt(s) == IF evidence[s].attempt = 0 THEN 1 ELSE evidence[s].attempt

Retries(s, retry) == retry /\ checkJob[s][PinnedAttempt(s)] = "unusable"

ToolCheck(s, v, retry) ==
    IF Baseline(v) # "PASS" THEN NoToolCheck(s)
    ELSE ToolCheckAt(s, PinnedAttempt(s) + IF Retries(s, retry) THEN 1 ELSE 0)

\* _project: a review whose run is over gets its result and settles the
\* reservation; a submission that changed takes the queued run back.
RunOver(run) == run \in {"passed", "failed", "useless", "cancelled"}

ReviewResult(run) ==
    CASE run = "passed" -> "PASS" [] run = "failed" -> "FAIL" [] OTHER -> "UNAVAILABLE"

Projected(r, current) ==
    LET run == IF ~current /\ r.run = "queued" THEN "cancelled" ELSE r.run
    IN IF r.status # "QUEUED" \/ ~RunOver(run) THEN r
       ELSE [status |-> IF current THEN ReviewResult(run) ELSE "STALE",
             run |-> run, settled |-> TRUE]

Launched(rows) == {n \in 1..ReviewAttempts : rows[n].status # "none"}
Newest(rows) == CHOOSE n \in Launched(rows) : \A m \in Launched(rows) : m <= n

\* The attempt to launch: the first, or one more for an unavailable review.
NextReview(rows, retry) ==
    IF Launched(rows) = {} THEN 1
    ELSE IF retry /\ rows[Newest(rows)].status = "UNAVAILABLE"
    THEN Newest(rows) + 1 ELSE 0

ProjectedReviews(s) ==
    [n \in 1..ReviewAttempts |-> Projected(agentReview[s][n], TRUE)]

\* The agent review: projected if it waits, and launched if one is due and
\* the budget can fund it.
Reviewed(s, retry, funded) ==
    LET rows == ProjectedReviews(s)
        next == NextReview(rows, retry)
    IN IF next # 0 /\ funded
       THEN [rows EXCEPT ![next] = [status |-> "QUEUED", run |-> "queued",
                                    settled |-> FALSE]]
       ELSE rows

ReviewVerdict(rows) ==
    IF Launched(rows) = {} THEN "PENDING"
    ELSE IF rows[Newest(rows)].status \in {"PASS", "FAIL"}
    THEN rows[Newest(rows)].status ELSE "PENDING"

HumanVerdict(h) ==
    CASE h = "ACCEPTED" -> "PASS" [] h = "REJECTED" -> "FAIL" [] OTHER -> "PENDING"

\* (mutation) A person is asked without waiting for the other checks, and
\* what the person says is the verdict.
OutcomeByPerson(s, v, retryTools, retryReviews, funded, h) ==
    [tool |-> ToolCheck(s, v, retryTools),
     rows |-> agentReview[s],
     human |-> IF h = "none" THEN "OPEN" ELSE h,
     status |-> HumanVerdict(h)]

\* What the chain of checks leaves behind for a current submission.
Outcome(s, v, retryTools, retryReviews, funded, h) ==
    LET tool == ToolCheck(s, v, retryTools)
        first == Verdict({Baseline(v), tool.status})
        rows == IF first = "PASS" THEN Reviewed(s, retryReviews, funded)
                                  ELSE agentReview[s]
        second == IF first = "PASS" THEN ReviewVerdict(rows) ELSE first
        human == IF second = "PASS" /\ h = "none" THEN "OPEN" ELSE h
    IN [tool |-> tool, rows |-> rows, human |-> human,
        status |-> IF second = "PASS" THEN HumanVerdict(human) ELSE second]

-----------------------------------------------------------------------------
(* verify_run *)

\* (mutation) A verdict leaves the reviews as they are.
ClosedNot(outcome) == outcome

\* close_stale, of agent and human reviews, after FAIL and STALE.
Closed(outcome) ==
    IF outcome.status \in {"PASS", "PENDING"} THEN outcome
    ELSE [outcome EXCEPT
            !.rows = [n \in 1..ReviewAttempts |-> Projected(@[n], FALSE)],
            !.human = IF @ = "OPEN" THEN "STALE" ELSE @]

\* A submission that is not current is stale; one whose resources were
\* withdrawn has failed.
Examined(s, v, retryTools, retryReviews, funded, h) ==
    LET kept(status, attempt) ==
            [tool |-> [attempt |-> attempt, jobs |-> checkJob[s], status |-> status],
             rows |-> agentReview[s], human |-> h, status |-> status]
    IN IF ~SubmissionIsCurrent(s) THEN kept("STALE", 0)
       ELSE IF ~shared THEN kept("FAIL", 0)
       ELSE Outcome(s, v, retryTools, retryReviews, funded, h)

Record(s, o) ==
    /\ evidence' = [evidence EXCEPT ![s] =
                      [status |-> o.status, attempt |-> o.tool.attempt]]
    /\ checkJob' = [checkJob EXCEPT ![s] = o.tool.jobs]
    /\ agentReview' = [agentReview EXCEPT ![s] = o.rows]
    /\ humanReview' = [humanReview EXCEPT ![s] = o.human]
    /\ taskRow' =
         IF SubmissionIsCurrent(s) /\ o.status \in {"PASS", "FAIL"}
         THEN [status |-> IF o.status = "PASS" THEN "verified" ELSE "changes_requested",
               of |-> 0]
         ELSE taskRow
    /\ UNCHANGED <<latestRun, shared, intact>>

\* The run has submitted, and its verification has no verdict.
Verifiable(s) == evidence[s].status \in {"submitted", "PENDING"}

\* verify_run, for a callback, a reconciler or a party of the task; only a
\* party may retry, and an exhausted retry is refused.
VerifyRun(s, v, retryTools, retryReviews, funded) ==
    /\ Verifiable(s)
    /\ retryTools \/ retryReviews => v = ControlPlane
    /\ Retries(s, retryTools) => PinnedAttempt(s) < ToolAttempts
    /\ NextReview(ProjectedReviews(s), retryReviews) <= ReviewAttempts
    /\ Record(s, Closed(Examined(s, v, retryTools, retryReviews, funded, humanReview[s])))

\* The source team decides a human review; the verification follows in the
\* same transaction.
DecideHumanReview(s, accept, funded) ==
    /\ humanReview[s] = "OPEN"
    /\ evidence[s].status = "PENDING" /\ SubmissionIsCurrent(s) /\ shared
    /\ Record(s, Closed(Examined(s, ControlPlane, FALSE, FALSE, funded,
                                 IF accept THEN "ACCEPTED" ELSE "REJECTED")))

\* project_terminal: the callback or the replay of an agent review's run.
ProjectTerminal(s, n) ==
    LET r == agentReview[s][n]
        current == evidence[s].status = "PENDING" /\ SubmissionIsCurrent(s) /\ shared
    IN /\ r.status = "QUEUED" /\ Projected(r, current) # r
       /\ agentReview' = [agentReview EXCEPT ![s][n] = Projected(r, current)]
       /\ UNCHANGED <<taskRow, latestRun, shared, intact, evidence, checkJob, humanReview>>

-----------------------------------------------------------------------------
(* What goes on around it *)

\* The tool worker runs the job: a verdict, or nothing usable.
FinishJob(s, a) ==
    /\ checkJob[s][a] = "queued"
    /\ \E result \in {"passed", "failed", "unusable"} :
          checkJob' = [checkJob EXCEPT ![s][a] = result]
    /\ UNCHANGED <<taskRow, latestRun, shared, intact, evidence, agentReview, humanReview>>

\* The review's run is claimed, and ends.
StepReviewRun(s, n) ==
    /\ agentReview[s][n].run \in {"queued", "running"}
    /\ \E run \in IF agentReview[s][n].run = "queued" THEN {"running"}
                  ELSE {"passed", "failed", "useless"} :
          agentReview' = [agentReview EXCEPT ![s][n].run = run]
    /\ UNCHANGED <<taskRow, latestRun, shared, intact, evidence, checkJob, humanReview>>

\* The dispatcher starts the next run of the task.
StartExecution ==
    /\ taskRow.status \in {"accepted", "changes_requested"} /\ latestRun < RunLimit
    /\ latestRun' = latestRun + 1
    /\ taskRow' = [status |-> "in_progress", of |-> 0]
    /\ UNCHANGED <<shared, intact, evidence, checkJob, agentReview, humanReview>>

\* The result of the latest run is projected onto the task.
SubmitResult ==
    /\ taskRow.status = "in_progress"
    /\ \/ /\ taskRow' = [status |-> "submitted", of |-> latestRun]
          /\ evidence' = [evidence EXCEPT ![latestRun].status = "submitted"]
          /\ shared' = TRUE
       \/ /\ taskRow' = [status |-> "changes_requested", of |-> 0]
          /\ UNCHANGED <<evidence, shared>>
    /\ UNCHANGED <<latestRun, intact, checkJob, agentReview, humanReview>>

\* People send the task back, integration asks for rework, or the task is
\* assigned or rescheduled: updated_at is no longer the submission's.
ChangeTask ==
    /\ \/ /\ taskRow.status \in {"submitted", "verified"}
          /\ taskRow' = [status |-> "changes_requested", of |-> 0]
       \/ /\ taskRow.of # 0
          /\ taskRow' = [taskRow EXCEPT !.of = 0]
    /\ UNCHANGED <<latestRun, shared, intact, evidence, checkJob, agentReview, humanReview>>

WithdrawResource ==
    /\ shared /\ shared' = FALSE
    /\ UNCHANGED <<taskRow, latestRun, intact, evidence, checkJob, agentReview, humanReview>>

LoseContent ==
    /\ intact /\ intact' = FALSE
    /\ UNCHANGED <<taskRow, latestRun, shared, evidence, checkJob, agentReview, humanReview>>

VerificationNext ==
    \/ \E s \in Submissions, funded \in BOOLEAN :
         \/ \E v \in VerifierProcesses, retryTools, retryReviews \in BOOLEAN :
               VerifyRun(s, v, retryTools, retryReviews, funded)
         \/ \E accept \in BOOLEAN : DecideHumanReview(s, accept, funded)
    \/ \E s \in Submissions, n \in 1..ReviewAttempts :
          ProjectTerminal(s, n) \/ StepReviewRun(s, n)
    \/ \E s \in Submissions, a \in 1..ToolAttempts : FinishJob(s, a)
    \/ StartExecution \/ SubmitResult \/ ChangeTask \/ WithdrawResource \/ LoseContent

VerificationSpec == VerificationInit /\ [][VerificationNext]_verificationVars

(***************************************************************************)
(* A verified task rests on evidence about the latest run alone: its       *)
(* verification passed, a tool job of it passed, an independent review of  *)
(* it passed and a person accepted it, whoever called verify_run when      *)
(* (service.py, agent_reviews.py, human_reviews.py).                       *)
(***************************************************************************)
VerifiedOnEvidence ==
    taskRow.status = "verified" =>
        /\ evidence[latestRun].status = "PASS"
        /\ \E a \in 1..ToolAttempts : checkJob[latestRun][a] = "passed"
        /\ \E n \in 1..ReviewAttempts : agentReview[latestRun][n].status = "PASS"
        /\ humanReview[latestRun] = "ACCEPTED"

(***************************************************************************)
(* Nobody is left with a review that decides nothing: an open human review *)
(* belongs to a pending verification, and a review run that has not begun  *)
(* to one as well (close_stale).                                           *)
(***************************************************************************)
ReviewsEndWithTheirVerification ==
    \A s \in Submissions :
        evidence[s].status \in {"PASS", "FAIL", "STALE"} =>
            /\ humanReview[s] # "OPEN"
            /\ \A n \in 1..ReviewAttempts : agentReview[s][n].run # "queued"

\* Verification is sound: only evidence about the latest run verifies a
\* task, and a verification that is over leaves no review to be answered.
VerificationIsSound == VerifiedOnEvidence /\ ReviewsEndWithTheirVerification
=============================================================================
