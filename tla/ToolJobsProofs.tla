--------------------------- MODULE ToolJobsProofs ---------------------------
(* Machine-checked proofs about ToolJobs, for any number of runs, calls,     *)
(* workers and attempts.                                                     *)
EXTENDS ToolJobs, TLAPS

-----------------------------------------------------------------------------
(* What one step does to a job and to a run *)

(* The ways a step changes a job that exists: not at all; it is claimed;     *)
(* started; its lease or delay runs out or is renewed; its attempt ends.     *)
Works(j, k) ==
    \/ k = j
    \/ /\ j.status \in {"queued", "retry_wait"}
       /\ k = [status |-> "leased", attempts |-> j.attempts + 1,
               token |-> j.attempts + 1, lapsed |-> FALSE, delayed |-> FALSE]
    \/ /\ j.status = "leased" /\ k = [j EXCEPT !.status = "running"]
    \/ \E b \in BOOLEAN : k = [j EXCEPT !.lapsed = b] \/ k = [j EXCEPT !.delayed = b]
    \/ /\ j.status \in JobLeased /\ k = AfterAttempt(j)
    \/ /\ j.status = "running"
       /\ \E s \in {"succeeded", "failed", "awaiting_specialist"} : k = Released(j, s)
    \/ /\ j.status = "awaiting_specialist"
       /\ \E s \in {"succeeded", "failed"} : k = Released(j, s)

JobMoves(j, k) ==
    Works(j, k) \/ (j.status = "absent" /\ k = [j EXCEPT !.status = "queued"])

(* The ways a step changes a run, seen with the jobs after the step.         *)
RunMoves(x, y, J) ==
    \/ y.status = x.status /\ y.waiting = x.waiting /\ y.got = x.got
    \/ /\ x.status = "working" /\ y.status = "awaiting_tool"
       /\ y.waiting \in SUBSET Calls /\ y.waiting # {} /\ y.got = x.got
    \/ BatchReady(x, J) /\ y = Woken(x, J)

LEMMA ReleasedType ==
    ASSUME NEW j \in Job, NEW s \in JobStatus
    PROVE  Released(j, s) \in Job
<1> DEFINE d == s = "retry_wait"
<1>1. d \in BOOLEAN
  OBVIOUS
<1> HIDE DEF d
<1>2. Released(j, s) = [status |-> s, attempts |-> j.attempts, token |-> 0,
                        lapsed |-> FALSE, delayed |-> d]
  BY Zenon DEF Released, d
<1>3. QED BY <1>1, <1>2 DEF Job

LEMMA ReleasedFields ==
    ASSUME NEW j, NEW s
    PROVE  /\ Released(j, s).status = s /\ Released(j, s).attempts = j.attempts
           /\ Released(j, s).token = 0
BY DEF Released

LEMMA Statuses ==
    /\ \A s \in {"absent", "queued", "leased", "running", "retry_wait",
                 "awaiting_specialist", "succeeded", "failed"} : s \in JobStatus
    /\ JobLeased \subseteq JobStatus /\ JobTerminal \subseteq JobStatus
BY DEF JobStatus, JobLeased, JobTerminal

LEMMA AttemptType ==
    ASSUME NEW j \in Job
    PROVE  AfterAttempt(j) \in Job
BY ReleasedType, Statuses DEF AfterAttempt

LEMMA MovesType ==
    ASSUME NEW j \in Job, NEW k, JobMoves(j, k)
    PROVE  k \in Job
<1>1. CASE k = j
  BY <1>1
<1>2. CASE j.status = "absent" /\ k = [j EXCEPT !.status = "queued"]
  BY <1>2, Statuses DEF Job
<1>3. CASE k = [status |-> "leased", attempts |-> j.attempts + 1,
                token |-> j.attempts + 1, lapsed |-> FALSE, delayed |-> FALSE]
  BY <1>3, Statuses DEF Job
<1>4. CASE k = [j EXCEPT !.status = "running"]
  BY <1>4, Statuses DEF Job
<1>5. CASE \E b \in BOOLEAN : k = [j EXCEPT !.lapsed = b] \/ k = [j EXCEPT !.delayed = b]
  BY <1>5 DEF Job
<1>6. CASE k = AfterAttempt(j)
  BY <1>6, AttemptType
<1>7. CASE \E s \in {"succeeded", "failed", "awaiting_specialist"} : k = Released(j, s)
  BY <1>7, ReleasedType, Statuses
<1>8. CASE \E s \in {"succeeded", "failed"} : k = Released(j, s)
  BY <1>8, ReleasedType, Statuses
<1> QED BY <1>1, <1>2, <1>3, <1>4, <1>5, <1>6, <1>7, <1>8 DEF JobMoves, Works

-----------------------------------------------------------------------------
(* The base invariant *)

(* A job that may still be claimed has an attempt left.                      *)
AttemptsLeft ==
    \A r \in Runs, c \in Calls :
        /\ job[r][c].attempts <= MaxAttempts
        /\ job[r][c].status \in {"absent", "queued", "retry_wait"} =>
              job[r][c].attempts < MaxAttempts

(* A busy worker works for a job, with the number of one of its attempts.    *)
WorkerShape ==
    \A w \in Workers :
        /\ tw[w].pc # "idle" =>
              /\ tw[w].run \in Runs /\ tw[w].call \in Calls
              /\ 1 <= tw[w].token /\ tw[w].token <= job[tw[w].run][tw[w].call].attempts
        /\ tw[w].pc = "finishing" => tw[w].outcome # "none"

Base == TypeOK /\ AttemptsLeft /\ WorkerShape

(* Every job moved as a step may move it.                                    *)
JobsMove ==
    /\ job' \in [Runs -> [Calls -> Job]]
    /\ \A r \in Runs, c \in Calls : JobMoves(job[r][c], job'[r][c])

(* ... and none was enqueued.                                                *)
JobsWork ==
    /\ job' \in [Runs -> [Calls -> Job]]
    /\ \A r \in Runs, c \in Calls : Works(job[r][c], job'[r][c])

LEMMA MoveNothing == \A j : Works(j, j)
BY DEF Works

LEMMA JobsStay ==
    ASSUME Base, job' = job
    PROVE  JobsWork
BY DEF Base, TypeOK, JobsWork, Works

LEMMA OneJobMoves ==
    ASSUME Base, NEW r \in Runs, NEW c \in Calls, NEW k,
           Works(job[r][c], k), job' = [job EXCEPT ![r][c] = k]
    PROVE  JobsWork
<1>1. job \in [Runs -> [Calls -> Job]]
  BY DEF Base, TypeOK
<1>2. k \in Job
  BY <1>1, MovesType DEF JobMoves
<1>3. job' \in [Runs -> [Calls -> Job]]
  BY <1>1, <1>2
<1>4. \A q \in Runs, d \in Calls : job'[q][d] = job[q][d] \/ (q = r /\ d = c /\ job'[q][d] = k)
  BY <1>1
<1>5. \A q \in Runs, d \in Calls : Works(job[q][d], job'[q][d])
  BY <1>4, MoveNothing
<1> QED BY <1>3, <1>5 DEF JobsWork

LEMMA DispatchMoves ==
    ASSUME Base, NEW r \in Runs, NEW C \in SUBSET Calls, Dispatch(r, C)
    PROVE  JobsMove
<1>1. job \in [Runs -> [Calls -> Job]]
  BY DEF Base, TypeOK
<1>2. job' = [job EXCEPT ![r] = [c \in Calls |-> IF c \in C THEN Enqueued(job[r][c])
                                                 ELSE job[r][c]]]
  BY DEF Dispatch
<1>3. \A q \in Runs, d \in Calls :
         job'[q][d] = job[q][d] \/ job'[q][d] = Enqueued(job[q][d])
  BY <1>1, <1>2
<1>4. \A j \in Job : JobMoves(j, Enqueued(j))
  BY MoveNothing DEF Enqueued, JobMoves
<1>5. \A q \in Runs, d \in Calls : JobMoves(job[q][d], job'[q][d])
  BY <1>1, <1>3, <1>4, MoveNothing DEF JobMoves
<1>6. \A j \in Job : Enqueued(j) \in Job
  BY Statuses DEF Enqueued, Job
<1>7. job' \in [Runs -> [Calls -> Job]]
  BY <1>1, <1>2, <1>6
<1> QED BY <1>5, <1>7 DEF JobsMove

LEMMA ClaimMoves ==
    ASSUME Base, NEW w \in Workers, NEW r \in Runs, NEW c \in Calls, Claim(w, r, c)
    PROVE  JobsWork
<1> DEFINE n == job[r][c].attempts + 1
<1> DEFINE k == [status |-> "leased", attempts |-> n, token |-> n,
                 lapsed |-> FALSE, delayed |-> FALSE]
<1>1. job' = [job EXCEPT ![r][c] = k] /\ job[r][c].status \in {"queued", "retry_wait"}
  BY DEF Claim
<1>2. Works(job[r][c], k)
  BY <1>1 DEF Works
<1> HIDE DEF k
<1> QED BY <1>1, <1>2, OneJobMoves

LEMMA StartMoves ==
    ASSUME Base, NEW w \in Workers, Start(w)
    PROVE  JobsWork
<1>1. PICK r \in Runs, c \in Calls : r = tw[w].run /\ c = tw[w].call
  BY DEF Base, WorkerShape, Start
<1> DEFINE k == [job[r][c] EXCEPT !.status = "running"]
<1>2. job' = [job EXCEPT ![r][c] = k] /\ job[r][c].status = "leased"
  BY <1>1 DEF Start, JobOf
<1>3. Works(job[r][c], k)
  BY <1>2 DEF Works
<1> HIDE DEF k
<1> QED BY <1>2, <1>3, OneJobMoves

LEMMA HeartbeatMoves ==
    ASSUME Base, NEW w \in Workers, Heartbeat(w)
    PROVE  JobsWork
<1>1. PICK r \in Runs, c \in Calls : r = tw[w].run /\ c = tw[w].call
  BY DEF Base, WorkerShape, Heartbeat
<1> DEFINE k == [job[r][c] EXCEPT !.lapsed = FALSE]
<1>2. job' = [job EXCEPT ![r][c] = k]
  BY <1>1 DEF Heartbeat
<1>3. Works(job[r][c], k)
  BY DEF Works
<1> HIDE DEF k
<1> QED BY <1>2, <1>3, OneJobMoves

LEMMA ClockMoves ==
    ASSUME Base, NEW r \in Runs, NEW c \in Calls, LeaseLapses(r, c) \/ DelayElapses(r, c)
    PROVE  JobsWork
<1>1. CASE LeaseLapses(r, c)
  <2> DEFINE k == [job[r][c] EXCEPT !.lapsed = TRUE]
  <2>1. job' = [job EXCEPT ![r][c] = k]
    BY <1>1 DEF LeaseLapses
  <2>2. Works(job[r][c], k)
    BY DEF Works
  <2> HIDE DEF k
  <2> QED BY <2>1, <2>2, OneJobMoves
<1>2. CASE DelayElapses(r, c)
  <2> DEFINE k == [job[r][c] EXCEPT !.delayed = FALSE]
  <2>1. job' = [job EXCEPT ![r][c] = k]
    BY <1>2 DEF DelayElapses
  <2>2. Works(job[r][c], k)
    BY DEF Works
  <2> HIDE DEF k
  <2> QED BY <2>1, <2>2, OneJobMoves
<1> QED BY <1>1, <1>2

LEMMA RecoverMoves ==
    ASSUME Base, RecoverExpired
    PROVE  JobsWork
<1>1. PICK S \in SUBSET {k \in Runs \X Calls : /\ job[k[1]][k[2]].status \in JobLeased
                                               /\ job[k[1]][k[2]].lapsed} :
         job' = [r \in Runs |-> [c \in Calls |->
                   IF <<r, c>> \in S THEN AfterAttempt(job[r][c]) ELSE job[r][c]]]
  BY DEF RecoverExpired
<1>2. \A r \in Runs, c \in Calls : <<r, c>> \in S => job[r][c].status \in JobLeased
  OBVIOUS
<1>3. \A r \in Runs, c \in Calls :
         \/ job'[r][c] = job[r][c]
         \/ job[r][c].status \in JobLeased /\ job'[r][c] = AfterAttempt(job[r][c])
  BY <1>1, <1>2
<1>4. job \in [Runs -> [Calls -> Job]]
  BY DEF Base, TypeOK
<1>5. \A j \in Job : AfterAttempt(j) \in Job
  BY AttemptType
<1>6. job' \in [Runs -> [Calls -> Job]]
  BY <1>1, <1>4, <1>5
<1> QED BY <1>3, <1>6 DEF JobsWork, Works

LEMMA OutcomeMoves ==
    ASSUME Base, NEW w \in Workers, WriteOutcome(w)
    PROVE  JobsWork
<1>1. PICK r \in Runs, c \in Calls : r = tw[w].run /\ c = tw[w].call
  BY DEF Base, WorkerShape, WriteOutcome
<1> DEFINE k == AfterOutcome(job[r][c], tw[w].outcome)
<1>2. job' = [job EXCEPT ![r][c] = k] /\ job[r][c].status = "running"
  BY <1>1 DEF WriteOutcome, JobOf
<1>3. tw[w].outcome \in {"ok", "retry", "permanent", "await"}
  BY DEF Base, WorkerShape, TypeOK, Worker, Outcome, WriteOutcome
<1>4. Works(job[r][c], k)
  BY <1>2, <1>3 DEF Works, AfterOutcome, JobLeased
<1> HIDE DEF k
<1> QED BY <1>2, <1>4, OneJobMoves

LEMMA CompleteMoves ==
    ASSUME Base, NEW r \in Runs, NEW c \in Calls, NEW ok \in BOOLEAN,
           CompleteSpecialist(r, c, ok)
    PROVE  JobsWork
<1> DEFINE k == Released(job[r][c], IF ok THEN "succeeded" ELSE "failed")
<1>1. CASE job[r][c].status = "awaiting_specialist" /\ job' = [job EXCEPT ![r][c] = k]
  <2>1. Works(job[r][c], k)
    BY <1>1 DEF Works
  <2> HIDE DEF k
  <2> QED BY <1>1, <2>1, OneJobMoves
<1>2. CASE job' = job
  BY <1>2, JobsStay
<1> QED BY <1>1, <1>2 DEF CompleteSpecialist

(* Projecting or cancelling a child completes its job.                       *)
LEMMA ChildMoves ==
    ASSUME Base, NEW r \in Runs, NEW c \in Calls,
           ProjectChild(r, c) \/ CancelInvalidatedChild(r, c)
    PROVE  \E ok \in BOOLEAN : CompleteSpecialist(r, c, ok)
<1>1. CASE ProjectChild(r, c)
  <2>1. PICK status : CompleteSpecialist(r, c, status = "COMPLETED")
    BY <1>1 DEF ProjectChild
  <2>2. (status = "COMPLETED") \in BOOLEAN
    OBVIOUS
  <2> QED BY <2>1, <2>2, Zenon
<1>2. CASE CancelInvalidatedChild(r, c)
  <2>1. CompleteSpecialist(r, c, FALSE)
    BY <1>2 DEF CancelInvalidatedChild
  <2> QED BY <2>1
<1> QED BY <1>1, <1>2

(* Any step but a dispatch.                                                  *)
LEMMA NextWorks ==
    ASSUME Base, [Next]_vars, ~ \E r \in Runs, C \in SUBSET Calls : Dispatch(r, C)
    PROVE  JobsWork
<1>1. CASE vars' = vars
  BY <1>1, JobsStay DEF vars
<1>2. CASE \E r \in Runs : RunStep(r)
  <2>1. PICK r \in Runs : RunStep(r)
    BY <1>2
  <2>2. CASE TaskLeaves(r) \/ Wake(r)
    BY <2>2, JobsStay DEF TaskLeaves, Wake
  <2> QED BY <2>1, <2>2 DEF RunStep
<1>3. CASE \E r \in Runs, c \in Calls : JobStep(r, c)
  <2>1. PICK r \in Runs, c \in Calls : JobStep(r, c)
    BY <1>3
  <2>2. CASE LeaseLapses(r, c) \/ DelayElapses(r, c)
    BY <2>2, ClockMoves
  <2>3. CASE ChildStarts(r, c) \/ ChildRetries(r, c) \/ ChildEnds(r, c)
    BY <2>3, JobsStay DEF ChildStarts, ChildRetries, ChildEnds
  <2>4. CASE ProjectChild(r, c) \/ CancelInvalidatedChild(r, c)
    BY <2>4, ChildMoves, CompleteMoves
  <2> QED BY <2>1, <2>2, <2>3, <2>4 DEF JobStep
<1>4. CASE \E w \in Workers : WorkerStep(w)
  <2>1. PICK w \in Workers : WorkerStep(w)
    BY <1>4
  <2>2. CASE Execute(w) \/ Delegate(w) \/ SucceedRaises(w) \/ LoseJob(w) \/ Vanish(w)
    BY <2>2, JobsStay DEF Execute, Delegate, SucceedRaises, LoseJob, Vanish
  <2> QED BY <2>1, <2>2, StartMoves, HeartbeatMoves, OutcomeMoves DEF WorkerStep
<1>5. CASE \E w \in Workers, r \in Runs, c \in Calls : Claim(w, r, c)
  BY <1>5, ClaimMoves
<1>6. CASE RecoverExpired
  BY <1>6, RecoverMoves
<1> QED BY <1>1, <1>2, <1>3, <1>4, <1>5, <1>6 DEF Next

LEMMA NextMoves ==
    ASSUME Base, [Next]_vars
    PROVE  JobsMove
<1>1. CASE \E r \in Runs, C \in SUBSET Calls : Dispatch(r, C)
  BY <1>1, DispatchMoves
<1>2. CASE ~ \E r \in Runs, C \in SUBSET Calls : Dispatch(r, C)
  <2>1. JobsWork
    BY <1>2, NextWorks
  <2> QED BY <2>1 DEF JobsWork, JobsMove, JobMoves
<1> QED BY <1>1, <1>2

-----------------------------------------------------------------------------
(* Runs *)

(* At most one run moved, as a step may move it.                             *)
RunsMove ==
    /\ run' \in [Runs -> Run]
    /\ \/ run' = run
       \/ \E r \in Runs : /\ RunMoves(run[r], run'[r], job'[r])
                          /\ \A q \in Runs \ {r} : run'[q] = run[q]

LEMMA WokenType ==
    ASSUME NEW x \in Run, NEW J
    PROVE  Woken(x, J) \in Run
BY DEF Woken, Run

LEMMA RunsStay ==
    ASSUME Base, run' = run
    PROVE  RunsMove
BY DEF Base, TypeOK, RunsMove

LEMMA WakeMoves ==
    ASSUME Base, NEW r \in Runs, BatchReady(run[r], job'[r]),
           run' = [run EXCEPT ![r] = Woken(@, job'[r])]
    PROVE  RunsMove
<1>1. run \in [Runs -> Run]
  BY DEF Base, TypeOK
<1>2. run' \in [Runs -> Run]
  BY <1>1, WokenType
<1>3. run'[r] = Woken(run[r], job'[r]) /\ \A q \in Runs \ {r} : run'[q] = run[q]
  BY <1>1
<1> QED BY <1>2, <1>3 DEF RunsMove, RunMoves

LEMMA DispatchRunMoves ==
    ASSUME Base, NEW r \in Runs, NEW C \in SUBSET Calls, Dispatch(r, C)
    PROVE  RunsMove
<1>1. run \in [Runs -> Run]
  BY DEF Base, TypeOK
<1>2. run' \in [Runs -> Run]
  BY <1>1 DEF Dispatch, Run
<1>3. \A q \in Runs \ {r} : run'[q] = run[q]
  BY <1>1 DEF Dispatch
<1>4. /\ run[r].status = "working" /\ run'[r].status = "awaiting_tool"
      /\ run'[r].waiting = C /\ C # {} /\ run'[r].got = run[r].got
  BY <1>1 DEF Dispatch
<1> QED BY <1>2, <1>3, <1>4 DEF RunsMove, RunMoves

LEMMA NextRunMoves ==
    ASSUME Base, [Next]_vars
    PROVE  RunsMove
<1>1. CASE vars' = vars
  BY <1>1, RunsStay DEF vars
<1>2. CASE \E r \in Runs : RunStep(r)
  <2>1. PICK r \in Runs : RunStep(r)
    BY <1>2
  <2>2. CASE TaskLeaves(r)
    <3>1. run \in [Runs -> Run]
      BY DEF Base, TypeOK
    <3>2. run' \in [Runs -> Run]
      BY <2>2, <3>1 DEF TaskLeaves, Run
    <3>3. /\ run'[r].status = run[r].status /\ run'[r].waiting = run[r].waiting
          /\ run'[r].got = run[r].got
      BY <2>2, <3>1 DEF TaskLeaves, Run
    <3>4. \A q \in Runs \ {r} : run'[q] = run[q]
      BY <2>2, <3>1 DEF TaskLeaves
    <3> QED BY <3>2, <3>3, <3>4 DEF RunsMove, RunMoves
  <2>3. CASE Wake(r)
    BY <2>3, WakeMoves DEF Wake
  <2>4. CASE \E C \in SUBSET Calls : Dispatch(r, C)
    BY <2>4, DispatchRunMoves
  <2> QED BY <2>1, <2>2, <2>3, <2>4 DEF RunStep
<1>3. CASE \E r \in Runs, c \in Calls : JobStep(r, c)
  <2>1. PICK r \in Runs, c \in Calls : JobStep(r, c)
    BY <1>3
  <2>2. CASE LeaseLapses(r, c) \/ DelayElapses(r, c)
             \/ ChildStarts(r, c) \/ ChildRetries(r, c) \/ ChildEnds(r, c)
    BY <2>2, RunsStay DEF LeaseLapses, DelayElapses, ChildStarts, ChildRetries, ChildEnds
  <2>3. CASE ProjectChild(r, c) \/ CancelInvalidatedChild(r, c)
    <3>1. PICK ok \in BOOLEAN : CompleteSpecialist(r, c, ok)
      BY <2>3, ChildMoves
    <3>2. \/ run' = run
          \/ BatchReady(run[r], job'[r]) /\ run' = [run EXCEPT ![r] = Woken(@, job'[r])]
      BY <3>1 DEF CompleteSpecialist
    <3> QED BY <3>2, RunsStay, WakeMoves
  <2> QED BY <2>1, <2>2, <2>3 DEF JobStep
<1>4. CASE \E w \in Workers : WorkerStep(w)
  BY <1>4, RunsStay DEF WorkerStep, Start, Heartbeat, Execute, Delegate, WriteOutcome,
     SucceedRaises, LoseJob, Vanish
<1>5. CASE \E w \in Workers, r \in Runs, c \in Calls : Claim(w, r, c)
  BY <1>5, RunsStay DEF Claim
<1>6. CASE RecoverExpired
  BY <1>6, RunsStay DEF RecoverExpired
<1> QED BY <1>1, <1>2, <1>3, <1>4, <1>5, <1>6 DEF Next

-----------------------------------------------------------------------------
(* Workers *)

(* The worker goes on with the job it has.                                   *)
GoesOn(w) ==
    /\ tw[w].pc # "idle" /\ tw'[w].pc # "idle"
    /\ tw'[w].run = tw[w].run /\ tw'[w].call = tw[w].call /\ tw'[w].token = tw[w].token
    /\ tw'[w].pc = "finishing" => tw'[w].outcome # "none"

(* No worker takes a new job in this step.                                   *)
NobodyClaims ==
    \A w \in Workers : tw'[w] = tw[w] \/ tw'[w] = IdleWorker \/ GoesOn(w)

LEMMA IdleType == IdleWorker \in Worker
BY JobLimits DEF IdleWorker, Worker, Outcome

LEMMA ClaimWorkers ==
    ASSUME Base, NEW w \in Workers, NEW r \in Runs, NEW c \in Calls, Claim(w, r, c)
    PROVE  /\ tw' \in [Workers -> Worker]
           /\ \A v \in Workers : v # w => tw'[v] = tw[v]
           /\ tw'[w].pc = "claimed" /\ tw'[w].run = r /\ tw'[w].call = c
           /\ tw'[w].token = job[r][c].attempts + 1
           /\ job'[r][c].attempts = job[r][c].attempts + 1
           /\ job[r][c].attempts \in Nat
<1>1. tw \in [Workers -> Worker] /\ job \in [Runs -> [Calls -> Job]]
  BY DEF Base, TypeOK
<1>2. job[r][c].attempts \in Nat
  BY <1>1 DEF Job
<1> DEFINE n == job[r][c].attempts + 1
<1>3. tw' = [tw EXCEPT ![w] = [pc |-> "claimed", run |-> r, call |-> c, token |-> n,
                               made |-> FALSE, outcome |-> "none"]]
  BY DEF Claim
<1>4. [pc |-> "claimed", run |-> r, call |-> c, token |-> n,
       made |-> FALSE, outcome |-> "none"] \in Worker
  BY <1>2 DEF Worker, Outcome
<1>5. job'[r][c].attempts = n
  BY <1>1 DEF Claim
<1> QED BY <1>1, <1>2, <1>3, <1>4, <1>5

LEMMA WorkersGoOn ==
    ASSUME Base, NEW w \in Workers, WorkerStep(w)
    PROVE  tw' \in [Workers -> Worker] /\ NobodyClaims
<1>1. tw \in [Workers -> Worker]
  BY DEF Base, TypeOK
<1>2. CASE Start(w)
  <2>1. tw' = [tw EXCEPT ![w].pc = "running"] /\ tw[w].pc = "claimed"
    BY <1>2 DEF Start
  <2> QED BY <1>1, <2>1 DEF NobodyClaims, GoesOn, Worker
<1>3. CASE Heartbeat(w)
  BY <1>1, <1>3 DEF Heartbeat, NobodyClaims
<1>4. CASE Execute(w)
  <2>1. PICK o \in {"ok", "retry", "permanent", "await"} :
           tw' = [tw EXCEPT ![w] = Finishing(@, o)]
    BY <1>4 DEF Execute
  <2>2. Finishing(tw[w], o) \in Worker
    BY <1>1 DEF Finishing, Worker, Outcome
  <2>3. tw' \in [Workers -> Worker]
    BY <1>1, <2>1, <2>2
  <2>4. tw'[w] = Finishing(tw[w], o) /\ \A v \in Workers : v # w => tw'[v] = tw[v]
    BY <1>1, <2>1
  <2>5. tw[w].pc = "running"
    BY <1>4 DEF Execute
  <2>6. GoesOn(w)
    BY <2>4, <2>5 DEF GoesOn, Finishing
  <2> QED BY <2>3, <2>4, <2>6 DEF NobodyClaims
<1>5. CASE Delegate(w)
  <2>1. tw' = [tw EXCEPT ![w].made = TRUE] /\ tw[w].pc # "idle"
    BY <1>5 DEF Delegate
  <2>2. tw' \in [Workers -> Worker]
    BY <1>1, <2>1 DEF Worker
  <2>3. /\ tw'[w].pc = tw[w].pc /\ tw'[w].run = tw[w].run /\ tw'[w].call = tw[w].call
        /\ tw'[w].token = tw[w].token /\ tw'[w].outcome = tw[w].outcome
    BY <1>1, <2>1 DEF Worker
  <2>4. \A v \in Workers : v # w => tw'[v] = tw[v]
    BY <1>1, <2>1
  <2>5. tw[w].pc = "finishing" => tw[w].outcome # "none"
    BY DEF Base, WorkerShape
  <2> QED BY <2>1, <2>2, <2>3, <2>4, <2>5 DEF NobodyClaims, GoesOn
<1>6. CASE SucceedRaises(w)
  <2>1. tw' = [tw EXCEPT ![w].outcome = "permanent"] /\ tw[w].pc = "finishing"
    BY <1>6 DEF SucceedRaises
  <2> QED BY <1>1, <2>1 DEF NobodyClaims, GoesOn, Worker, Outcome
<1>7. CASE WriteOutcome(w) \/ LoseJob(w) \/ Vanish(w)
  <2>1. tw' = [tw EXCEPT ![w] = IdleWorker]
    BY <1>7 DEF WriteOutcome, LoseJob, Vanish
  <2> QED BY <1>1, <2>1, IdleType DEF NobodyClaims
<1> QED BY <1>2, <1>3, <1>4, <1>5, <1>6, <1>7 DEF WorkerStep

LEMMA OthersKeepWorkers ==
    ASSUME Base, tw' = tw
    PROVE  tw' \in [Workers -> Worker] /\ NobodyClaims
BY DEF Base, TypeOK, NobodyClaims

(* Any step but a claim.                                                     *)
LEMMA NextWorkers ==
    ASSUME Base, [Next]_vars,
           ~ \E w \in Workers, r \in Runs, c \in Calls : Claim(w, r, c)
    PROVE  tw' \in [Workers -> Worker] /\ NobodyClaims
<1>1. CASE vars' = vars
  BY <1>1, OthersKeepWorkers DEF vars
<1>2. CASE \E r \in Runs : RunStep(r)
  BY <1>2, OthersKeepWorkers DEF RunStep, TaskLeaves, Wake, Dispatch
<1>3. CASE \E r \in Runs, c \in Calls : JobStep(r, c)
  BY <1>3, OthersKeepWorkers DEF JobStep, LeaseLapses, DelayElapses, ChildStarts,
     ChildRetries, ChildEnds, ProjectChild, CancelInvalidatedChild
<1>4. CASE \E w \in Workers : WorkerStep(w)
  BY <1>4, WorkersGoOn
<1>5. CASE RecoverExpired
  BY <1>5, OthersKeepWorkers DEF RecoverExpired
<1> QED BY <1>1, <1>2, <1>3, <1>4, <1>5 DEF Next

-----------------------------------------------------------------------------
(* The delegations stay typed.                                               *)

LEMMA SettledType ==
    ASSUME NEW d \in Delegation,
           NEW s \in {"PENDING", "COMPLETED", "FAILED", "CANCELLED", "none"},
           NEW x \in {"none", "queued", "active"} \cup ChildEnd
    PROVE  Settled(d, s, x) \in Delegation
BY DEF Settled, Delegation

LEMMA DelegationsTyped ==
    ASSUME Base, [Next]_vars
    PROVE  deleg' \in [Runs -> [Calls -> Delegation]]
<1>0. deleg \in [Runs -> [Calls -> Delegation]]
  BY DEF Base, TypeOK
<1>1. CASE UNCHANGED deleg
  BY <1>0, <1>1
<1>2. CASE \E w \in Workers : Delegate(w)
  <2>1. PICK w \in Workers : Delegate(w)
    BY <1>2
  <2>2. PICK r \in Runs, c \in Calls : r = tw[w].run /\ c = tw[w].call
    BY <2>1 DEF Base, WorkerShape, Delegate
  <2>3. deleg' = [deleg EXCEPT ![r][c] = Delegated(deleg[r][c])]
    BY <2>1, <2>2 DEF Delegate
  <2>4. Delegated(deleg[r][c]) \in Delegation
    BY <1>0 DEF Delegated, Delegation
  <2> QED BY <1>0, <2>3, <2>4
<1>3. CASE \E r \in Runs, c \in Calls :
              ChildStarts(r, c) \/ ChildRetries(r, c) \/ ChildEnds(r, c)
  <2>1. PICK r \in Runs, c \in Calls :
              ChildStarts(r, c) \/ ChildRetries(r, c) \/ ChildEnds(r, c)
    BY <1>3
  <2>2. PICK x \in {"active", "queued", "completed", "failed"}, over \in BOOLEAN :
           deleg' = [deleg EXCEPT ![r][c] = ChildIs(@, x, over)]
    BY <2>1 DEF ChildStarts, ChildRetries, ChildEnds
  <2>3. ChildIs(deleg[r][c], x, over) \in Delegation
    BY <1>0 DEF ChildIs, Delegation, ChildEnd
  <2> QED BY <1>0, <2>2, <2>3
<1>5. CASE \E r \in Runs, c \in Calls : ProjectChild(r, c) \/ CancelInvalidatedChild(r, c)
  <2>1. PICK r \in Runs, c \in Calls : ProjectChild(r, c) \/ CancelInvalidatedChild(r, c)
    BY <1>5
  <2>2. CASE ProjectChild(r, c)
    <3>1. PICK s \in TerminalResult(deleg[r][c]) :
             deleg' = [deleg EXCEPT ![r][c] = Settled(deleg[r][c], s, deleg[r][c].child)]
      BY <2>2 DEF ProjectChild
    <3>2. deleg[r][c] \in Delegation /\ deleg[r][c].child \in ChildEnd
      BY <1>0, <2>2 DEF ProjectChild
    <3>3. s \in {"PENDING", "COMPLETED", "FAILED", "CANCELLED", "none"}
      BY <3>2 DEF TerminalResult, Delegation, ChildEnd
    <3>4. Settled(deleg[r][c], s, deleg[r][c].child) \in Delegation
      BY <3>2, <3>3, SettledType
    <3> QED BY <1>0, <3>1, <3>4
  <2>3. CASE CancelInvalidatedChild(r, c)
    <3>1. deleg' = [deleg EXCEPT ![r][c] = Settled(deleg[r][c], "CANCELLED", "cancelled")]
      BY <2>3 DEF CancelInvalidatedChild
    <3>2. Settled(deleg[r][c], "CANCELLED", "cancelled") \in Delegation
      BY <1>0, SettledType DEF ChildEnd
    <3> QED BY <1>0, <3>1, <3>2
  <2> QED BY <2>1, <2>2, <2>3
<1> QED
  BY <1>1, <1>2, <1>3, <1>5 DEF Next, vars, RunStep, TaskLeaves, Wake, Dispatch, JobStep,
     LeaseLapses, DelayElapses, WorkerStep, Start, Heartbeat, Execute, WriteOutcome,
     SucceedRaises, LoseJob, Vanish, Claim, RecoverExpired

-----------------------------------------------------------------------------
(* The base invariant is inductive.                                          *)

LEMMA MovesAttempts ==
    ASSUME NEW j \in Job, NEW k, JobMoves(j, k),
           j.attempts <= MaxAttempts,
           j.status \in {"absent", "queued", "retry_wait"} => j.attempts < MaxAttempts
    PROVE  /\ j.attempts <= k.attempts /\ k.attempts <= MaxAttempts
           /\ k.status \in {"absent", "queued", "retry_wait"} => k.attempts < MaxAttempts
<1>0. j.attempts \in Nat /\ MaxAttempts \in Nat
  BY JobLimits DEF Job
<1>1. CASE k = j \/ (j.status = "absent" /\ k = [j EXCEPT !.status = "queued"])
  BY <1>0, <1>1 DEF Job
<1>2. CASE /\ j.status \in {"queued", "retry_wait"}
           /\ k = [status |-> "leased", attempts |-> j.attempts + 1,
                   token |-> j.attempts + 1, lapsed |-> FALSE, delayed |-> FALSE]
  BY <1>0, <1>2
<1>3. CASE j.status = "leased" /\ k = [j EXCEPT !.status = "running"]
  BY <1>0, <1>3 DEF Job
<1>4. CASE \E b \in BOOLEAN : k = [j EXCEPT !.lapsed = b] \/ k = [j EXCEPT !.delayed = b]
  BY <1>0, <1>4 DEF Job
<1>5. CASE k = AfterAttempt(j)
  BY <1>0, <1>5, ReleasedFields DEF AfterAttempt
<1>6. CASE \E s \in {"succeeded", "failed", "awaiting_specialist"} : k = Released(j, s)
  BY <1>0, <1>6, ReleasedFields
<1>7. CASE \E s \in {"succeeded", "failed"} : k = Released(j, s)
  BY <1>0, <1>7, ReleasedFields
<1> QED BY <1>1, <1>2, <1>3, <1>4, <1>5, <1>6, <1>7 DEF JobMoves, Works

LEMMA AttemptsStep ==
    ASSUME Base, [Next]_vars
    PROVE  /\ AttemptsLeft'
           /\ \A r \in Runs, c \in Calls : job[r][c].attempts <= job'[r][c].attempts
<1>1. JobsMove
  BY NextMoves
<1>2. job \in [Runs -> [Calls -> Job]]
  BY DEF Base, TypeOK
<1>3. \A r \in Runs, c \in Calls :
         /\ job[r][c].attempts <= job'[r][c].attempts
         /\ job'[r][c].attempts <= MaxAttempts
         /\ job'[r][c].status \in {"absent", "queued", "retry_wait"} =>
               job'[r][c].attempts < MaxAttempts
  <2> TAKE r \in Runs, c \in Calls
  <2>1. JobMoves(job[r][c], job'[r][c]) /\ job[r][c] \in Job
    BY <1>1, <1>2 DEF JobsMove
  <2>2. /\ job[r][c].attempts <= MaxAttempts
        /\ job[r][c].status \in {"absent", "queued", "retry_wait"} =>
              job[r][c].attempts < MaxAttempts
    BY DEF Base, AttemptsLeft
  <2> QED BY <2>1, <2>2, MovesAttempts
<1> QED BY <1>3 DEF AttemptsLeft

LEMMA ShapeStep ==
    ASSUME Base, [Next]_vars
    PROVE  tw' \in [Workers -> Worker] /\ WorkerShape'
<1>1. \A r \in Runs, c \in Calls :
         /\ job[r][c].attempts <= job'[r][c].attempts
         /\ job[r][c].attempts \in Nat /\ job'[r][c].attempts \in Nat
  BY AttemptsStep, NextMoves DEF JobsMove, Base, TypeOK, Job
<1>2. CASE \E w \in Workers, r \in Runs, c \in Calls : Claim(w, r, c)
  <2>1. PICK w \in Workers, r \in Runs, c \in Calls : Claim(w, r, c)
    BY <1>2
  <2>2. /\ tw' \in [Workers -> Worker]
        /\ \A v \in Workers : v # w => tw'[v] = tw[v]
        /\ tw'[w].pc = "claimed" /\ tw'[w].run = r /\ tw'[w].call = c
        /\ tw'[w].token = job[r][c].attempts + 1
        /\ job'[r][c].attempts = job[r][c].attempts + 1
    BY <2>1, ClaimWorkers
  <2>3. ASSUME NEW v \in Workers, tw'[v].pc # "idle"
        PROVE  /\ tw'[v].run \in Runs /\ tw'[v].call \in Calls
               /\ 1 <= tw'[v].token /\ tw'[v].token <= job'[tw'[v].run][tw'[v].call].attempts
    <3>1. CASE v = w
      BY <1>1, <2>2, <3>1
    <3>2. CASE v # w
      <4>1. PICK q \in Runs, d \in Calls : q = tw[v].run /\ d = tw[v].call
        BY <2>2, <2>3, <3>2 DEF Base, WorkerShape
      <4>2. 1 <= tw[v].token /\ tw[v].token <= job[q][d].attempts /\ tw[v].token \in Nat
        BY <2>2, <2>3, <3>2, <4>1 DEF Base, WorkerShape, TypeOK, Worker
      <4>3. tw'[v] = tw[v] /\ job[q][d].attempts <= job'[q][d].attempts
        BY <1>1, <2>2, <3>2
      <4> QED BY <1>1, <4>1, <4>2, <4>3
    <3> QED BY <3>1, <3>2
  <2>4. \A v \in Workers : tw'[v].pc = "finishing" => tw'[v].outcome # "none"
    BY <2>2 DEF Base, WorkerShape
  <2> QED BY <2>2, <2>3, <2>4 DEF WorkerShape
<1>3. CASE ~ \E w \in Workers, r \in Runs, c \in Calls : Claim(w, r, c)
  <2>1. tw' \in [Workers -> Worker] /\ NobodyClaims
    BY <1>3, NextWorkers
  <2>2. ASSUME NEW v \in Workers, tw'[v].pc # "idle"
        PROVE  /\ tw'[v].run \in Runs /\ tw'[v].call \in Calls
               /\ 1 <= tw'[v].token /\ tw'[v].token <= job'[tw'[v].run][tw'[v].call].attempts
    <3>1. /\ tw[v].pc # "idle" /\ tw'[v].run = tw[v].run
          /\ tw'[v].call = tw[v].call /\ tw'[v].token = tw[v].token
      BY <2>1, <2>2 DEF NobodyClaims, GoesOn, IdleWorker
    <3>2. PICK q \in Runs, d \in Calls : q = tw[v].run /\ d = tw[v].call
      BY <3>1 DEF Base, WorkerShape
    <3>3. 1 <= tw[v].token /\ tw[v].token <= job[q][d].attempts /\ tw[v].token \in Nat
      BY <3>1, <3>2 DEF Base, WorkerShape, TypeOK, Worker
    <3> QED BY <1>1, <3>1, <3>2, <3>3
  <2>3. \A v \in Workers : tw'[v].pc = "finishing" => tw'[v].outcome # "none"
    BY <2>1 DEF NobodyClaims, GoesOn, IdleWorker, Base, WorkerShape
  <2> QED BY <2>1, <2>2, <2>3 DEF WorkerShape
<1> QED BY <1>2, <1>3

LEMMA BaseInit == Init => Base
<1> SUFFICES ASSUME Init PROVE Base
  OBVIOUS
<1>1. run \in [Runs -> Run]
  BY DEF Init, Run
<1>2. job \in [Runs -> [Calls -> Job]]
  BY DEF Init, Job, JobStatus
<1>3. deleg \in [Runs -> [Calls -> Delegation]]
  BY DEF Init, Delegation, ChildEnd
<1>4. tw \in [Workers -> Worker]
  BY IdleType DEF Init
<1>5. AttemptsLeft /\ WorkerShape
  BY JobLimits DEF Init, AttemptsLeft, WorkerShape, IdleWorker
<1> QED BY <1>1, <1>2, <1>3, <1>4, <1>5 DEF Base, TypeOK

LEMMA BaseStep == Base /\ [Next]_vars => Base'
<1> SUFFICES ASSUME Base, [Next]_vars PROVE Base'
  OBVIOUS
<1>1. run' \in [Runs -> Run]
  BY NextRunMoves DEF RunsMove
<1>2. job' \in [Runs -> [Calls -> Job]]
  BY NextMoves DEF JobsMove
<1>3. deleg' \in [Runs -> [Calls -> Delegation]]
  BY DelegationsTyped
<1> QED BY <1>1, <1>2, <1>3, AttemptsStep, ShapeStep DEF Base, TypeOK

LEMMA BaseAlways == Spec => []Base
BY BaseInit, BaseStep, PTL DEF Spec

(* In every behaviour the rows stay well formed, a job is claimed at most    *)
(* max_attempts times, and a job that waits to be claimed has an attempt     *)
(* left, so no retry or recovery ever runs a tool once too often.            *)
THEOREM AttemptsAreBounded == Spec => [](TypeOK /\ AttemptBudget)
<1>1. Base => TypeOK /\ AttemptBudget
  BY DEF Base, AttemptsLeft, AttemptBudget
<1> QED BY <1>1, BaseAlways, PTL

-----------------------------------------------------------------------------
(* Fencing *)

LEMMA HolderInit == Init => JobHasOneHolder
BY DEF Init, JobHasOneHolder, IdleWorker

LEMMA HolderStep ==
    ASSUME Base, JobHasOneHolder, [Next]_vars
    PROVE  JobHasOneHolder'
<1>1. CASE \E w \in Workers, r \in Runs, c \in Calls : Claim(w, r, c)
  <2>1. PICK w \in Workers, r \in Runs, c \in Calls : Claim(w, r, c)
    BY <1>1
  <2>2. /\ \A v \in Workers : v # w => tw'[v] = tw[v]
        /\ tw'[w].run = r /\ tw'[w].call = c
        /\ tw'[w].token = job[r][c].attempts + 1
        /\ job[r][c].attempts \in Nat
    BY <2>1, ClaimWorkers
  <2>3. \A v \in Workers :
           tw[v].pc # "idle" /\ tw[v].run = r /\ tw[v].call = c
           => tw[v].token <= job[r][c].attempts /\ tw[v].token \in Nat
    BY DEF Base, WorkerShape, TypeOK, Worker
  <2>4. \A v \in Workers :
           v # w /\ tw'[v].pc # "idle" /\ tw'[v].run = r /\ tw'[v].call = c
           => tw'[v].token # tw'[w].token
    BY <2>2, <2>3
  <2> QED BY <2>2, <2>4 DEF JobHasOneHolder
<1>2. CASE ~ \E w \in Workers, r \in Runs, c \in Calls : Claim(w, r, c)
  <2>1. NobodyClaims
    BY <1>2, NextWorkers
  <2>2. \A v \in Workers :
           tw'[v].pc # "idle" => /\ tw[v].pc # "idle" /\ tw'[v].run = tw[v].run
                                 /\ tw'[v].call = tw[v].call /\ tw'[v].token = tw[v].token
    BY <2>1 DEF NobodyClaims, GoesOn, IdleWorker
  <2> QED BY <2>2 DEF JobHasOneHolder
<1> QED BY <1>1, <1>2

(* For any number of workers, two of them never carry the same token of the  *)
(* same job: after a recovery the late worker can be told from the new one.  *)
THEOREM JobsAreFenced == Spec => []JobHasOneHolder
<1>1. JobHasOneHolder /\ Base /\ [Next]_vars => JobHasOneHolder'
  BY HolderStep
<1> QED BY <1>1, HolderInit, BaseAlways, PTL DEF Spec

-----------------------------------------------------------------------------
(* Results *)

(* A job that is neither new nor over belongs to the batch its run waits for. *)
OpenJobsAreAwaited ==
    \A r \in Runs, c \in Calls :
        job[r][c].status \notin {"absent"} \cup JobTerminal =>
           run[r].status = "awaiting_tool" /\ c \in run[r].waiting

ResultInv == OpenJobsAreAwaited /\ ResultsAreFinal

LEMMA TerminalStays ==
    ASSUME NEW j \in Job, NEW k, JobMoves(j, k), j.status \in JobTerminal
    PROVE  k.status = j.status
<1>1. CASE \E b \in BOOLEAN : k = [j EXCEPT !.lapsed = b] \/ k = [j EXCEPT !.delayed = b]
  BY <1>1 DEF Job
<1>2. CASE k = j
  BY <1>2
<1> QED BY <1>1, <1>2 DEF JobMoves, Works, JobTerminal, JobLeased

LEMMA AbsentStays ==
    ASSUME NEW j \in Job, NEW k, Works(j, k), j.status = "absent"
    PROVE  k.status = "absent"
<1>1. CASE \E b \in BOOLEAN : k = [j EXCEPT !.lapsed = b] \/ k = [j EXCEPT !.delayed = b]
  BY <1>1 DEF Job
<1>2. CASE k = j
  BY <1>2
<1> QED BY <1>1, <1>2 DEF Works, JobLeased

(* A job is created only by the dispatch of its batch.                       *)
LEMMA EnqueuedByDispatch ==
    ASSUME Base, [Next]_vars, NEW r \in Runs, NEW c \in Calls,
           job[r][c].status = "absent", job'[r][c].status # "absent"
    PROVE  run'[r].status = "awaiting_tool" /\ c \in run'[r].waiting
<1>0. job \in [Runs -> [Calls -> Job]] /\ run \in [Runs -> Run]
  BY DEF Base, TypeOK
<1>1. PICK q \in Runs, C \in SUBSET Calls : Dispatch(q, C)
  <2> SUFFICES ASSUME ~ \E q \in Runs, C \in SUBSET Calls : Dispatch(q, C) PROVE FALSE
    OBVIOUS
  <2>1. Works(job[r][c], job'[r][c]) /\ job[r][c] \in Job
    BY <1>0, NextWorks DEF JobsWork
  <2> QED BY <2>1, AbsentStays
<1>2. q = r /\ c \in C
  BY <1>0, <1>1 DEF Dispatch
<1> QED BY <1>0, <1>1, <1>2 DEF Dispatch

LEMMA ResultStep ==
    ASSUME Base, ResultInv, [Next]_vars
    PROVE  ResultInv'
<1>1. \A r \in Runs : run'[r] = run[r] \/ RunMoves(run[r], run'[r], job'[r])
  BY NextRunMoves DEF RunsMove
<1>2. \A r \in Runs, c \in Calls : JobMoves(job[r][c], job'[r][c]) /\ job[r][c] \in Job
  BY NextMoves DEF JobsMove, Base, TypeOK
<1>3. \A r \in Runs : run[r] \in Run
  BY DEF Base, TypeOK
<1>4. \A r \in Runs, c \in Calls :
         job[r][c].status \in JobTerminal => job'[r][c].status = job[r][c].status
  BY <1>2, TerminalStays
<1>5. ASSUME NEW r \in Runs, NEW c \in Calls,
             job'[r][c].status \notin {"absent"} \cup JobTerminal
      PROVE  run'[r].status = "awaiting_tool" /\ c \in run'[r].waiting
  <2>1. CASE job[r][c].status = "absent"
    BY <1>5, <2>1, EnqueuedByDispatch
  <2>2. CASE job[r][c].status # "absent"
    <3>1. run[r].status = "awaiting_tool" /\ c \in run[r].waiting
      BY <1>4, <1>5, <2>2 DEF ResultInv, OpenJobsAreAwaited
    <3> QED BY <1>1, <1>5, <3>1 DEF RunMoves, BatchReady
  <2> QED BY <2>1, <2>2
<1>6. ASSUME NEW r \in Runs, NEW c \in Calls, run'[r].got[c] # "none"
      PROVE  job'[r][c].status = run'[r].got[c]
  <2>1. CASE run'[r].got[c] = run[r].got[c]
    <3>1. job[r][c].status = run[r].got[c] /\ run[r].got[c] \in JobTerminal
      BY <1>3, <1>6, <2>1 DEF ResultInv, ResultsAreFinal, Run, JobTerminal
    <3> QED BY <1>4, <2>1, <3>1
  <2>2. CASE run'[r].got[c] # run[r].got[c]
    <3>1. BatchReady(run[r], job'[r]) /\ run'[r] = Woken(run[r], job'[r])
      BY <1>1, <2>2 DEF RunMoves
    <3>2. c \in run[r].waiting
      BY <2>2, <3>1 DEF Woken
    <3> QED BY <3>1, <3>2 DEF Woken, BatchReady, JobTerminal
  <2> QED BY <2>1, <2>2
<1> QED BY <1>5, <1>6 DEF ResultInv, OpenJobsAreAwaited, ResultsAreFinal

(* A result that was given to the model is final, and a run that works has   *)
(* no job left that could still act for it, whatever late workers, retries,  *)
(* recoveries and specialists do.                                            *)
THEOREM ResultsStand == Spec => [](ResultsAreFinal /\ NoOrphanJob)
<1>1. Init => ResultInv
  BY DEF Init, ResultInv, OpenJobsAreAwaited, ResultsAreFinal
<1>2. ResultInv /\ Base /\ [Next]_vars => ResultInv'
  BY ResultStep
<1>3. ResultInv => ResultsAreFinal /\ NoOrphanJob
  BY DEF ResultInv, OpenJobsAreAwaited, NoOrphanJob
<1> QED BY <1>1, <1>2, <1>3, BaseAlways, PTL DEF Spec

-----------------------------------------------------------------------------
(* Refinement *)

LEMMA BatchInit == Init => Batch!Init
BY DEF Init, Batch!Init

LEMMA BatchStep ==
    ASSUME Base, [Next]_vars
    PROVE  [Batch!Next]_(Batch!vars)
<1>0. run \in [Runs -> Run] /\ run' \in [Runs -> Run] /\ RunsMove
  BY NextRunMoves DEF Base, TypeOK, RunsMove
<1>1. CASE run' = run
  BY <1>1 DEF Batch!vars
<1>2. CASE \E r \in Runs : /\ RunMoves(run[r], run'[r], job'[r])
                           /\ \A q \in Runs \ {r} : run'[q] = run[q]
  <2>1. PICK r \in Runs : /\ RunMoves(run[r], run'[r], job'[r])
                          /\ \A q \in Runs \ {r} : run'[q] = run[q]
    BY <1>2
  <2>2. CASE /\ run'[r].status = run[r].status /\ run'[r].waiting = run[r].waiting
             /\ run'[r].got = run[r].got
    <3>1. \A q \in Runs : /\ run'[q].status = run[q].status
                          /\ run'[q].waiting = run[q].waiting
                          /\ run'[q].got = run[q].got
      BY <2>1, <2>2
    <3> QED BY <3>1 DEF Batch!vars
  <2>3. CASE /\ run[r].status = "working" /\ run'[r].status = "awaiting_tool"
             /\ run'[r].waiting \in SUBSET Calls /\ run'[r].waiting # {}
             /\ run'[r].got = run[r].got
    <3>1. PICK C \in SUBSET Calls : C = run'[r].waiting
      BY <2>3
    <3>2. Batch!Dispatch(r, C)
      BY <1>0, <2>1, <2>3, <3>1 DEF Batch!Dispatch
    <3> QED BY <3>2 DEF Batch!Next
  <2>4. CASE BatchReady(run[r], job'[r]) /\ run'[r] = Woken(run[r], job'[r])
    <3> DEFINE a == [c \in run[r].waiting |-> run'[r].got[c]]
    <3>1. run[r].waiting \subseteq Calls
      BY <1>0 DEF Run
    <3>2. a \in [run[r].waiting -> Batch!Answer]
      BY <2>4, <3>1 DEF Woken, Batch!Answer
    <3>3. run'[r].got = [c \in Calls |-> IF c \in run[r].waiting THEN a[c]
                                         ELSE run[r].got[c]]
      BY <2>4, <3>1 DEF Woken
    <3> HIDE DEF a
    <3> DEFINE W == [q \in Runs |-> run[q].waiting]
    <3> DEFINE G == [q \in Runs |-> run[q].got]
    <3>4. /\ a \in [W[r] -> Batch!Answer]
          /\ [q \in Runs |-> run'[q].got] =
                [G EXCEPT ![r] = [c \in Calls |-> IF c \in W[r] THEN a[c] ELSE G[r][c]]]
      BY <2>1, <3>2, <3>3
    <3>5. /\ run[r].status = "awaiting_tool" /\ run'[r].status = "working"
          /\ run'[r].waiting = {} /\ \A c \in run[r].waiting : run[r].got[c] = "none"
      BY <2>4 DEF BatchReady, Woken
    <3>6. /\ [q \in Runs |-> run'[q].status] =
                [[q \in Runs |-> run[q].status] EXCEPT ![r] = "working"]
          /\ [q \in Runs |-> run'[q].waiting] =
                [[q \in Runs |-> run[q].waiting] EXCEPT ![r] = {}]
      BY <2>1, <3>5
    <3>7. /\ [q \in Runs |-> run[q].status][r] = "awaiting_tool"
          /\ \A c \in W[r] : G[r][c] = "none"
      BY <3>5
    <3>8. \E b \in [W[r] -> Batch!Answer] :
             [q \in Runs |-> run'[q].got] =
                [G EXCEPT ![r] = [c \in Calls |-> IF c \in W[r] THEN b[c] ELSE G[r][c]]]
      BY <3>4
    <3>9. Batch!Return(r)
      BY <3>6, <3>7, <3>8, Zenon DEF Batch!Return
    <3> QED BY <3>9 DEF Batch!Next
  <2> QED BY <2>1, <2>2, <2>3, <2>4 DEF RunMoves
<1> QED BY <1>0, <1>1, <1>2 DEF RunsMove

(* Every behaviour of the tool layer is one of ToolBatch: a run gets its     *)
(* whole batch back at once, and no answer it was given ever changes.        *)
THEOREM JobsImplementBatch == Spec => ImplementsToolBatch
<1>1. Base /\ [Next]_vars => [Batch!Next]_(Batch!vars)
  BY BatchStep
<1> QED BY <1>1, BatchInit, BaseAlways, PTL DEF Spec, ImplementsToolBatch, Batch!Spec

-----------------------------------------------------------------------------
(* Specialists *)

Closed == {"COMPLETED", "FAILED", "CANCELLED"}

(* What a delegation row, its child run and its job have to do with each     *)
(* other: a row that does not exist has neither child nor settlement; an     *)
(* open one has its one child and no settlement; a closed one was settled    *)
(* once and its job ended with it.                                           *)
Paired(d, j) ==
    /\ d.status = "none" => d.child = "none" /\ d.children = 0 /\ d.settled = 0
    /\ d.status = "PENDING" => d.children = 1 /\ d.settled = 0
    /\ d.status \in Closed =>
          /\ d.children = 1 /\ d.settled = 1 /\ d.child \in ChildEnd
          /\ j.status = IF d.status = "COMPLETED" THEN "succeeded" ELSE "failed"
    /\ j.status = "awaiting_specialist" => d.status = "PENDING"

DelegationsPaired ==
    \A r \in Runs, c \in Calls : Paired(deleg[r][c], job[r][c])

(* A worker that says it delegated did, and only such a worker parks a job.  *)
DelegatorsDelegated ==
    \A w \in Workers :
        /\ tw[w].pc # "idle" /\ tw[w].made =>
              deleg[tw[w].run][tw[w].call].status # "none"
        /\ tw[w].pc = "finishing" /\ tw[w].outcome = "await" => tw[w].made

SpecialistInv == DelegationsPaired /\ DelegatorsDelegated

(* The ways a step changes a delegation row: not at all; it is created; its  *)
(* child run moves; it is closed together with its job.                      *)
DelegMoves(d, e, j, k) ==
    \/ e = d
    \/ /\ d.status = "none"
       /\ e.status = "PENDING" /\ e.children = d.children + 1 /\ e.settled = d.settled
    \/ /\ d.child \in {"queued", "active"}
       /\ e.status = d.status /\ e.children = d.children /\ e.settled = d.settled
    \/ /\ d.status = "PENDING" /\ j.status = "awaiting_specialist"
       /\ e.status \in Closed /\ e.child \in ChildEnd
       /\ e.children = d.children /\ e.settled = d.settled + 1
       /\ k.status = IF e.status = "COMPLETED" THEN "succeeded" ELSE "failed"

DelegsMove ==
    \A r \in Runs, c \in Calls :
        DelegMoves(deleg[r][c], deleg'[r][c], job[r][c], job'[r][c])

LEMMA DelegsStay ==
    ASSUME deleg' = deleg
    PROVE  DelegsMove
BY DEF DelegsMove, DelegMoves

LEMMA OneDelegMoves ==
    ASSUME Base, NEW r \in Runs, NEW c \in Calls, NEW e,
           deleg' = [deleg EXCEPT ![r][c] = e],
           DelegMoves(deleg[r][c], e, job[r][c], job'[r][c])
    PROVE  DelegsMove
<1>1. deleg \in [Runs -> [Calls -> Delegation]]
  BY DEF Base, TypeOK
<1>2. ASSUME NEW q \in Runs, NEW b \in Calls
      PROVE  DelegMoves(deleg[q][b], deleg'[q][b], job[q][b], job'[q][b])
  <2>1. CASE q = r /\ b = c
    <3>1. deleg'[q][b] = e
      BY <1>1, <2>1
    <3> QED BY <2>1, <3>1
  <2>2. CASE ~(q = r /\ b = c)
    <3>1. deleg'[q][b] = deleg[q][b]
      BY <1>1, <2>2
    <3> QED BY <3>1 DEF DelegMoves
  <2> QED BY <2>1, <2>2
<1> QED BY <1>2 DEF DelegsMove

(* complete_specialist for a delegation that is still open ends its job.     *)
LEMMA CompletionEnds ==
    ASSUME Base, NEW r \in Runs, NEW c \in Calls, NEW ok,
           deleg[r][c].status = "PENDING", CompleteSpecialist(r, c, ok)
    PROVE  /\ job[r][c].status = "awaiting_specialist"
           /\ job'[r][c].status = IF ok THEN "succeeded" ELSE "failed"
<1> DEFINE s == IF ok THEN "succeeded" ELSE "failed"
<1>1. job \in [Runs -> [Calls -> Job]]
  BY DEF Base, TypeOK
<1>2. /\ job[r][c].status = "awaiting_specialist"
      /\ job' = [job EXCEPT ![r][c] = Released(job[r][c], s)]
  BY DEF CompleteSpecialist
<1>3. job'[r][c] = Released(job[r][c], s)
  BY <1>1, <1>2
<1> QED BY <1>2, <1>3, ReleasedFields

LEMMA NextDelegs ==
    ASSUME Base, DelegationsPaired, [Next]_vars
    PROVE  DelegsMove
<1>0. deleg \in [Runs -> [Calls -> Delegation]]
  BY DEF Base, TypeOK
<1>1. CASE UNCHANGED deleg
  BY <1>1, DelegsStay
<1>2. CASE \E w \in Workers : Delegate(w)
  <2>1. PICK w \in Workers : Delegate(w)
    BY <1>2
  <2>2. PICK r \in Runs, c \in Calls : r = tw[w].run /\ c = tw[w].call
    BY <2>1 DEF Base, WorkerShape, Delegate
  <2>3. deleg' = [deleg EXCEPT ![r][c] = Delegated(deleg[r][c])]
    BY <2>1, <2>2 DEF Delegate
  <2>4. DelegMoves(deleg[r][c], Delegated(deleg[r][c]), job[r][c], job'[r][c])
    BY DEF Delegated, DelegMoves
  <2> QED BY <2>3, <2>4, OneDelegMoves
<1>3. CASE \E r \in Runs, c \in Calls :
              ChildStarts(r, c) \/ ChildRetries(r, c) \/ ChildEnds(r, c)
  <2>1. PICK r \in Runs, c \in Calls :
              ChildStarts(r, c) \/ ChildRetries(r, c) \/ ChildEnds(r, c)
    BY <1>3
  <2>2. PICK x, over :
           deleg' = [deleg EXCEPT ![r][c] = ChildIs(deleg[r][c], x, over)]
    BY <2>1 DEF ChildStarts, ChildRetries, ChildEnds
  <2>3. deleg[r][c].child \in {"queued", "active"}
    BY <2>1 DEF ChildStarts, ChildRetries, ChildEnds
  <2>4. DelegMoves(deleg[r][c], ChildIs(deleg[r][c], x, over), job[r][c], job'[r][c])
    BY <2>3 DEF ChildIs, DelegMoves
  <2> QED BY <2>2, <2>4, OneDelegMoves
<1>4. CASE \E r \in Runs, c \in Calls : ProjectChild(r, c)
  <2>1. PICK r \in Runs, c \in Calls : ProjectChild(r, c)
    BY <1>4
  <2> DEFINE d == deleg[r][c]
  <2>2. PICK s \in TerminalResult(d) :
           /\ deleg' = [deleg EXCEPT ![r][c] = Settled(d, s, d.child)]
           /\ CompleteSpecialist(r, c, s = "COMPLETED")
    BY <2>1 DEF ProjectChild
  <2>3. d \in Delegation /\ d.child \in ChildEnd /\ Paired(d, job[r][c])
    BY <1>0, <2>1 DEF ProjectChild, DelegationsPaired
  <2>4. CASE d.status = "PENDING"
    <3>1. s \in Closed
      BY <2>3, <2>4 DEF TerminalResult, ChildEnd, Closed
    <3>2. /\ job[r][c].status = "awaiting_specialist"
          /\ job'[r][c].status = IF s = "COMPLETED" THEN "succeeded" ELSE "failed"
      BY <2>2, <2>4, CompletionEnds
    <3>3. DelegMoves(d, Settled(d, s, d.child), job[r][c], job'[r][c])
      BY <2>3, <2>4, <3>1, <3>2 DEF Settled, DelegMoves
    <3> QED BY <2>2, <3>3, OneDelegMoves
  <2>5. CASE d.status # "PENDING"
    <3>1. Settled(d, s, d.child) = d
      BY <2>3, <2>5 DEF TerminalResult, Settled, Delegation
    <3>2. DelegMoves(d, Settled(d, s, d.child), job[r][c], job'[r][c])
      BY <3>1 DEF DelegMoves
    <3> QED BY <2>2, <3>2, OneDelegMoves
  <2> QED BY <2>4, <2>5
<1>5. CASE \E r \in Runs, c \in Calls : CancelInvalidatedChild(r, c)
  <2>1. PICK r \in Runs, c \in Calls : CancelInvalidatedChild(r, c)
    BY <1>5
  <2> DEFINE d == deleg[r][c]
  <2>2. /\ deleg' = [deleg EXCEPT ![r][c] = Settled(d, "CANCELLED", "cancelled")]
        /\ CompleteSpecialist(r, c, FALSE) /\ d.status = "PENDING"
    BY <2>1 DEF CancelInvalidatedChild
  <2>3. job[r][c].status = "awaiting_specialist" /\ job'[r][c].status = "failed"
    BY <2>2, CompletionEnds
  <2>4. DelegMoves(d, Settled(d, "CANCELLED", "cancelled"), job[r][c], job'[r][c])
    BY <2>2, <2>3 DEF Settled, DelegMoves, Closed, ChildEnd
  <2> QED BY <2>2, <2>4, OneDelegMoves
<1> QED
  BY <1>1, <1>2, <1>3, <1>4, <1>5 DEF Next, vars, RunStep, TaskLeaves, Wake, Dispatch,
     JobStep, LeaseLapses, DelayElapses, WorkerStep, Start, Heartbeat, Execute,
     WriteOutcome, SucceedRaises, LoseJob, Vanish, Claim, RecoverExpired

(* A job is parked only by a worker whose handler said so.                   *)
LEMMA ParkedByOutcome ==
    ASSUME Base, [Next]_vars, NEW r \in Runs, NEW c \in Calls,
           job[r][c].status # "awaiting_specialist",
           job'[r][c].status = "awaiting_specialist"
    PROVE  \E w \in Workers : /\ WriteOutcome(w) /\ tw[w].outcome = "await"
                              /\ tw[w].run = r /\ tw[w].call = c
<1>0. job \in [Runs -> [Calls -> Job]]
  BY DEF Base, TypeOK
<1>1. job' # job
  OBVIOUS
<1>2. ASSUME NEW q \in Runs, NEW b \in Calls, NEW k,
             job' = [job EXCEPT ![q][b] = k]
      PROVE  q = r /\ b = c /\ k.status = "awaiting_specialist"
  <2>1. job'[r][c] = IF q = r /\ b = c THEN k ELSE job[r][c]
    BY <1>0, <1>2
  <2> QED BY <2>1
<1>3. AfterAttempt(job[r][c]).status # "awaiting_specialist"
  BY ReleasedFields DEF AfterAttempt
<1>4. ASSUME NEW q \in Runs, NEW C \in SUBSET Calls, Dispatch(q, C)
      PROVE  FALSE
  <2>1. job'[r][c] \in {job[r][c], Enqueued(job[r][c])}
    BY <1>0, <1>4 DEF Dispatch
  <2>2. job[r][c] \in Job
    BY <1>0
  <2>3. Enqueued(job[r][c]).status \in {job[r][c].status, "queued"}
    BY <2>2 DEF Enqueued, Job
  <2> QED BY <2>1, <2>3
<1>5. ASSUME NEW q \in Runs, NEW b \in Calls, LeaseLapses(q, b) \/ DelayElapses(q, b)
      PROVE  FALSE
  <2>1. \/ job' = [job EXCEPT ![q][b] = [job[q][b] EXCEPT !.lapsed = TRUE]]
        \/ job' = [job EXCEPT ![q][b] = [job[q][b] EXCEPT !.delayed = FALSE]]
    BY <1>5 DEF LeaseLapses, DelayElapses
  <2>2. job[q][b] \in Job
    BY <1>0
  <2> QED BY <1>2, <2>1, <2>2 DEF Job
<1>6. ASSUME NEW q \in Runs, NEW b \in Calls,
             ProjectChild(q, b) \/ CancelInvalidatedChild(q, b)
      PROVE  FALSE
  <2>1. PICK ok \in BOOLEAN : CompleteSpecialist(q, b, ok)
    BY <1>6, ChildMoves
  <2>2. job' = [job EXCEPT ![q][b] = Released(job[q][b], IF ok THEN "succeeded" ELSE "failed")]
    BY <1>1, <2>1 DEF CompleteSpecialist
  <2> QED BY <1>2, <2>2, ReleasedFields
<1>7. ASSUME NEW w \in Workers, Start(w) \/ Heartbeat(w)
      PROVE  FALSE
  <2>1. PICK q \in Runs, b \in Calls : q = tw[w].run /\ b = tw[w].call
    BY <1>7 DEF Base, WorkerShape, Start, Heartbeat
  <2>2. \/ job' = [job EXCEPT ![q][b] = [job[q][b] EXCEPT !.status = "running"]]
        \/ job' = [job EXCEPT ![q][b] = [job[q][b] EXCEPT !.lapsed = FALSE]]
    BY <1>7, <2>1 DEF Start, Heartbeat
  <2>3. job[q][b] \in Job
    BY <1>0
  <2> QED BY <1>2, <2>2, <2>3 DEF Job
<1>8. ASSUME NEW w \in Workers, WriteOutcome(w)
      PROVE  tw[w].outcome = "await" /\ tw[w].run = r /\ tw[w].call = c
  <2>1. PICK q \in Runs, b \in Calls : q = tw[w].run /\ b = tw[w].call
    BY <1>8 DEF Base, WorkerShape, WriteOutcome
  <2>2. job' = [job EXCEPT ![q][b] = AfterOutcome(job[q][b], tw[w].outcome)]
    BY <1>8, <2>1 DEF WriteOutcome
  <2>3. q = r /\ b = c /\ AfterOutcome(job[r][c], tw[w].outcome).status = "awaiting_specialist"
    BY <1>2, <2>2
  <2>4. tw[w].outcome \in {"ok", "retry", "permanent", "await"}
    BY <1>8 DEF Base, WorkerShape, TypeOK, Worker, Outcome, WriteOutcome
  <2>5. tw[w].outcome = "await"
    BY <1>3, <2>3, <2>4, ReleasedFields DEF AfterOutcome
  <2> QED BY <2>1, <2>3, <2>5
<1>9. ASSUME NEW w \in Workers, NEW q \in Runs, NEW b \in Calls, Claim(w, q, b)
      PROVE  FALSE
  <2> DEFINE n == job[q][b].attempts + 1
  <2>1. job' = [job EXCEPT ![q][b] = [status |-> "leased", attempts |-> n, token |-> n,
                                      lapsed |-> FALSE, delayed |-> FALSE]]
    BY <1>9 DEF Claim
  <2> QED BY <1>2, <2>1
<1>10. ASSUME RecoverExpired
       PROVE  FALSE
  <2>1. job'[r][c] \in {job[r][c], AfterAttempt(job[r][c])}
    BY <1>10 DEF RecoverExpired
  <2> QED BY <1>3, <2>1
<1> QED
  BY <1>1, <1>4, <1>5, <1>6, <1>7, <1>8, <1>9, <1>10 DEF Next, vars, RunStep, TaskLeaves,
     Wake, JobStep, ChildStarts, ChildRetries, ChildEnds, WorkerStep, Execute, Delegate,
     SucceedRaises, LoseJob, Vanish

(* What a worker of this step is known to have delegated.                    *)
LEMMA DelegatorsStep ==
    ASSUME Base, SpecialistInv, [Next]_vars
    PROVE  DelegatorsDelegated'
<1>0. /\ tw \in [Workers -> Worker] /\ deleg \in [Runs -> [Calls -> Delegation]]
      /\ DelegsMove
  BY NextDelegs DEF Base, TypeOK, SpecialistInv
<1>1. \A q \in Runs, b \in Calls :
         deleg[q][b].status # "none" => deleg'[q][b].status # "none"
  BY <1>0 DEF DelegsMove, DelegMoves, Closed
<1>2. ASSUME NEW v \in Workers, tw'[v] = tw[v] \/ tw'[v] = IdleWorker
      PROVE  /\ tw'[v].pc # "idle" /\ tw'[v].made =>
                   deleg'[tw'[v].run][tw'[v].call].status # "none"
             /\ tw'[v].pc = "finishing" /\ tw'[v].outcome = "await" => tw'[v].made
  <2>1. CASE tw'[v] = IdleWorker
    BY <2>1 DEF IdleWorker
  <2>2. CASE tw'[v] = tw[v]
    <3>1. ASSUME tw[v].pc # "idle", tw[v].made
          PROVE  deleg'[tw[v].run][tw[v].call].status # "none"
      <4>1. tw[v].run \in Runs /\ tw[v].call \in Calls
        BY <3>1 DEF Base, WorkerShape
      <4>2. deleg[tw[v].run][tw[v].call].status # "none"
        BY <3>1 DEF SpecialistInv, DelegatorsDelegated
      <4> QED BY <1>1, <4>1, <4>2
    <3> QED BY <2>2, <3>1 DEF SpecialistInv, DelegatorsDelegated
  <2> QED BY <1>2, <2>1, <2>2
<1>3. CASE UNCHANGED tw
  BY <1>2, <1>3 DEF DelegatorsDelegated
<1>4. ASSUME NEW w \in Workers, NEW x, tw' = [tw EXCEPT ![w] = x],
             /\ x.pc # "idle" /\ x.made => deleg'[x.run][x.call].status # "none"
             /\ x.pc = "finishing" /\ x.outcome = "await" => x.made
      PROVE  DelegatorsDelegated'
  <2>1. tw'[w] = x /\ \A v \in Workers : v # w => tw'[v] = tw[v]
    BY <1>0, <1>4
  <2> QED BY <1>2, <1>4, <2>1 DEF DelegatorsDelegated
<1>5. ASSUME NEW w \in Workers, NEW x, tw' = [tw EXCEPT ![w] = x], tw[w].pc # "idle",
             x.run = tw[w].run, x.call = tw[w].call, x.made => tw[w].made,
             x.pc = "finishing" /\ x.outcome = "await" => x.made
      PROVE  DelegatorsDelegated'
  <2>1. tw[w].run \in Runs /\ tw[w].call \in Calls
    BY <1>5 DEF Base, WorkerShape
  <2>2. x.made => deleg'[x.run][x.call].status # "none"
    BY <1>1, <1>5, <2>1 DEF SpecialistInv, DelegatorsDelegated
  <2> QED BY <1>4, <1>5, <2>2
<1>6. CASE \E w \in Workers : WorkerStep(w)
  <2>1. PICK w \in Workers : WorkerStep(w)
    BY <1>6
  <2>2. CASE Start(w)
    <3>1. tw' = [tw EXCEPT ![w] = [tw[w] EXCEPT !.pc = "running"]] /\ tw[w].pc = "claimed"
      BY <2>2 DEF Start
    <3>2. tw[w] \in Worker
      BY <1>0
    <3> DEFINE x == [tw[w] EXCEPT !.pc = "running"]
    <3>3. x.pc = "running" /\ x.run = tw[w].run /\ x.call = tw[w].call /\ x.made = tw[w].made
      BY <3>2 DEF Worker
    <3> HIDE DEF x
    <3> QED BY <1>5, <3>1, <3>3 DEF x
  <2>3. CASE Execute(w)
    <3>1. PICK o \in {"ok", "retry", "permanent", "await"} :
             (o = "await" => tw[w].made) /\ tw' = [tw EXCEPT ![w] = Finishing(tw[w], o)]
      BY <2>3 DEF Execute
    <3>2. /\ Finishing(tw[w], o).run = tw[w].run /\ Finishing(tw[w], o).call = tw[w].call
          /\ Finishing(tw[w], o).made = tw[w].made /\ Finishing(tw[w], o).outcome = o
          /\ tw[w].pc = "running"
      BY <2>3 DEF Finishing, Execute
    <3> QED BY <1>5, <3>1, <3>2
  <2>4. CASE Delegate(w)
    <3> DEFINE x == [tw[w] EXCEPT !.made = TRUE]
    <3>1. tw' = [tw EXCEPT ![w] = x] /\ tw[w].pc # "idle"
      BY <2>4 DEF Delegate
    <3>2. tw[w] \in Worker
      BY <1>0
    <3>3. x.run = tw[w].run /\ x.call = tw[w].call /\ x.made
      BY <3>2 DEF Worker
    <3>4. PICK r \in Runs, c \in Calls : r = tw[w].run /\ c = tw[w].call
      BY <3>1 DEF Base, WorkerShape
    <3>5. deleg' = [deleg EXCEPT ![r][c] = Delegated(deleg[r][c])]
      BY <2>4, <3>4 DEF Delegate
    <3>6. deleg'[r][c].status # "none"
      BY <1>0, <3>5 DEF Delegated
    <3> HIDE DEF x
    <3> QED BY <1>4, <3>1, <3>3, <3>4, <3>6
  <2>5. CASE SucceedRaises(w)
    <3> DEFINE x == [tw[w] EXCEPT !.outcome = "permanent"]
    <3>1. tw' = [tw EXCEPT ![w] = x] /\ tw[w].pc = "finishing"
      BY <2>5 DEF SucceedRaises
    <3>2. tw[w] \in Worker
      BY <1>0
    <3>3. /\ x.run = tw[w].run /\ x.call = tw[w].call /\ x.made = tw[w].made
          /\ x.outcome = "permanent"
      BY <3>2 DEF Worker
    <3> HIDE DEF x
    <3> QED BY <1>5, <3>1, <3>3
  <2>6. CASE WriteOutcome(w) \/ LoseJob(w) \/ Vanish(w)
    <3>1. tw' = [tw EXCEPT ![w] = IdleWorker]
      BY <2>6 DEF WriteOutcome, LoseJob, Vanish
    <3> QED BY <1>4, <3>1 DEF IdleWorker
  <2>7. CASE Heartbeat(w)
    BY <1>3, <2>7 DEF Heartbeat
  <2> QED BY <2>1, <2>2, <2>3, <2>4, <2>5, <2>6, <2>7 DEF WorkerStep
<1>7. CASE \E w \in Workers, r \in Runs, c \in Calls : Claim(w, r, c)
  <2>1. PICK w \in Workers, r \in Runs, c \in Calls : Claim(w, r, c)
    BY <1>7
  <2> DEFINE n == job[r][c].attempts + 1
  <2> DEFINE x == [pc |-> "claimed", run |-> r, call |-> c, token |-> n,
                   made |-> FALSE, outcome |-> "none"]
  <2>2. tw' = [tw EXCEPT ![w] = x]
    BY <2>1 DEF Claim
  <2>3. x.pc = "claimed" /\ x.made = FALSE
    OBVIOUS
  <2> HIDE DEF x
  <2> QED BY <1>4, <2>2, <2>3
<1> QED
  BY <1>3, <1>6, <1>7 DEF Next, vars, RunStep, TaskLeaves, Wake, Dispatch, JobStep,
     LeaseLapses, DelayElapses, ChildStarts, ChildRetries, ChildEnds, ProjectChild,
     CancelInvalidatedChild, RecoverExpired

LEMMA PairedMoves ==
    ASSUME NEW d \in Delegation, NEW e \in Delegation, NEW j, NEW k,
           Paired(d, j), DelegMoves(d, e, j, k),
           j.status \in JobTerminal => k.status = j.status,
           k.status = "awaiting_specialist" =>
              j.status = "awaiting_specialist" \/ (d.status = "PENDING" /\ e = d)
    PROVE  Paired(e, k)
<1>1. CASE e = d
  BY <1>1 DEF Paired, JobTerminal, Closed
<1>2. CASE /\ d.status = "none"
           /\ e.status = "PENDING" /\ e.children = d.children + 1 /\ e.settled = d.settled
  BY <1>2 DEF Paired, Closed
<1>3. CASE /\ d.child \in {"queued", "active"}
           /\ e.status = d.status /\ e.children = d.children /\ e.settled = d.settled
  BY <1>3 DEF Paired, Closed, ChildEnd
<1>4. CASE /\ d.status = "PENDING" /\ j.status = "awaiting_specialist"
           /\ e.status \in Closed /\ e.child \in ChildEnd
           /\ e.children = d.children /\ e.settled = d.settled + 1
           /\ k.status = IF e.status = "COMPLETED" THEN "succeeded" ELSE "failed"
  BY <1>4 DEF Paired, Closed
<1> QED BY <1>1, <1>2, <1>3, <1>4 DEF DelegMoves

LEMMA PairedStep ==
    ASSUME Base, SpecialistInv, [Next]_vars
    PROVE  DelegationsPaired'
<1> SUFFICES ASSUME NEW r \in Runs, NEW c \in Calls
             PROVE  Paired(deleg'[r][c], job'[r][c])
  BY DEF DelegationsPaired
<1> DEFINE d == deleg[r][c]
           e == deleg'[r][c]
           j == job[r][c]
           k == job'[r][c]
<1>1. /\ DelegMoves(d, e, j, k) /\ Paired(d, j)
      /\ d \in Delegation /\ e \in Delegation /\ JobMoves(j, k) /\ j \in Job
  BY NextDelegs, DelegationsTyped, NextMoves
     DEF DelegsMove, JobsMove, SpecialistInv, DelegationsPaired, Base, TypeOK
<1>2. j.status \in JobTerminal => k.status = j.status
  BY <1>1, TerminalStays
<1>3. ASSUME k.status = "awaiting_specialist", j.status # "awaiting_specialist"
      PROVE  d.status = "PENDING" /\ e = d
  <2>1. PICK w \in Workers : /\ WriteOutcome(w) /\ tw[w].outcome = "await"
                             /\ tw[w].run = r /\ tw[w].call = c
    BY <1>3, ParkedByOutcome
  <2>2. tw[w].pc = "finishing" /\ j.status = "running" /\ e = d
    BY <2>1 DEF WriteOutcome, JobOf
  <2>3. d.status # "none"
    BY <2>1, <2>2 DEF SpecialistInv, DelegatorsDelegated
  <2>4. d.status \notin Closed
    BY <1>1, <2>2 DEF Paired
  <2> QED BY <1>1, <2>2, <2>3, <2>4 DEF Delegation, Closed
<1> QED BY <1>1, <1>2, <1>3, PairedMoves

LEMMA SpecialistInit == Init => SpecialistInv
BY DEF Init, SpecialistInv, DelegationsPaired, Paired, Closed, DelegatorsDelegated,
   IdleWorker

LEMMA SpecialistAlways == Spec => []SpecialistInv
<1>1. SpecialistInv /\ Base /\ [Next]_vars => SpecialistInv'
  BY DelegatorsStep, PairedStep DEF SpecialistInv
<1> QED BY <1>1, SpecialistInit, BaseAlways, PTL DEF Spec

(* However often a delegating job is retried, recovered or projected, it has *)
(* one child whose usage is charged once, and a job is parked without a      *)
(* lease only while an open delegation will end it.                          *)
THEOREM SpecialistsArePaired == Spec => [](OneChildOneSettlement /\ SpecialistAgrees)
<1>1. Base /\ SpecialistInv => OneChildOneSettlement
  BY DEF SpecialistInv, DelegationsPaired, Paired, OneChildOneSettlement, Base, TypeOK,
     Delegation, Closed
<1>2. SpecialistInv => SpecialistAgrees
  BY DEF SpecialistInv, DelegationsPaired, Paired, SpecialistAgrees, Closed
<1> QED BY <1>1, <1>2, BaseAlways, SpecialistAlways, PTL

-----------------------------------------------------------------------------
(* Late workers *)

LateWorkersKeepStill ==
    \A w \in Workers :
       tw[w].pc \in {"running", "finishing"} /\ JobOf(w).token # tw[w].token
       => /\ tw'[w] # tw[w] => job' = job
          /\ ~(tw'[w].made /\ ~tw[w].made)

LEMMA LateStep ==
    ASSUME Base, [Next]_vars
    PROVE  LateWorkersKeepStill
<1>0. tw \in [Workers -> Worker]
  BY DEF Base, TypeOK
<1>1. CASE UNCHANGED tw
  BY <1>1 DEF LateWorkersKeepStill
<1>2. CASE \E w \in Workers, r \in Runs, c \in Calls : Claim(w, r, c)
  <2>1. PICK w \in Workers, r \in Runs, c \in Calls : Claim(w, r, c)
    BY <1>2
  <2>2. tw[w].pc = "idle" /\ \A v \in Workers : v # w => tw'[v] = tw[v]
    BY <2>1, ClaimWorkers DEF Claim
  <2> QED BY <2>2 DEF LateWorkersKeepStill
<1>3. CASE \E w \in Workers : WorkerStep(w)
  <2>1. PICK w \in Workers : WorkerStep(w)
    BY <1>3
  <2>2. \A v \in Workers : v # w => tw'[v] = tw[v]
    BY <1>0, <2>1 DEF WorkerStep, Start, Heartbeat, Execute, Delegate, WriteOutcome,
       SucceedRaises, LoseJob, Vanish
  <2>3. ASSUME tw[w].pc \in {"running", "finishing"}, JobOf(w).token # tw[w].token
        PROVE  job' = job /\ ~(tw'[w].made /\ ~tw[w].made)
    <3>1. ~HoldsJob(w)
      BY <2>3 DEF HoldsJob
    <3>2. Execute(w) \/ SucceedRaises(w) \/ LoseJob(w) \/ Vanish(w)
      BY <2>1, <3>1 DEF WorkerStep, Start, Heartbeat, Delegate, WriteOutcome
    <3>3. job' = job
      BY <3>2 DEF Execute, SucceedRaises, LoseJob, Vanish
    <3>4. CASE Execute(w)
      <4>1. PICK o : tw' = [tw EXCEPT ![w] = Finishing(tw[w], o)]
        BY <3>4 DEF Execute
      <4>2. tw'[w].made = tw[w].made
        BY <1>0, <4>1 DEF Finishing
      <4> QED BY <3>3, <4>2
    <3>5. CASE SucceedRaises(w)
      <4>1. tw' = [tw EXCEPT ![w] = [tw[w] EXCEPT !.outcome = "permanent"]]
        BY <3>5 DEF SucceedRaises
      <4>2. tw[w] \in Worker
        BY <1>0
      <4>3. tw'[w].made = tw[w].made
        BY <1>0, <4>1, <4>2 DEF Worker
      <4> QED BY <3>3, <4>3
    <3>6. CASE LoseJob(w) \/ Vanish(w)
      <4>1. tw'[w] = IdleWorker
        BY <1>0, <3>6 DEF LoseJob, Vanish
      <4> QED BY <3>3, <4>1 DEF IdleWorker
    <3> QED BY <3>2, <3>4, <3>5, <3>6
  <2> QED BY <2>2, <2>3 DEF LateWorkersKeepStill
<1> QED
  BY <1>1, <1>2, <1>3 DEF Next, vars, RunStep, TaskLeaves, Wake, Dispatch, JobStep,
     LeaseLapses, DelayElapses, ChildStarts, ChildRetries, ChildEnds, ProjectChild,
     CancelInvalidatedChild, RecoverExpired

(* Jobs, workers and specialists agree in every behaviour: bounded attempts, *)
(* one holder per job, no job open behind a run's back, one child and one    *)
(* settlement per delegation, and nothing written by a worker whose lease    *)
(* was taken away.                                                           *)
THEOREM ToolLayerAgrees == Spec => JobsAgree
<1>1. Base /\ [Next]_vars =>
         [\A w \in Workers :
             tw[w].pc \in {"running", "finishing"} /\ JobOf(w).token # tw[w].token
             => /\ tw'[w] # tw[w] => job' = job
                /\ ~(tw'[w].made /\ ~tw[w].made)]_vars
  BY LateStep DEF LateWorkersKeepStill
<1>2. Spec => LateWorkerChangesNothing
  BY <1>1, BaseAlways, PTL DEF Spec, LateWorkerChangesNothing
<1> QED BY <1>2, AttemptsAreBounded, JobsAreFenced, ResultsStand, SpecialistsArePaired,
           PTL DEF JobsAgree
=============================================================================
