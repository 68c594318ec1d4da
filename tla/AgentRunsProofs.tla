-------------------------- MODULE AgentRunsProofs --------------------------
(* Machine-checked proofs about AgentRuns, for any number of runs, workers,  *)
(* clients and commands.                                                     *)
EXTENDS AgentRuns, TLAPS

-----------------------------------------------------------------------------
(* Type correctness *)

CommandStatus == {"absent", "pending", "applied", "rejected"}

LEMMA Statuses ==
    /\ "queued" \in Status /\ "leased" \in Status /\ "running" \in Status
    /\ "completed" \in Status /\ "failed" \in Status /\ "cancelled" \in Status
    /\ "awaiting_approval" \in Status /\ "awaiting_tool" \in Status
    /\ Outcome \subseteq Status
BY DEF Status, Outcome

LEMMA Places ==
    /\ "idle" \in WorkerPC /\ "claimed" \in WorkerPC /\ "started" \in WorkerPC
    /\ "turn" \in WorkerPC /\ "model" \in WorkerPC /\ "commit" \in WorkerPC
    /\ "raised" \in WorkerPC
    /\ "idle" \in ClientPC /\ "get" \in ClientPC /\ "load" \in ClientPC
    /\ "write" \in ClientPC
    /\ "completed" \in Outcome /\ "failed" \in Outcome
    /\ "awaiting_approval" \in Outcome /\ "awaiting_tool" \in Outcome
BY DEF WorkerPC, ClientPC, Outcome

LEMMA InitialRecords ==
    /\ NewCheckpoint \in Checkpoint
    /\ IdleWorker \in Worker
    /\ IdleClient \in Client
    /\ NoRow \in Row
<1>1. NewCheckpoint \in Checkpoint
  BY LimitsAssumption DEF NewCheckpoint, Checkpoint, Seqs
<1>2. IdleWorker \in Worker
  BY <1>1, Places DEF IdleWorker, Worker
<1>3. IdleClient \in Client
  BY <1>1, Places, LimitsAssumption DEF IdleClient, Client
<1>4. NoRow \in Row
  BY LimitsAssumption DEF NoRow, Row, Status
<1> QED BY <1>1, <1>2, <1>3, <1>4

LEMMA FailureType ==
    ASSUME NEW x \in Row, x.failures < MaxFailures
    PROVE  AfterFailure(x) \in Row
<1>1. (~Exhausted(x)) \in BOOLEAN
  OBVIOUS
<1>2. x.failures + 1 \in 0..MaxFailures /\ x.version + 1 \in Nat
  BY LimitsAssumption DEF Row
<1> DEFINE d == ~Exhausted(x)
<1> HIDE DEF d
<1>3. AfterFailure(x) =
        [status |-> IF Exhausted(x) THEN "failed" ELSE "queued",
         version |-> x.version + 1, turns |-> x.turns, token |-> 0,
         lapsed |-> FALSE, delayed |-> d,
         failures |-> x.failures + 1, pending |-> x.pending]
  BY Zenon DEF AfterFailure, d
<1> QED BY <1>1, <1>2, <1>3 DEF Row, Status, d

LEMMA CheckpointRowType ==
    ASSUME NEW x \in Row, NEW t \in Status, NEW n \in 0..MaxTurns,
           NEW a \in Approvals \cup {None}
    PROVE  AfterCheckpoint(x, t, n, a) \in Row
BY DEF AfterCheckpoint, Row

LEMMA PulledType ==
    ASSUME NEW r, NEW k \in Checkpoint, NEW n \in 0..MaxHistory
    PROVE  Pulled(r, k, n) \in Checkpoint
BY DEF Pulled, Checkpoint

LEMMA RejectType ==
    ASSUME NEW c \in [Seqs -> CommandStatus]
    PROVE  /\ RejectPending(c) \in [Seqs -> CommandStatus]
           /\ \A x : CommandsAfter(x, c) \in [Seqs -> CommandStatus]
           /\ \A a : CommandsCommitted(c, a) \in [Seqs -> CommandStatus]
BY DEF RejectPending, CommandsAfter, CommandsCommitted, CommandStatus

-----------------------------------------------------------------------------
(* The base invariant: types, the failure budget, and what a token means.    *)

(* Only a leased or running row carries a token.                             *)
TokenMeansLeased ==
    \A r \in Runs : row[r].token # 0 => row[r].status \in Leased

(* A busy worker has a run and a token, and one that commits an outcome.     *)
WorkerShape ==
    \A w \in Workers :
        /\ Busy(w) => wk[w].run \in Runs /\ wk[w].token # 0
        /\ wk[w].pc = "commit" => wk[w].result \in Outcome

(* A client in a call has a run.                                             *)
CallHasRun ==
    \A c \in Clients : cl[c].pc # "idle" => cl[c].run \in Runs

Base ==
    TypeOK /\ FailureBudget /\ TokenMeansLeased /\ WorkerShape /\ CallHasRun

LEMMA BaseInit == Init => Base
<1> SUFFICES ASSUME Init PROVE Base
  OBVIOUS
<1>1. TypeOK
  BY InitialRecords, LimitsAssumption DEF Init, TypeOK
<1>2. FailureBudget /\ TokenMeansLeased /\ WorkerShape /\ CallHasRun
  BY LimitsAssumption DEF Init, FailureBudget, TokenMeansLeased, WorkerShape, CallHasRun,
     NoRow, IdleWorker, IdleClient, Busy
<1> QED BY <1>1, <1>2 DEF Base

LEMMA HolderIsLeased ==
    ASSUME Base, NEW w \in Workers, HoldsLease(w)
    PROVE  /\ wk[w].run \in Runs
           /\ row[wk[w].run].status \in Leased
           /\ row[wk[w].run].failures < MaxFailures
BY DEF Base, TokenMeansLeased, WorkerShape, FailureBudget, HoldsLease, Leased

LEMMA BaseCreate ==
    ASSUME Base, NEW r \in Runs, Create(r)
    PROVE  Base'
<1> USE DEF Base, TypeOK, Create
<1>1. row' \in [Runs -> Row]
  BY Statuses DEF Row
<1>3. TypeOK'
  BY <1>1
<1>4. (FailureBudget /\ TokenMeansLeased)'
  BY DEF FailureBudget, TokenMeansLeased, Leased, Row
<1>5. (WorkerShape /\ CallHasRun)'
  BY DEF WorkerShape, CallHasRun, Busy
<1> QED BY <1>3, <1>4, <1>5

LEMMA BaseSubmit ==
    ASSUME Base, NEW r \in Runs, NEW type, SubmitControl(r, type)
    PROVE  Base'
<1> USE DEF Base, TypeOK, SubmitControl
<1>1. row' \in [Runs -> Row]
  BY Statuses, SMTT(30) DEF Row
<1>2. cmd' \in [Runs -> [Seqs -> CommandStatus]]
  BY DEF CommandStatus
<1>3. TypeOK'
  BY <1>1, <1>2 DEF CommandStatus
<1>4. (FailureBudget /\ TokenMeansLeased)'
  BY DEF FailureBudget, TokenMeansLeased, Leased, Row
<1>5. (WorkerShape /\ CallHasRun)'
  BY DEF WorkerShape, CallHasRun, Busy
<1> QED BY <1>3, <1>4, <1>5

LEMMA BaseCancel ==
    ASSUME Base, NEW r \in Runs, CancelQueued(r)
    PROVE  Base'
<1> USE DEF Base, TypeOK, CancelQueued
<1>1. row' \in [Runs -> Row]
  BY Statuses DEF Row
<1>2. cmd' \in [Runs -> [Seqs -> CommandStatus]]
  BY RejectType DEF CommandStatus
<1>3. TypeOK'
  BY <1>1, <1>2 DEF CommandStatus
<1>4. (FailureBudget /\ TokenMeansLeased)'
  BY DEF FailureBudget, TokenMeansLeased, Leased, Row
<1>5. (WorkerShape /\ CallHasRun)'
  BY DEF WorkerShape, CallHasRun, Busy
<1> QED BY <1>3, <1>4, <1>5

LEMMA BaseLapse ==
    ASSUME Base, NEW r \in Runs, LeaseLapses(r)
    PROVE  Base'
<1> USE DEF Base, TypeOK, LeaseLapses
<1>1. row' \in [Runs -> Row]
  BY Statuses, ZenonT(30) DEF Row
<1>3. TypeOK'
  BY <1>1
<1>4. (FailureBudget /\ TokenMeansLeased)'
  BY DEF FailureBudget, TokenMeansLeased, Leased, Row
<1>5. (WorkerShape /\ CallHasRun)'
  BY DEF WorkerShape, CallHasRun, Busy
<1> QED BY <1>3, <1>4, <1>5

LEMMA BaseBackoff ==
    ASSUME Base, NEW r \in Runs, BackoffElapses(r)
    PROVE  Base'
<1> USE DEF Base, TypeOK, BackoffElapses
<1>1. row' \in [Runs -> Row]
  BY Statuses, ZenonT(30) DEF Row
<1>3. TypeOK'
  BY <1>1
<1>4. (FailureBudget /\ TokenMeansLeased)'
  BY DEF FailureBudget, TokenMeansLeased, Leased, Row
<1>5. (WorkerShape /\ CallHasRun)'
  BY DEF WorkerShape, CallHasRun, Busy
<1> QED BY <1>3, <1>4, <1>5

LEMMA BaseHeartbeat ==
    ASSUME Base, NEW w \in Workers, Heartbeat(w)
    PROVE  Base'
<1> USE DEF Base, TypeOK
<1>1. PICK r \in Runs : r = wk[w].run
  BY HolderIsLeased DEF Heartbeat
<1>2. row' = [row EXCEPT ![r].lapsed = FALSE] /\ UNCHANGED <<ckpt, cmd, issued, wk, cl>>
  BY <1>1 DEF Heartbeat
<1>3. row' \in [Runs -> Row]
  BY <1>2, ZenonT(30) DEF Row
<1>4. TypeOK'
  BY <1>2, <1>3
<1>5. (FailureBudget /\ TokenMeansLeased)'
  BY <1>2 DEF FailureBudget, TokenMeansLeased, Row
<1>6. (WorkerShape /\ CallHasRun)'
  BY <1>2 DEF WorkerShape, CallHasRun, Busy
<1> QED BY <1>4, <1>5, <1>6

LEMMA BaseClaim ==
    ASSUME Base, NEW w \in Workers, NEW r \in Runs, Claim(w, r)
    PROVE  Base'
<1> USE DEF Base, TypeOK
<1>1. FreshToken(r) \in Nat /\ FreshToken(r) # 0
  BY DEF FreshToken
<1>2. row' = [row EXCEPT ![r].status = "leased", ![r].version = @ + 1,
                         ![r].token = FreshToken(r), ![r].lapsed = FALSE]
  BY DEF Claim
<1>3. row' \in [Runs -> Row]
  BY <1>1, <1>2, Statuses DEF Row
<1>4. wk' \in [Workers -> Worker]
  BY <1>1, Places DEF Worker, Claim
<1>5. TypeOK'
  BY <1>3, <1>4 DEF Claim
<1>6. (FailureBudget /\ TokenMeansLeased)'
  BY <1>2 DEF Claim, FailureBudget, TokenMeansLeased, Leased, Row
<1>7. (WorkerShape /\ CallHasRun)'
  BY <1>1 DEF Claim, WorkerShape, CallHasRun, Busy
<1> QED BY <1>5, <1>6, <1>7

LEMMA BaseStart ==
    ASSUME Base, NEW w \in Workers, Start(w)
    PROVE  Base'
<1> USE DEF Base, TypeOK
<1>1. PICK r \in Runs : r = wk[w].run
  BY HolderIsLeased DEF Start
<1>2. row' = [row EXCEPT ![r].status = "running", ![r].version = @ + 1,
                         ![r].delayed = FALSE]
  BY <1>1 DEF Start
<1>3. row[r].failures < MaxFailures
  BY <1>1, HolderIsLeased DEF Start
<1>4. row' \in [Runs -> Row]
  BY <1>2, Statuses DEF Row
<1>5. wk' \in [Workers -> Worker]
  <2>1. PICK pc \in WorkerPC : wk' = [wk EXCEPT ![w].pc = pc]
    BY Places DEF Start
  <2> QED BY <2>1, ZenonT(30) DEF Worker
<1>6. TypeOK'
  BY <1>4, <1>5 DEF Start
<1>7. (FailureBudget /\ TokenMeansLeased)'
  BY <1>2, <1>3 DEF FailureBudget, TokenMeansLeased, Leased, Row
<1>8. (WorkerShape /\ CallHasRun)'
  BY DEF Start, WorkerShape, CallHasRun, Busy, Worker
<1> QED BY <1>6, <1>7, <1>8

LEMMA BaseRecover ==
    ASSUME Base, RecoverExpired
    PROVE  Base'
<1> USE DEF Base, TypeOK
<1>1. PICK S \in SUBSET {r \in Runs : row[r].status \in Leased /\ row[r].lapsed} :
        /\ row' = [r \in Runs |-> IF r \in S THEN AfterFailure(row[r]) ELSE row[r]]
        /\ cmd' = [r \in Runs |-> IF r \in S
                                  THEN CommandsAfter(AfterFailure(row[r]), cmd[r])
                                  ELSE cmd[r]]
        /\ UNCHANGED <<ckpt, issued, wk, cl>>
  BY DEF RecoverExpired
<1>2. \A r \in S : r \in Runs /\ row[r].failures < MaxFailures
  BY DEF FailureBudget, Leased
<1>3. row' \in [Runs -> Row]
  BY <1>1, <1>2, FailureType
<1>4. cmd' \in [Runs -> [Seqs -> CommandStatus]]
  BY <1>1, RejectType DEF CommandStatus
<1>5. TypeOK'
  BY <1>1, <1>3, <1>4 DEF CommandStatus
<1>6. \A r \in Runs : (row[r].failures < MaxFailures \/ row[r].status = "failed")'
  <2> TAKE r \in Runs
  <2>1. CASE r \in S
    BY <1>1, <1>2, <2>1, LimitsAssumption DEF AfterFailure, Exhausted, Row
  <2>2. CASE r \notin S
    BY <1>1, <2>2 DEF FailureBudget
  <2> QED BY <2>1, <2>2
<1>7. (FailureBudget /\ TokenMeansLeased)'
  BY <1>1, <1>6 DEF FailureBudget, TokenMeansLeased, AfterFailure
<1>8. (WorkerShape /\ CallHasRun)'
  BY <1>1 DEF WorkerShape, CallHasRun, Busy
<1> QED BY <1>5, <1>7, <1>8

LEMMA BaseCommit ==
    ASSUME Base, NEW w \in Workers, Commit(w)
    PROVE  Base'
<1> USE DEF Base, TypeOK
<1>1. PICK r \in Runs : r = wk[w].run
  BY HolderIsLeased DEF Commit
<1>2. PICK k \in Checkpoint : k = wk[w].ck
  BY DEF Worker
<1>3. PICK t \in Status : t = CommitTarget(r, k, wk[w].result)
  <2>1. wk[w].result \in Status
    BY Statuses DEF Commit, WorkerShape
  <2> QED BY <2>1, Statuses DEF CommitTarget
<1>4. PICK a \in Approvals \cup {None} : a = wk[w].ask
  BY DEF Worker
<1>5. /\ row' = [row EXCEPT ![r] = AfterCheckpoint(@, t, k.turns, a)]
      /\ ckpt' = [ckpt EXCEPT ![r] = k]
      /\ cmd' = [cmd EXCEPT ![r] =
                    CommandsAfter(row'[r], CommandsCommitted(@, wk[w].applied))]
      /\ UNCHANGED <<issued, cl>>
      /\ wk[w].pc = "commit"
      /\ \/ wk' = [wk EXCEPT ![w] = IdleWorker]
         \/ wk' = [wk EXCEPT ![w].pc = "raised"]
  BY <1>1, <1>2, <1>3, <1>4 DEF Commit
<1>6. row' \in [Runs -> Row]
  <2>1. k.turns \in 0..MaxTurns
    BY DEF Checkpoint
  <2> QED BY <1>5, <2>1, CheckpointRowType
<1>7. cmd' \in [Runs -> [Seqs -> CommandStatus]]
  BY <1>5, RejectType DEF CommandStatus
<1>8. wk' \in [Workers -> Worker]
  <2>1. CASE wk' = [wk EXCEPT ![w] = IdleWorker]
    BY <2>1, InitialRecords
  <2>2. CASE wk' = [wk EXCEPT ![w].pc = "raised"]
    BY <2>2, Places, ZenonT(30) DEF Worker
  <2> QED BY <1>5, <2>1, <2>2
<1>9. TypeOK'
  BY <1>5, <1>6, <1>7, <1>8 DEF CommandStatus
<1>10. row[r].failures < MaxFailures
  BY <1>1, HolderIsLeased DEF Commit
<1>11. (FailureBudget /\ TokenMeansLeased)'
  BY <1>5, <1>10 DEF FailureBudget, TokenMeansLeased, AfterCheckpoint
<1>12. (WorkerShape /\ CallHasRun)'
  <2>1. CASE wk' = [wk EXCEPT ![w] = IdleWorker]
    BY <1>5, <2>1 DEF WorkerShape, CallHasRun, Busy, IdleWorker
  <2>2. CASE wk' = [wk EXCEPT ![w].pc = "raised"]
    BY <1>5, <2>2 DEF WorkerShape, CallHasRun, Busy, Worker
  <2> QED BY <1>5, <2>1, <2>2
<1> QED BY <1>9, <1>11, <1>12

LEMMA BaseRetry ==
    ASSUME Base, NEW w \in Workers, Retry(w)
    PROVE  Base'
<1> USE DEF Base, TypeOK
<1>1. PICK r \in Runs : r = wk[w].run
  BY HolderIsLeased DEF Retry
<1>2. /\ row' = [row EXCEPT ![r] = AfterFailure(@)]
      /\ cmd' = [cmd EXCEPT ![r] = CommandsAfter(AfterFailure(row[r]), @)]
      /\ wk' = [wk EXCEPT ![w] = IdleWorker]
      /\ UNCHANGED <<ckpt, issued, cl>>
  BY <1>1 DEF Retry
<1>3. row[r].failures < MaxFailures
  BY <1>1, HolderIsLeased DEF Retry
<1>4. row' \in [Runs -> Row]
  BY <1>2, <1>3, FailureType
<1>5. cmd' \in [Runs -> [Seqs -> CommandStatus]]
  BY <1>2, RejectType DEF CommandStatus
<1>6. TypeOK'
  BY <1>2, <1>4, <1>5, InitialRecords DEF CommandStatus
<1>7. (row[r].failures < MaxFailures \/ row[r].status = "failed")'
  BY <1>2, <1>3, LimitsAssumption DEF AfterFailure, Exhausted, Row
<1>8. (FailureBudget /\ TokenMeansLeased)'
  BY <1>2, <1>7 DEF FailureBudget, TokenMeansLeased, AfterFailure
<1>9. (WorkerShape /\ CallHasRun)'
  BY <1>2 DEF WorkerShape, CallHasRun, Busy, IdleWorker
<1> QED BY <1>6, <1>8, <1>9

LEMMA BaseAbort ==
    ASSUME Base, NEW w \in Workers, Abort(w)
    PROVE  Base'
<1> USE DEF Base, TypeOK
<1>1. PICK r \in Runs : r = wk[w].run
  BY HolderIsLeased DEF Abort
<1>2. /\ row' = [row EXCEPT ![r] = AfterCheckpoint(@, "failed", @.turns, @.pending)]
      /\ cmd' = [cmd EXCEPT ![r] = RejectPending(@)]
      /\ wk' = [wk EXCEPT ![w] = IdleWorker]
      /\ UNCHANGED <<ckpt, issued, cl>>
  BY <1>1 DEF Abort
<1>3. row' \in [Runs -> Row]
  <2>1. row[r].turns \in 0..MaxTurns /\ row[r].pending \in Approvals \cup {None}
    BY DEF Row
  <2> QED BY <1>2, <2>1, Statuses, CheckpointRowType
<1>4. cmd' \in [Runs -> [Seqs -> CommandStatus]]
  BY <1>2, RejectType DEF CommandStatus
<1>5. TypeOK'
  BY <1>2, <1>3, <1>4, InitialRecords DEF CommandStatus
<1>6. (FailureBudget /\ TokenMeansLeased)'
  BY <1>2 DEF FailureBudget, TokenMeansLeased, AfterCheckpoint
<1>7. (WorkerShape /\ CallHasRun)'
  BY <1>2 DEF WorkerShape, CallHasRun, Busy, IdleWorker
<1> QED BY <1>5, <1>6, <1>7

(* Steps of the loop touch only the worker's own record.                     *)
LEMMA BaseLocal ==
    ASSUME Base, UNCHANGED <<row, ckpt, cmd, issued, cl>>,
           wk' \in [Workers -> Worker], WorkerShape'
    PROVE  Base'
BY DEF Base, TypeOK, FailureBudget, TokenMeansLeased, CallHasRun

LEMMA FinishShape ==
    ASSUME Base, NEW w \in Workers, Busy(w), NEW k \in Checkpoint,
           NEW A \in SUBSET Seqs, NEW result \in Outcome,
           NEW a \in Approvals \cup {None}, Finish(w, k, A, result, a)
    PROVE  wk' \in [Workers -> Worker] /\ WorkerShape'
<1>1. PICK k2 \in Checkpoint : k2 = [k EXCEPT !.binds = {}]
  BY DEF Checkpoint
<1>2. wk' = [wk EXCEPT ![w] =
                [pc |-> "commit", run |-> @.run, token |-> @.token, ck |-> k2,
                 applied |-> A, result |-> result, ask |-> a]]
  BY <1>1 DEF Finish
<1>3. wk \in [Workers -> Worker]
  BY DEF Base, TypeOK
<1>4. wk' \in [Workers -> Worker]
  BY <1>2, <1>3, Places DEF Worker
<1>5. WorkerShape'
  BY <1>2, <1>3 DEF Base, WorkerShape, Busy, Worker
<1> QED BY <1>4, <1>5

LEMMA ProceedShape ==
    ASSUME Base, NEW w \in Workers, Busy(w), NEW k \in Checkpoint,
           NEW A \in SUBSET Seqs, NEW pc \in {"started", "turn", "model"},
           Proceed(w, pc, k, A)
    PROVE  wk' \in [Workers -> Worker] /\ WorkerShape'
<1>1. wk \in [Workers -> Worker]
  BY DEF Base, TypeOK
<1>2. pc \in WorkerPC
  BY Places
<1>3. wk' \in [Workers -> Worker]
  BY <1>1, <1>2 DEF Proceed, Worker
<1>4. WorkerShape'
  BY <1>1 DEF Proceed, Base, WorkerShape, Busy, Worker
<1> QED BY <1>3, <1>4

LEMMA BaseIdle ==
    ASSUME Base, NEW w \in Workers, wk' = [wk EXCEPT ![w] = IdleWorker],
           UNCHANGED <<row, ckpt, cmd, issued, cl>>
    PROVE  Base'
<1>1. wk' \in [Workers -> Worker]
  BY InitialRecords DEF Base, TypeOK
<1>2. WorkerShape'
  BY DEF Base, TypeOK, WorkerShape, Busy, IdleWorker
<1> QED BY <1>1, <1>2, BaseLocal

LEMMA RecordTypes ==
    ASSUME NEW k \in Checkpoint
    PROVE  /\ \A b : Closed(k, b) \in Checkpoint
           /\ \A d \in BOOLEAN : [k EXCEPT !.dispatch = d] \in Checkpoint
           /\ \A A \in SUBSET Approvals, d \in BOOLEAN : WithToolCalls(k, A, d) \in Checkpoint
           /\ k.turns < MaxTurns => [k EXCEPT !.turns = @ + 1] \in Checkpoint
<1>1. \A b : Closed(k, b) \in Checkpoint
  BY DEF Closed, Checkpoint
<1>2. \A d \in BOOLEAN : [k EXCEPT !.dispatch = d] \in Checkpoint
  BY DEF Checkpoint
<1>3. \A A \in SUBSET Approvals, d \in BOOLEAN : WithToolCalls(k, A, d) \in Checkpoint
  BY DEF WithToolCalls, Checkpoint
<1>4. k.turns < MaxTurns => [k EXCEPT !.turns = @ + 1] \in Checkpoint
  <2> SUFFICES ASSUME k.turns < MaxTurns PROVE [k EXCEPT !.turns = @ + 1] \in Checkpoint
    OBVIOUS
  <2>1. k.turns + 1 \in 0..MaxTurns
    BY LimitsAssumption DEF Checkpoint
  <2> QED BY <2>1 DEF Checkpoint
<1> QED BY <1>1, <1>2, <1>3, <1>4

LEMMA WorkerParts ==
    ASSUME Base, NEW w \in Workers
    PROVE  /\ wk[w] \in Worker /\ wk[w].ck \in Checkpoint /\ wk[w].applied \in SUBSET Seqs
           /\ wk[w].ck.cursor \in 0..MaxHistory /\ wk[w].ck.turns \in 0..MaxTurns
           /\ wk[w].ck.dispatch \in BOOLEAN
           /\ wk[w].ck.binds \subseteq (Approvals \cup {None}) \X (Approvals \cup {None})
           /\ wk[w].ck.open \subseteq Approvals
BY DEF Base, TypeOK, Worker, Checkpoint

LEMMA BaseResumeBinding ==
    ASSUME Base, NEW w \in Workers, ResumeBinding(w)
    PROVE  Base'
<1> DEFINE k == wk[w].ck
<1>1. PICK b \in k.binds :
        \/ \E d \in {k.dispatch, TRUE} :
              Proceed(w, "started", [Closed(k, b) EXCEPT !.dispatch = d], {})
        \/ Finish(w, k, {}, "awaiting_approval", b[2])
        \/ Finish(w, Closed(k, b), {}, "failed", None)
  BY DEF ResumeBinding
<1>2. Busy(w) /\ UNCHANGED <<row, ckpt, cmd, issued, cl>>
  BY DEF ResumeBinding, Busy
<1>3. b[2] \in Approvals \cup {None} /\ {} \in SUBSET Seqs
  BY WorkerParts
<1>4. k \in Checkpoint /\ Closed(k, b) \in Checkpoint
  BY WorkerParts, RecordTypes
<1>5. \A d \in {k.dispatch, TRUE} : [Closed(k, b) EXCEPT !.dispatch = d] \in Checkpoint
  BY <1>4, WorkerParts, RecordTypes
<1> HIDE DEF k
<1>6. wk' \in [Workers -> Worker] /\ WorkerShape'
  <2>1. ASSUME NEW d \in {k.dispatch, TRUE},
               Proceed(w, "started", [Closed(k, b) EXCEPT !.dispatch = d], {})
        PROVE  wk' \in [Workers -> Worker] /\ WorkerShape'
    BY <1>2, <1>3, <1>5, <2>1, ProceedShape
  <2>2. CASE Finish(w, k, {}, "awaiting_approval", b[2])
    BY <1>2, <1>3, <1>4, <2>2, FinishShape, Places
  <2>3. CASE Finish(w, Closed(k, b), {}, "failed", None)
    BY <1>2, <1>3, <1>4, <2>3, FinishShape, Places
  <2> QED BY <1>1, <2>1, <2>2, <2>3
<1> QED BY <1>2, <1>6, BaseLocal

LEMMA BaseEnterLoop ==
    ASSUME Base, NEW w \in Workers, EnterLoop(w)
    PROVE  Base'
<1> DEFINE k == wk[w].ck
<1>1. \/ \E a \in k.open : Finish(w, k, {}, "awaiting_approval", a)
      \/ Finish(w, k, {}, "awaiting_tool", None)
      \/ Proceed(w, "turn", k, {})
  BY DEF EnterLoop
<1>2. Busy(w) /\ UNCHANGED <<row, ckpt, cmd, issued, cl>>
  BY DEF EnterLoop, Busy
<1>3. k \in Checkpoint /\ {} \in SUBSET Seqs /\ k.open \subseteq Approvals \cup {None}
  BY WorkerParts
<1> HIDE DEF k
<1>4. wk' \in [Workers -> Worker] /\ WorkerShape'
  BY <1>1, <1>2, <1>3, ProceedShape, FinishShape, Places
<1> QED BY <1>2, <1>4, BaseLocal

LEMMA BaseBeginTurn ==
    ASSUME Base, NEW w \in Workers, BeginTurn(w)
    PROVE  Base'
<1> DEFINE k == wk[w].ck
           r == wk[w].run
           A == wk[w].applied
<1>1. \/ Finish(w, k, A, "failed", None)
      \/ /\ k.turns < MaxTurns
         /\ \E n \in 0..MaxHistory :
               Proceed(w, "model", [Pulled(r, k, n) EXCEPT !.turns = @ + 1],
                       A \cup Due(r, k.cursor, n))
  BY DEF BeginTurn
<1>2. Busy(w) /\ UNCHANGED <<row, ckpt, cmd, issued, cl>>
  BY DEF BeginTurn, Busy
<1>3. k \in Checkpoint /\ A \in SUBSET Seqs
  BY WorkerParts
<1> HIDE DEF k, A, r
<1>4. ASSUME NEW n \in 0..MaxHistory, k.turns < MaxTurns
      PROVE  /\ [Pulled(r, k, n) EXCEPT !.turns = @ + 1] \in Checkpoint
             /\ A \cup Due(r, k.cursor, n) \in SUBSET Seqs
  <2>1. Pulled(r, k, n) \in Checkpoint /\ Pulled(r, k, n).turns = k.turns
    BY <1>3, PulledType DEF Pulled
  <2> QED BY <1>3, <1>4, <2>1, RecordTypes DEF Due
<1>5. wk' \in [Workers -> Worker] /\ WorkerShape'
  <2>1. CASE Finish(w, k, A, "failed", None)
    BY <1>2, <1>3, <2>1, FinishShape, Places
  <2>2. ASSUME k.turns < MaxTurns, NEW n \in 0..MaxHistory,
               Proceed(w, "model", [Pulled(r, k, n) EXCEPT !.turns = @ + 1],
                       A \cup Due(r, k.cursor, n))
        PROVE  wk' \in [Workers -> Worker] /\ WorkerShape'
    BY <1>2, <1>4, <2>2, ProceedShape
  <2> QED BY <1>1, <2>1, <2>2
<1> QED BY <1>2, <1>5, BaseLocal

LEMMA BaseModelReturns ==
    ASSUME Base, NEW w \in Workers, ModelReturns(w)
    PROVE  Base'
<1> DEFINE k == wk[w].ck
           r == wk[w].run
           A == wk[w].applied
<1>1. \/ Finish(w, k, A, "failed", None)
      \/ Finish(w, k, A, "completed", None)
      \/ \E n \in 0..MaxHistory :
            Proceed(w, "turn", Pulled(r, k, n), A \cup Due(r, k.cursor, n))
      \/ \E B \in SUBSET Approvals, d \in BOOLEAN :
            \/ \E a \in B : Finish(w, WithToolCalls(k, B, d), A, "awaiting_approval", a)
            \/ Finish(w, WithToolCalls(k, B, d), A, "awaiting_tool", None)
            \/ Proceed(w, "turn", WithToolCalls(k, B, d), A)
  BY DEF ModelReturns
<1>2. Busy(w) /\ UNCHANGED <<row, ckpt, cmd, issued, cl>>
  BY DEF ModelReturns, Busy
<1>3. k \in Checkpoint /\ A \in SUBSET Seqs
  BY WorkerParts
<1> HIDE DEF k, A, r
<1>4. wk' \in [Workers -> Worker] /\ WorkerShape'
  <2>1. CASE Finish(w, k, A, "failed", None) \/ Finish(w, k, A, "completed", None)
    BY <1>2, <1>3, <2>1, FinishShape, Places
  <2>2. ASSUME NEW n \in 0..MaxHistory,
               Proceed(w, "turn", Pulled(r, k, n), A \cup Due(r, k.cursor, n))
        PROVE  wk' \in [Workers -> Worker] /\ WorkerShape'
    <3>1. Pulled(r, k, n) \in Checkpoint /\ A \cup Due(r, k.cursor, n) \in SUBSET Seqs
      BY <1>3, PulledType DEF Due
    <3> QED BY <1>2, <2>2, <3>1, ProceedShape
  <2>3. ASSUME NEW B \in SUBSET Approvals, NEW d \in BOOLEAN,
            \/ \E a \in B : Finish(w, WithToolCalls(k, B, d), A, "awaiting_approval", a)
            \/ Finish(w, WithToolCalls(k, B, d), A, "awaiting_tool", None)
            \/ Proceed(w, "turn", WithToolCalls(k, B, d), A)
        PROVE  wk' \in [Workers -> Worker] /\ WorkerShape'
    <3>1. WithToolCalls(k, B, d) \in Checkpoint
      BY <1>3, RecordTypes
    <3> QED BY <1>2, <1>3, <2>3, <3>1, ProceedShape, FinishShape, Places
  <2> QED BY <1>1, <2>1, <2>2, <2>3
<1> QED BY <1>2, <1>4, BaseLocal

LEMMA ClientRecord ==
    ASSUME NEW pc \in ClientPC, NEW r \in Runs, NEW a \in Approvals \cup {None},
           NEW v \in Nat, NEW call \in Approvals \cup {None}, NEW t \in 0..MaxTurns,
           NEW k \in Checkpoint
    PROVE  [pc |-> pc, run |-> r, approval |-> a, expect |-> v, call |-> call,
            turns |-> t, ck |-> k] \in Client
BY DEF Client

LEMMA BaseBeginResume ==
    ASSUME Base, NEW c \in Clients, NEW r \in Runs, BeginResume(c, r)
    PROVE  Base'
<1> USE DEF Base, TypeOK
<1>1. row[r].pending \in Approvals \cup {None} /\ row[r].version \in Nat /\ 0 \in 0..MaxTurns
  BY LimitsAssumption DEF Row
<1>2. cl' \in [Clients -> Client]
  BY <1>1, Places, InitialRecords, ClientRecord DEF BeginResume
<1>3. CallHasRun'
  BY DEF BeginResume, CallHasRun, Client
<1> QED
  BY <1>2, <1>3 DEF BeginResume, FailureBudget, TokenMeansLeased, WorkerShape, Busy

LEMMA ClientParts ==
    ASSUME Base, NEW c \in Clients, cl[c].pc # "idle"
    PROVE  /\ cl[c].run \in Runs /\ cl[c].approval \in Approvals \cup {None}
           /\ cl[c].expect \in Nat /\ cl[c].call \in Approvals \cup {None}
           /\ cl[c].turns \in 0..MaxTurns /\ cl[c].ck \in Checkpoint
BY DEF Base, TypeOK, CallHasRun, Client

LEMMA BaseGetRun ==
    ASSUME Base, NEW c \in Clients, GetRun(c)
    PROVE  Base'
<1> USE DEF Base, TypeOK
<1>1. PICK r \in Runs : r = cl[c].run
  BY ClientParts DEF GetRun
<1>2. row[r].pending \in Approvals \cup {None} /\ row[r].turns \in 0..MaxTurns
  BY DEF Row
<1>3. cl' \in [Clients -> Client]
  BY <1>1, <1>2, Places, ClientParts, ClientRecord DEF GetRun
<1>4. CallHasRun'
  BY <1>1 DEF GetRun, CallHasRun
<1> QED
  BY <1>3, <1>4 DEF GetRun, FailureBudget, TokenMeansLeased, WorkerShape, Busy

LEMMA BoundCheckpoint ==
    ASSUME NEW k \in Checkpoint, NEW call \in Approvals \cup {None},
           NEW a \in Approvals \cup {None}
    PROVE  Bound(k, call, a) \in Checkpoint
BY DEF Checkpoint, Bound

LEMMA BaseLoadCheckpoint ==
    ASSUME Base, NEW c \in Clients, LoadCheckpoint(c)
    PROVE  Base'
<1> USE DEF Base, TypeOK
<1>1. PICK r \in Runs : r = cl[c].run
  BY ClientParts DEF LoadCheckpoint
<1>2. PICK k \in Checkpoint : k = Bound(ckpt[r], cl[c].call, cl[c].approval)
  BY ClientParts, BoundCheckpoint DEF LoadCheckpoint
<1>3. cl' \in [Clients -> Client]
  BY <1>1, <1>2, Places, ClientParts, ClientRecord DEF LoadCheckpoint
<1>4. CallHasRun'
  BY <1>1 DEF LoadCheckpoint, CallHasRun
<1> QED
  BY <1>3, <1>4 DEF LoadCheckpoint, FailureBudget, TokenMeansLeased, WorkerShape, Busy

LEMMA BaseRequeueAfterApproval ==
    ASSUME Base, NEW c \in Clients, RequeueAfterApproval(c)
    PROVE  Base'
<1> USE DEF Base, TypeOK
<1>1. PICK r \in Runs : r = cl[c].run
  BY DEF RequeueAfterApproval, CallHasRun
<1>2. /\ row' = [row EXCEPT ![r].status = "queued", ![r].version = @ + 1,
                            ![r].pending = None]
      /\ ckpt' = [ckpt EXCEPT ![r] = cl[c].ck]
      /\ cl' = [cl EXCEPT ![c] = IdleClient]
      /\ UNCHANGED <<cmd, issued, wk>>
      /\ row[r].status = "awaiting_approval"
  BY <1>1 DEF RequeueAfterApproval, ResumeAccepted
<1>3. row' \in [Runs -> Row]
  BY <1>2, Statuses DEF Row
<1>4. cl[c].ck \in Checkpoint
  BY DEF Client
<1>5. TypeOK'
  BY <1>2, <1>3, <1>4, InitialRecords
<1>6. (FailureBudget /\ TokenMeansLeased)'
  BY <1>2 DEF FailureBudget, TokenMeansLeased, Leased, Row
<1>7. (WorkerShape /\ CallHasRun)'
  BY <1>2 DEF WorkerShape, CallHasRun, Busy, IdleClient
<1> QED BY <1>5, <1>6, <1>7

LEMMA BaseAbandon ==
    ASSUME Base, NEW c \in Clients, AbandonResume(c)
    PROVE  Base'
<1> USE DEF Base, TypeOK
<1>1. cl' \in [Clients -> Client]
  BY InitialRecords DEF AbandonResume
<1>2. CallHasRun'
  BY DEF AbandonResume, CallHasRun, IdleClient
<1> QED
  BY <1>1, <1>2 DEF AbandonResume, FailureBudget, TokenMeansLeased, WorkerShape, Busy

LEMMA BaseRequeueAfterTools ==
    ASSUME Base, NEW r \in Runs, RequeueAfterTools(r)
    PROVE  Base'
<1> USE DEF Base, TypeOK
<1>1. row' \in [Runs -> Row]
  BY Statuses DEF RequeueAfterTools, Row
<1>2. ckpt' \in [Runs -> Checkpoint]
  BY ZenonT(30) DEF RequeueAfterTools, Checkpoint
<1>3. TypeOK'
  BY <1>1, <1>2 DEF RequeueAfterTools
<1>4. (FailureBudget /\ TokenMeansLeased)'
  <2>1. row' = [row EXCEPT ![r].status = "queued", ![r].version = @ + 1]
        /\ row[r].status = "awaiting_tool"
    BY DEF RequeueAfterTools
  <2> QED BY <2>1 DEF FailureBudget, TokenMeansLeased, Leased, Row
<1>5. (WorkerShape /\ CallHasRun)'
  BY DEF RequeueAfterTools, WorkerShape, CallHasRun, Busy
<1> QED BY <1>3, <1>4, <1>5

(* Every step is one of these.                                               *)
LEMMA BaseNext == Base /\ [Next]_vars => Base'
<1> SUFFICES ASSUME Base, [Next]_vars PROVE Base'
  OBVIOUS
<1>1. CASE UNCHANGED vars
  BY <1>1 DEF vars, Base, TypeOK, FailureBudget, TokenMeansLeased, WorkerShape, CallHasRun, Busy
<1>2. ASSUME NEW w \in Workers, WorkerStep(w) \/ Heartbeat(w) \/ Vanish(w) PROVE Base'
  BY <1>2, BaseClaim, BaseStart, BaseResumeBinding, BaseEnterLoop, BaseBeginTurn,
     BaseModelReturns, BaseCommit, BaseRetry, BaseAbort, BaseHeartbeat, BaseIdle
     DEF WorkerStep, LoseLease, Vanish
<1>3. ASSUME NEW c \in Clients, ClientStep(c) PROVE Base'
  BY <1>3, BaseBeginResume, BaseGetRun, BaseLoadCheckpoint, BaseRequeueAfterApproval,
     BaseAbandon DEF ClientStep
<1>4. ASSUME NEW r \in Runs, RunStep(r) PROVE Base'
  BY <1>4, BaseCreate, BaseSubmit, BaseCancel, BaseLapse, BaseBackoff, BaseRequeueAfterTools
     DEF RunStep
<1>5. CASE RecoverExpired
  BY <1>5, BaseRecover
<1> QED BY <1>1, <1>2, <1>3, <1>4, <1>5 DEF Next, NextWithoutRecovery

(* The state of every run, worker and client keeps its type, and retries and *)
(* lease recoveries together never exceed max_failures.                      *)
THEOREM TypeCorrect == Spec => [](TypeOK /\ FailureBudget)
<1>1. Base => TypeOK /\ FailureBudget
  BY DEF Base
<1> QED BY BaseInit, BaseNext, <1>1, PTL DEF Spec

-----------------------------------------------------------------------------
(* Versions: what a step may do to a row and its checkpoint *)

(* The step leaves status, wait and checkpoint of run r alone.               *)
Untouched(r) ==
    /\ row'[r].version = row[r].version /\ row'[r].status = row[r].status
    /\ row'[r].pending = row[r].pending /\ row'[r].turns = row[r].turns
    /\ ckpt'[r] = ckpt[r]

Newer(r) == row'[r].version > row[r].version

LEMMA VersionFrame ==
    ASSUME Base, Next, NEW r \in Runs
    PROVE  Untouched(r) \/ Newer(r)
<1> USE DEF Untouched, Newer
<1>0. row \in [Runs -> Row] /\ \A q \in Runs : row[q].version \in Nat
  BY DEF Base, TypeOK, Row
<1>1. ASSUME NEW q \in Runs, RunStep(q) PROVE Untouched(r) \/ Newer(r)
  <2>1. CASE Create(q)
    BY <1>0, <2>1 DEF Create, Row
  <2>2. ASSUME NEW type, SubmitControl(q, type) PROVE Untouched(r) \/ Newer(r)
    BY <1>0, <2>2 DEF SubmitControl, Row
  <2>3. CASE CancelQueued(q)
    BY <1>0, <2>3 DEF CancelQueued, Row
  <2>4. CASE LeaseLapses(q)
    BY <1>0, <2>4 DEF LeaseLapses, Row
  <2>5. CASE BackoffElapses(q)
    BY <1>0, <2>5 DEF BackoffElapses, Row
  <2>6. CASE RequeueAfterTools(q)
    <3>1. row' = [row EXCEPT ![q].status = "queued", ![q].version = @ + 1]
      BY <2>6 DEF RequeueAfterTools
    <3>2. r # q => ckpt'[r] = ckpt[r]
      BY <2>6 DEF RequeueAfterTools, Base, TypeOK
    <3> QED BY <1>0, <3>1, <3>2 DEF Row
  <2> QED BY <1>1, <2>1, <2>2, <2>3, <2>4, <2>5, <2>6 DEF RunStep
<1>2. ASSUME NEW c \in Clients, ClientStep(c) PROVE Untouched(r) \/ Newer(r)
  <2>1. CASE RequeueAfterApproval(c)
    <3>1. PICK q \in Runs : q = cl[c].run
      BY <2>1, ClientParts DEF RequeueAfterApproval
    <3>2. row' = [row EXCEPT ![q].status = "queued", ![q].version = @ + 1, ![q].pending = None]
      BY <2>1, <3>1 DEF RequeueAfterApproval
    <3>3. r # q => ckpt'[r] = ckpt[r]
      BY <2>1, <3>1 DEF RequeueAfterApproval, Base, TypeOK
    <3> QED BY <1>0, <3>2, <3>3 DEF Row
  <2>2. CASE UNCHANGED <<row, ckpt>>
    BY <2>2
  <2> QED BY <1>2, <2>1, <2>2 DEF ClientStep, BeginResume, GetRun, LoadCheckpoint, AbandonResume
<1>3. ASSUME NEW w \in Workers, WorkerStep(w) \/ Heartbeat(w) \/ Vanish(w)
      PROVE  Untouched(r) \/ Newer(r)
  <2>1. ASSUME NEW q \in Runs, Claim(w, q) PROVE Untouched(r) \/ Newer(r)
    BY <1>0, <2>1 DEF Claim, Row
  <2>2. CASE Start(w)
    <3>1. PICK q \in Runs : q = wk[w].run
      BY <2>2, HolderIsLeased DEF Start
    <3>2. row' = [row EXCEPT ![q].status = "running", ![q].version = @ + 1, ![q].delayed = FALSE]
          /\ ckpt' = ckpt
      BY <2>2, <3>1 DEF Start
    <3> QED BY <1>0, <3>2 DEF Row
  <2>3. CASE Heartbeat(w)
    <3>1. PICK q \in Runs : q = wk[w].run
      BY <2>3, HolderIsLeased DEF Heartbeat
    <3>2. row' = [row EXCEPT ![q].lapsed = FALSE] /\ ckpt' = ckpt
      BY <2>3, <3>1 DEF Heartbeat
    <3> QED BY <1>0, <3>2 DEF Row
  <2>4. CASE Commit(w)
    <3>1. PICK q \in Runs : q = wk[w].run
      BY <2>4, HolderIsLeased DEF Commit
    <3>2. \E t, n, a : row' = [row EXCEPT ![q] = AfterCheckpoint(@, t, n, a)]
      BY <2>4, <3>1 DEF Commit
    <3>3. r # q => ckpt'[r] = ckpt[r]
      BY <2>4, <3>1 DEF Commit, Base, TypeOK
    <3> QED BY <1>0, <3>2, <3>3 DEF AfterCheckpoint
  <2>5. CASE Retry(w)
    <3>1. PICK q \in Runs : q = wk[w].run
      BY <2>5, HolderIsLeased DEF Retry
    <3>2. row' = [row EXCEPT ![q] = AfterFailure(@)] /\ ckpt' = ckpt
      BY <2>5, <3>1 DEF Retry
    <3> QED BY <1>0, <3>2 DEF AfterFailure
  <2>6. CASE Abort(w)
    <3>1. PICK q \in Runs : q = wk[w].run
      BY <2>6, HolderIsLeased DEF Abort
    <3>2. /\ row' = [row EXCEPT ![q] = AfterCheckpoint(@, "failed", @.turns, @.pending)]
          /\ ckpt' = ckpt
      BY <2>6, <3>1 DEF Abort
    <3> QED BY <1>0, <3>2 DEF AfterCheckpoint
  <2>7. CASE UNCHANGED <<row, ckpt>>
    BY <2>7
  <2> QED BY <1>3, <2>1, <2>2, <2>3, <2>4, <2>5, <2>6, <2>7
          DEF WorkerStep, ResumeBinding, EnterLoop, BeginTurn, ModelReturns, LoseLease, Vanish
<1>4. CASE RecoverExpired
  BY <1>0, <1>4 DEF RecoverExpired, AfterFailure
<1> QED BY <1>1, <1>2, <1>3, <1>4 DEF Next, NextWithoutRecovery

-----------------------------------------------------------------------------
(* Resuming: a client whose version is still current has read nothing stale  *)

ClientCurrent(c) ==
    LET r == cl[c].run IN
    /\ row[r].version >= cl[c].expect
    /\ row[r].version = cl[c].expect =>
          /\ row[r].status = "awaiting_approval"
          /\ row[r].pending = cl[c].approval
          /\ cl[c].pc \in {"load", "write"} => cl[c].call = cl[c].approval
          /\ cl[c].pc = "write" =>
                cl[c].ck = Bound(ckpt[r], cl[c].approval, cl[c].approval)

ResumeInv == \A c \in Clients : cl[c].pc # "idle" => ClientCurrent(c)

(* A client that did not move keeps ClientCurrent through any step.          *)
LEMMA ClientWaits ==
    ASSUME Base, Next, NEW c \in Clients, cl[c].pc # "idle", cl'[c] = cl[c],
           ClientCurrent(c)
    PROVE  ClientCurrent(c)'
<1>1. PICK r \in Runs : r = cl[c].run
  BY ClientParts
<1>2. row[r].version \in Nat /\ cl[c].expect \in Nat /\ row'[r].version \in Nat
  BY <1>1, ClientParts, BaseNext DEF Base, TypeOK, Row
<1>3. Untouched(r) \/ Newer(r)
  BY VersionFrame
<1>4. CASE Untouched(r)
  BY <1>1, <1>2, <1>4 DEF ClientCurrent, Untouched
<1>5. CASE Newer(r)
  BY <1>1, <1>2, <1>5 DEF ClientCurrent, Newer
<1> QED BY <1>3, <1>4, <1>5

LEMMA ResumeNext == Base /\ ResumeInv /\ [Next]_vars => ResumeInv'
<1> SUFFICES ASSUME Base, ResumeInv, [Next]_vars PROVE ResumeInv'
  OBVIOUS
<1>1. CASE UNCHANGED vars
  BY <1>1 DEF vars, ResumeInv, ClientCurrent
<1>2. CASE Next
  <2> SUFFICES ASSUME NEW c \in Clients, cl'[c].pc # "idle" PROVE ClientCurrent(c)'
    BY DEF ResumeInv
  <2>0. cl \in [Clients -> Client]
    BY DEF Base, TypeOK
  <2>1. CASE cl'[c] = cl[c]
    BY <1>2, <2>1, ClientWaits DEF ResumeInv
  <2>2. ASSUME NEW r \in Runs, BeginResume(c, r) PROVE ClientCurrent(c)'
    <3>1. row[r].version \in Nat
      BY DEF Base, TypeOK, Row
    <3> QED BY <2>0, <2>2, <3>1 DEF BeginResume, ClientCurrent
  <2>3. CASE GetRun(c)
    <3>1. ClientCurrent(c)
      BY <2>3 DEF ResumeInv, GetRun
    <3> QED BY <2>0, <2>3, <3>1 DEF GetRun, ClientCurrent
  <2>4. CASE LoadCheckpoint(c)
    <3>1. ClientCurrent(c)
      BY <2>4 DEF ResumeInv, LoadCheckpoint
    <3> QED BY <2>0, <2>4, <3>1 DEF LoadCheckpoint, ClientCurrent
  <2>5. CASE RequeueAfterApproval(c) \/ AbandonResume(c)
    BY <2>0, <2>5 DEF RequeueAfterApproval, AbandonResume, IdleClient
  <2>6. ASSUME NEW d \in Clients, ClientStep(d), d # c PROVE cl'[c] = cl[c]
    BY <2>0, <2>6 DEF ClientStep, BeginResume, GetRun, LoadCheckpoint,
       RequeueAfterApproval, AbandonResume
  <2>7. ASSUME NEW w \in Workers, WorkerStep(w) \/ Heartbeat(w) \/ Vanish(w)
        PROVE  cl' = cl
    BY <2>7 DEF WorkerStep, Heartbeat, Vanish, Claim, Start, ResumeBinding, EnterLoop,
       BeginTurn, ModelReturns, Commit, Retry, Abort, LoseLease
  <2>8. ASSUME NEW r \in Runs, RunStep(r) PROVE cl' = cl
    BY <2>8 DEF RunStep, Create, SubmitControl, CancelQueued, LeaseLapses,
       BackoffElapses, RequeueAfterTools
  <2>9. CASE RecoverExpired
    BY <2>1, <2>9 DEF RecoverExpired
  <2> QED BY <1>2, <2>1, <2>2, <2>3, <2>4, <2>5, <2>6, <2>7, <2>8, <2>9
          DEF Next, NextWithoutRecovery, ClientStep
<1> QED BY <1>1, <1>2

(* resume_approval reads run and checkpoint in transactions of their own;    *)
(* whenever its final write would be accepted, what it writes is the stored  *)
(* checkpoint plus the one binding.                                          *)
THEOREM NoLostResume == Spec => []ResumeLosesNothing
<1>1. Init => ResumeInv
  BY DEF Init, ResumeInv, IdleClient
<1>2. Base /\ ResumeInv => ResumeLosesNothing
  BY DEF ResumeInv, ResumeLosesNothing, ClientCurrent, ResumeAccepted
<1> QED BY BaseInit, BaseNext, ResumeNext, <1>1, <1>2, PTL DEF Spec

-----------------------------------------------------------------------------
(* Fencing: tokens are never shared *)

Fencing ==
    /\ \A r \in Runs : row[r].token <= issued[r]
    /\ \A w \in Workers : Busy(w) => wk[w].token <= issued[wk[w].run]
    /\ \A v, w \in Workers :
          Busy(v) /\ Busy(w) /\ wk[v].run = wk[w].run /\ v # w => wk[v].token # wk[w].token

(* Every step but a claim keeps or drops tokens.                             *)
KeepsTokens ==
    /\ issued' = issued
    /\ \A r \in Runs : row'[r].token = row[r].token \/ row'[r].token = 0
    /\ \A w \in Workers : wk'[w].pc # "idle" =>
          Busy(w) /\ wk'[w].run = wk[w].run /\ wk'[w].token = wk[w].token

LEMMA TokenFrame ==
    ASSUME Base, Next
    PROVE  KeepsTokens \/ \E w \in Workers, r \in Runs : Claim(w, r)
<1>0. row \in [Runs -> Row] /\ wk \in [Workers -> Worker]
  BY DEF Base, TypeOK
<1>1. ASSUME NEW q \in Runs, RunStep(q) PROVE KeepsTokens
  <2>1. issued' = issued /\ wk' = wk
    BY <1>1 DEF RunStep, Create, SubmitControl, CancelQueued, LeaseLapses,
       BackoffElapses, RequeueAfterTools
  <2>2. \A r \in Runs : row'[r].token = row[r].token
    BY <1>0, <1>1 DEF Row, RunStep, Create, SubmitControl, CancelQueued, LeaseLapses,
       BackoffElapses, RequeueAfterTools
  <2> QED BY <2>1, <2>2 DEF KeepsTokens, Busy
<1>2. ASSUME NEW c \in Clients, ClientStep(c) PROVE KeepsTokens
  <2>1. issued' = issued /\ wk' = wk
    BY <1>2 DEF ClientStep, BeginResume, GetRun, LoadCheckpoint, RequeueAfterApproval,
       AbandonResume
  <2>2. \A r \in Runs : row'[r].token = row[r].token
    BY <1>0, <1>2 DEF Row, ClientStep, BeginResume, GetRun, LoadCheckpoint,
       RequeueAfterApproval, AbandonResume
  <2> QED BY <2>1, <2>2 DEF KeepsTokens, Busy
<1>3. ASSUME NEW w \in Workers, WorkerStep(w) \/ Heartbeat(w) \/ Vanish(w),
             ~\E r \in Runs : Claim(w, r)
      PROVE  KeepsTokens
  <2>1. \A v \in Workers : wk'[v].pc # "idle" =>
          Busy(v) /\ wk'[v].run = wk[v].run /\ wk'[v].token = wk[v].token
    <3> DEFINE Keeps == \A v \in Workers : wk'[v].pc # "idle" =>
                  Busy(v) /\ wk'[v].run = wk[v].run /\ wk'[v].token = wk[v].token
    <3>1. CASE wk' = [wk EXCEPT ![w] = IdleWorker] \/ wk' = wk
      BY <1>0, <3>1 DEF IdleWorker, Busy
    <3>2. ASSUME Busy(w), NEW pc, wk' = [wk EXCEPT ![w].pc = pc] PROVE Keeps
      BY <1>0, <3>2 DEF Busy, Worker
    <3>3. ASSUME Busy(w), NEW k, NEW A, NEW t, NEW a, Finish(w, k, A, t, a) PROVE Keeps
      BY <1>0, <3>3 DEF Busy, Finish
    <3>4. ASSUME Busy(w), NEW pc, NEW k, NEW A, Proceed(w, pc, k, A) PROVE Keeps
      BY <1>0, <3>4 DEF Busy, Proceed
    <3> HIDE DEF Keeps
    <3>5. CASE Start(w) \/ Commit(w)
      BY <3>1, <3>2, <3>5 DEF Start, Commit, HoldsLease, Keeps
    <3>6. CASE ResumeBinding(w)
      <4>1. PICK b \in wk[w].ck.binds :
              \/ \E d \in {wk[w].ck.dispatch, TRUE} :
                    Proceed(w, "started", [Closed(wk[w].ck, b) EXCEPT !.dispatch = d], {})
              \/ Finish(w, wk[w].ck, {}, "awaiting_approval", b[2])
              \/ Finish(w, Closed(wk[w].ck, b), {}, "failed", None)
        BY <3>6 DEF ResumeBinding
      <4>2. Busy(w)
        BY <3>6 DEF ResumeBinding, Busy
      <4> QED BY <3>3, <3>4, <4>1, <4>2 DEF Keeps
    <3>7. CASE EnterLoop(w)
      <4>1. \/ \E a \in wk[w].ck.open : Finish(w, wk[w].ck, {}, "awaiting_approval", a)
            \/ Finish(w, wk[w].ck, {}, "awaiting_tool", None)
            \/ Proceed(w, "turn", wk[w].ck, {})
        BY <3>7 DEF EnterLoop
      <4>2. Busy(w)
        BY <3>7 DEF EnterLoop, Busy
      <4> QED BY <3>3, <3>4, <4>1, <4>2 DEF Keeps
    <3>9. CASE BeginTurn(w)
      <4>1. \/ Finish(w, wk[w].ck, wk[w].applied, "failed", None)
            \/ \E n \in 0..MaxHistory :
                  Proceed(w, "model",
                          [Pulled(wk[w].run, wk[w].ck, n) EXCEPT !.turns = @ + 1],
                          wk[w].applied \cup Due(wk[w].run, wk[w].ck.cursor, n))
        BY <3>9 DEF BeginTurn
      <4>2. Busy(w)
        BY <3>9 DEF BeginTurn, Busy
      <4> QED BY <3>3, <3>4, <4>1, <4>2 DEF Keeps
    <3>10. CASE ModelReturns(w)
      <4> DEFINE k == wk[w].ck
                 r == wk[w].run
                 A == wk[w].applied
      <4>1. \/ Finish(w, k, A, "failed", None)
            \/ Finish(w, k, A, "completed", None)
            \/ \E n \in 0..MaxHistory :
                  Proceed(w, "turn", Pulled(r, k, n), A \cup Due(r, k.cursor, n))
            \/ \E B \in SUBSET Approvals, d \in BOOLEAN :
                  \/ \E a \in B : Finish(w, WithToolCalls(k, B, d), A, "awaiting_approval", a)
                  \/ Finish(w, WithToolCalls(k, B, d), A, "awaiting_tool", None)
                  \/ Proceed(w, "turn", WithToolCalls(k, B, d), A)
        BY <3>10 DEF ModelReturns
      <4>2. Busy(w)
        BY <3>10 DEF ModelReturns, Busy
      <4> QED BY <3>3, <3>4, <4>1, <4>2 DEF Keeps
    <3>8. CASE Retry(w) \/ Abort(w) \/ LoseLease(w) \/ Vanish(w) \/ Heartbeat(w)
      BY <3>1, <3>8 DEF Retry, Abort, LoseLease, Vanish, Heartbeat, Keeps
    <3> QED BY <1>3, <3>5, <3>6, <3>7, <3>8, <3>9, <3>10 DEF WorkerStep, Keeps
  <2>2. \A r \in Runs : row'[r].token = row[r].token \/ row'[r].token = 0
    <3>1. CASE row' = row
      BY <3>1
    <3>2. CASE Start(w) \/ Heartbeat(w)
      BY <1>0, <3>2 DEF Start, Heartbeat, Row
    <3>3. CASE Commit(w) \/ Abort(w)
      BY <1>0, <3>3 DEF Commit, Abort, AfterCheckpoint
    <3>4. CASE Retry(w)
      BY <1>0, <3>4 DEF Retry, AfterFailure
    <3> QED BY <1>3, <3>1, <3>2, <3>3, <3>4 DEF WorkerStep, Vanish, ResumeBinding,
            EnterLoop, BeginTurn, ModelReturns, LoseLease
  <2>3. issued' = issued
    BY <1>3 DEF WorkerStep, Heartbeat, Vanish, Start, ResumeBinding, EnterLoop,
       BeginTurn, ModelReturns, Commit, Retry, Abort, LoseLease
  <2> QED BY <2>1, <2>2, <2>3 DEF KeepsTokens
<1>4. CASE RecoverExpired
  BY <1>0, <1>4 DEF RecoverExpired, AfterFailure, KeepsTokens, Busy
<1> QED BY <1>1, <1>2, <1>3, <1>4 DEF Next, NextWithoutRecovery

LEMMA FencingNext == Base /\ Fencing /\ [Next]_vars => Fencing'
<1> SUFFICES ASSUME Base, Fencing, [Next]_vars PROVE Fencing'
  OBVIOUS
<1>0. /\ row \in [Runs -> Row] /\ wk \in [Workers -> Worker] /\ issued \in [Runs -> Nat]
      /\ \A r \in Runs : row[r].token \in Nat
      /\ \A w \in Workers : wk[w].token \in Nat /\ (Busy(w) => wk[w].run \in Runs)
  BY DEF Base, TypeOK, Row, Worker, WorkerShape
<1>1. CASE UNCHANGED vars
  BY <1>1 DEF vars, Fencing, Busy
<1>2. CASE KeepsTokens
  BY <1>0, <1>2 DEF KeepsTokens, Fencing, Busy
<1>3. ASSUME NEW w \in Workers, NEW r \in Runs, Claim(w, r) PROVE Fencing'
  <2>1. /\ issued' = [issued EXCEPT ![r] = @ + 1]
        /\ \A q \in Runs : row'[q].token = IF q = r THEN issued[r] + 1 ELSE row[q].token
    BY <1>0, <1>3 DEF Claim, FreshToken, Row
  <2>2. /\ wk'[w].run = r /\ wk'[w].token = issued[r] + 1
        /\ \A v \in Workers \ {w} : wk'[v] = wk[v]
    BY <1>0, <1>3 DEF Claim, FreshToken
  <2>3. \A q \in Runs : row'[q].token <= issued'[q]
    BY <1>0, <2>1 DEF Fencing
  <2>4. \A v \in Workers : wk'[v].pc # "idle" => wk'[v].token <= issued'[wk'[v].run]
    BY <1>0, <2>1, <2>2 DEF Fencing, Busy
  <2>5. \A u, v \in Workers :
          wk'[u].pc # "idle" /\ wk'[v].pc # "idle" /\ wk'[u].run = wk'[v].run /\ u # v
             => wk'[u].token # wk'[v].token
    BY <1>0, <2>1, <2>2 DEF Fencing, Busy
  <2> QED BY <2>3, <2>4, <2>5 DEF Fencing, Busy
<1> QED BY <1>1, <1>2, <1>3, TokenFrame

(* However late a worker comes back, at most one worker passes the lease     *)
(* check of a run.                                                           *)
THEOREM AtMostOneHolder == Spec => []OneHolder
<1>1. Init => Fencing
  BY DEF Init, Fencing, NoRow, IdleWorker, Busy
<1>2. Fencing => OneHolder
  BY DEF Fencing, OneHolder, HoldsLease
<1> QED BY BaseInit, BaseNext, FencingNext, <1>1, <1>2, PTL DEF Spec

-----------------------------------------------------------------------------
(* Commands and checkpoints: the inductive invariant *)

(* What the stored conversation of run r holds is what its commands say: the *)
(* applied ones once each, in order; commands are numbered without a gap;    *)
(* none is rejected before the run has failed or was cancelled, and none is  *)
(* pending after.                                                            *)
RunLedger(r) ==
    /\ \A s \in Seqs :
          /\ ckpt[r].msgs[s] = IF cmd[r][s] = "applied" THEN 1 ELSE 0
          /\ cmd[r][s] = "applied" <=> s <= ckpt[r].cursor
          /\ cmd[r][s] # "absent" => \A t \in Seqs : t < s => cmd[r][t] # "absent"
          /\ cmd[r][s] = "rejected" => row[r].status \in {"failed", "cancelled"}
          /\ cmd[r][s] = "pending" => row[r].status \notin Terminal

(* What a parked or waking run is given agrees with its checkpoint.          *)
RunParked(r) ==
    /\ \A b \in ckpt[r].binds : b[1] = b[2] /\ b[1] \in ckpt[r].open
    /\ row[r].status = "awaiting_approval" =>
          row[r].pending \in ckpt[r].open /\ ckpt[r].binds = {}
    /\ row[r].turns = ckpt[r].turns
    /\ row[r].delayed => row[r].status = "queued"

(* k is the stored checkpoint of run r plus the messages of its pending      *)
(* commands A, which are all that were submitted up to the cursor of k.      *)
Extends(r, k, A) ==
    /\ ckpt[r].turns <= k.turns /\ ckpt[r].cursor <= k.cursor
    /\ A = Due(r, ckpt[r].cursor, k.cursor)
    /\ \A s \in Seqs :
          /\ k.msgs[s] = ckpt[r].msgs[s] + (IF s \in A THEN 1 ELSE 0)
          /\ s <= k.cursor => cmd[r][s] # "absent"

(* The loop's record: nothing is pulled before the first turn, bindings name *)
(* their own call, and an outcome that asks for an approval has it open.     *)
LoopShape(w) ==
    /\ wk[w].pc \in {"claimed", "started"} => wk[w].applied = {}
    /\ \A b \in wk[w].ck.binds : b[1] = b[2]
    /\ wk[w].pc = "commit" =>
          /\ wk[w].ck.binds = {}
          /\ wk[w].result = "awaiting_approval" => wk[w].ask \in wk[w].ck.open

CommandInv ==
    /\ \A r \in Runs : RunLedger(r) /\ RunParked(r)
    /\ \A w \in Workers : LoopShape(w)
    /\ \A w \in Workers : HoldsLease(w) => Extends(wk[w].run, wk[w].ck, wk[w].applied)

LEMMA RunParts ==
    ASSUME Base, NEW r \in Runs
    PROVE  /\ row[r] \in Row /\ row[r].token \in Nat /\ row[r].turns \in Nat
           /\ row[r].status \in Status /\ row[r].delayed \in BOOLEAN
           /\ ckpt[r] \in Checkpoint /\ ckpt[r].cursor \in 0..MaxHistory /\ ckpt[r].turns \in Nat
           /\ ckpt[r].msgs \in [Seqs -> Nat]
           /\ cmd[r] \in [Seqs -> CommandStatus]
           /\ row[r].token # 0 => row[r].status \in Leased
<1>1. row[r] \in Row /\ ckpt[r] \in Checkpoint /\ cmd[r] \in [Seqs -> CommandStatus]
  BY DEF Base, TypeOK, CommandStatus
<1>2. row[r].token # 0 => row[r].status \in Leased
  BY DEF Base, TokenMeansLeased
<1>3. row[r].token \in Nat /\ row[r].turns \in Nat /\ row[r].status \in Status /\ row[r].delayed \in BOOLEAN
  BY <1>1, LimitsAssumption DEF Row
<1>4. ckpt[r].cursor \in 0..MaxHistory /\ ckpt[r].turns \in Nat /\ ckpt[r].msgs \in [Seqs -> Nat]
  BY <1>1, LimitsAssumption DEF Checkpoint
<1> QED BY <1>1, <1>2, <1>3, <1>4

-----------------------------------------------------------------------------
(* What a step may do to one run *)

(* Checkpoint and commands stay; the run is still being worked on.           *)
RunKept(r) ==
    /\ ckpt'[r] = ckpt[r] /\ cmd'[r] = cmd[r]
    /\ row'[r].turns = row[r].turns /\ row'[r].pending = row[r].pending
    /\ \/ row'[r] = row[r]
       \/ /\ row[r].status \in {"absent", "queued"} \cup Leased
          /\ row'[r].status \in {"queued"} \cup Leased
          /\ row'[r].delayed => row'[r].status = "queued"

RunSubmitted(r) ==
    /\ ckpt'[r] = ckpt[r]
    /\ \E s \in Seqs : /\ \A t \in Seqs : t < s <=> cmd[r][t] # "absent"
                       /\ cmd'[r] = [cmd[r] EXCEPT ![s] = "pending"]
    /\ row[r].status \notin {"failed", "cancelled"}
    /\ row'[r].turns = row[r].turns /\ row'[r].pending = row[r].pending
    /\ \/ row'[r] = row[r] /\ row[r].status # "completed"
       \/ row'[r].status = "queued"

RunRejected(r) ==
    /\ ckpt'[r] = ckpt[r] /\ cmd'[r] = RejectPending(cmd[r])
    /\ row[r].status \in {"queued"} \cup Leased
    /\ row'[r].status \in {"failed", "cancelled"} /\ ~row'[r].delayed
    /\ row'[r].turns = row[r].turns /\ row'[r].token = 0

RunCommitted(w, r) ==
    /\ wk[w].pc = "commit" /\ HoldsLease(w) /\ wk[w].run = r
    /\ row'[r] = AfterCheckpoint(row[r], CommitTarget(r, wk[w].ck, wk[w].result),
                                 wk[w].ck.turns, wk[w].ask)
    /\ ckpt'[r] = wk[w].ck
    /\ cmd'[r] = CommandsAfter(row'[r], CommandsCommitted(cmd[r], wk[w].applied))

(* requeue_after_approval writes the copy with the binding, which is that of *)
(* the stored checkpoint.                                                    *)
RunResumed(r) ==
    /\ row[r].status = "awaiting_approval" /\ cmd'[r] = cmd[r]
    /\ ckpt'[r] = Bound(ckpt[r], row[r].pending, row[r].pending)
    /\ row'[r].status = "queued" /\ row'[r].turns = row[r].turns
    /\ row'[r].token = row[r].token /\ row'[r].delayed = row[r].delayed

RunReturned(r) ==
    /\ row[r].status = "awaiting_tool" /\ cmd'[r] = cmd[r]
    /\ ckpt'[r] = [ckpt[r] EXCEPT !.dispatch = FALSE]
    /\ row'[r].status = "queued" /\ row'[r].turns = row[r].turns
    /\ row'[r].token = row[r].token /\ row'[r].delayed = row[r].delayed

RunMoves(r) ==
    \/ RunKept(r) \/ RunSubmitted(r) \/ RunRejected(r)
    \/ \E w \in Workers : RunCommitted(w, r)
    \/ RunResumed(r) \/ RunReturned(r)

LEMMA FailureMoves ==
    ASSUME NEW r \in Runs, row[r].status \in Leased, row'[r] = AfterFailure(row[r]),
           cmd'[r] = CommandsAfter(AfterFailure(row[r]), cmd[r]), ckpt'[r] = ckpt[r]
    PROVE  RunMoves(r)
<1> DEFINE d == ~Exhausted(row[r])
<1>0. AfterFailure(row[r]) =
        [status |-> IF Exhausted(row[r]) THEN "failed" ELSE "queued",
         version |-> row[r].version + 1, turns |-> row[r].turns, token |-> 0,
         lapsed |-> FALSE, delayed |-> d,
         failures |-> row[r].failures + 1, pending |-> row[r].pending]
  BY Zenon DEF AfterFailure, d
<1>1. CASE Exhausted(row[r])
  <2>1. d = FALSE BY <1>1
  <2> HIDE DEF d
  <2>2. /\ row'[r].status = "failed" /\ row'[r].delayed = FALSE /\ row'[r].token = 0
        /\ row'[r].turns = row[r].turns
    BY <1>0, <1>1, <2>1
  <2>3. cmd'[r] = RejectPending(cmd[r]) BY <2>2 DEF CommandsAfter
  <2> QED BY <2>2, <2>3 DEF RunMoves, RunRejected
<1>2. CASE ~Exhausted(row[r])
  BY <1>2 DEF AfterFailure, CommandsAfter, RunMoves, RunKept, Leased
<1> QED BY <1>1, <1>2

LEMMA EveryRunMoves ==
    ASSUME Base, ResumeInv, Next, NEW r \in Runs, RunParked(r)
    PROVE  RunMoves(r)
<1>0. /\ row \in [Runs -> Row] /\ ckpt \in [Runs -> Checkpoint]
      /\ cmd \in [Runs -> [Seqs -> CommandStatus]]
  BY DEF Base, TypeOK, CommandStatus
<1>1. row[r] \in Row BY <1>0
<1>2. row[r].token # 0 => row[r].status \in Leased BY RunParts
<1>3. CASE row'[r] = row[r] /\ ckpt'[r] = ckpt[r] /\ cmd'[r] = cmd[r]
  BY <1>3 DEF RunMoves, RunKept
<1>4. ASSUME NEW q \in Runs, RunStep(q) PROVE RunMoves(r)
  <2>1. CASE q # r
    BY <1>0, <1>3, <1>4, <2>1 DEF RunStep, Create, SubmitControl, CancelQueued, LeaseLapses,
       BackoffElapses, RequeueAfterTools
  <2>2. CASE Create(r)
    BY <1>0, <2>2 DEF Create, Row, RunMoves, RunKept, RunParked
  <2>3. ASSUME NEW type, SubmitControl(r, type) PROVE RunSubmitted(r)
    <3>1. PICK s \in Seqs : /\ \A t \in Seqs : t < s <=> cmd[r][t] # "absent"
                            /\ cmd' = [cmd EXCEPT ![r][s] = "pending"]
      BY <2>3 DEF SubmitControl
    <3>2. cmd'[r] = [cmd[r] EXCEPT ![s] = "pending"] BY <1>0, <3>1
    <3>3. /\ row'[r].turns = row[r].turns /\ row'[r].pending = row[r].pending
          /\ \/ row'[r] = row[r] /\ row[r].status # "completed"
             \/ row'[r].status = "queued"
      BY <1>0, <1>1, <2>3 DEF SubmitControl, Row
    <3> QED BY <2>3, <3>1, <3>2, <3>3 DEF SubmitControl, RunSubmitted
  <2>4. CASE CancelQueued(r)
    <3>1. row[r].token = 0 BY <1>2, <2>4 DEF CancelQueued, Leased
    <3>2. /\ row'[r].status = "cancelled" /\ row'[r].delayed = FALSE
          /\ row'[r].turns = row[r].turns /\ row'[r].token = row[r].token
      BY <1>0, <1>1, <2>4 DEF CancelQueued, Row
    <3>3. cmd'[r] = RejectPending(cmd[r]) /\ ckpt'[r] = ckpt[r] /\ row[r].status = "queued"
      BY <1>0, <2>4 DEF CancelQueued
    <3> QED BY <3>1, <3>2, <3>3 DEF RunMoves, RunRejected
  <2>5. CASE LeaseLapses(r) \/ BackoffElapses(r)
    BY <1>0, <1>1, <2>5 DEF LeaseLapses, BackoffElapses, Row, RunMoves, RunKept, RunParked, Leased
  <2>6. CASE RequeueAfterTools(r)
    BY <1>0, <1>1, <2>6 DEF RequeueAfterTools, Row, RunMoves, RunReturned
  <2> QED BY <1>4, <2>1, <2>2, <2>3, <2>4, <2>5, <2>6 DEF RunStep, RunMoves
<1>5. ASSUME NEW c \in Clients, ClientStep(c) PROVE RunMoves(r)
  <2>1. CASE RequeueAfterApproval(c)
    <3>1. PICK q \in Runs : q = cl[c].run
      BY <2>1, ClientParts DEF RequeueAfterApproval
    <3>2. /\ ResumeAccepted(c) /\ cl[c].pc = "write" /\ ckpt' = [ckpt EXCEPT ![q] = cl[c].ck]
          /\ cmd' = cmd
          /\ row' = [row EXCEPT ![q].status = "queued", ![q].version = @ + 1, ![q].pending = None]
      BY <2>1, <3>1 DEF RequeueAfterApproval
    <3>3. CASE q # r BY <1>0, <1>3, <3>2, <3>3
    <3>4. CASE q = r
      <4>1. /\ row[r].status = "awaiting_approval"
            /\ cl[c].ck = Bound(ckpt[r], row[r].pending, row[r].pending)
        BY <3>1, <3>2, <3>4 DEF ResumeInv, ClientCurrent, ResumeAccepted
      <4>2. /\ row'[r].status = "queued" /\ row'[r].turns = row[r].turns
            /\ row'[r].token = row[r].token /\ row'[r].delayed = row[r].delayed
        BY <1>0, <1>1, <3>2, <3>4 DEF Row
      <4>3. ckpt'[r] = cl[c].ck /\ cmd'[r] = cmd[r] BY <1>0, <3>2, <3>4
      <4> QED BY <4>1, <4>2, <4>3 DEF RunMoves, RunResumed
    <3> QED BY <3>3, <3>4
  <2>2. CASE UNCHANGED <<row, ckpt, cmd>> BY <1>3, <2>2
  <2> QED BY <1>5, <2>1, <2>2 DEF ClientStep, BeginResume, GetRun, LoadCheckpoint, AbandonResume
<1>6. ASSUME NEW w \in Workers, WorkerStep(w) \/ Heartbeat(w) \/ Vanish(w) PROVE RunMoves(r)
  <2>1. ASSUME NEW q \in Runs, Claim(w, q) PROVE RunMoves(r)
    BY <1>0, <1>1, <1>3, <2>1 DEF Claim, Row, RunMoves, RunKept, Leased
  <2>2. CASE Start(w) \/ Heartbeat(w)
    <3>1. PICK q \in Runs : q = wk[w].run /\ row[q].status \in Leased
      BY <2>2, HolderIsLeased DEF Start, Heartbeat
    <3>2. /\ UNCHANGED <<ckpt, cmd>>
          /\ \/ row' = [row EXCEPT ![q].status = "running", ![q].version = @ + 1, ![q].delayed = FALSE]
             \/ row' = [row EXCEPT ![q].lapsed = FALSE]
      BY <2>2, <3>1 DEF Start, Heartbeat
    <3>3. CASE q # r BY <1>0, <1>3, <3>2, <3>3
    <3>4. CASE q = r
      <4>1. row[r].delayed = FALSE BY <1>1, <3>1, <3>4 DEF RunParked, Leased, Row
      <4>2. /\ row'[r].status \in Leased /\ row'[r].delayed = FALSE
            /\ row'[r].turns = row[r].turns /\ row'[r].pending = row[r].pending
        BY <1>0, <1>1, <3>1, <3>2, <3>4, <4>1 DEF Row, Leased
      <4> QED BY <3>1, <3>2, <3>4, <4>2 DEF RunMoves, RunKept
    <3> QED BY <3>3, <3>4
  <2>3. CASE Commit(w)
    <3>1. PICK q \in Runs : q = wk[w].run
      BY <2>3, HolderIsLeased DEF Commit
    <3>2. /\ wk[w].pc = "commit" /\ HoldsLease(w) /\ ckpt' = [ckpt EXCEPT ![q] = wk[w].ck]
          /\ row' = [row EXCEPT ![q] = AfterCheckpoint(@, CommitTarget(q, wk[w].ck, wk[w].result),
                                                       wk[w].ck.turns, wk[w].ask)]
          /\ cmd' = [cmd EXCEPT ![q] = CommandsAfter(row'[q], CommandsCommitted(@, wk[w].applied))]
      BY <2>3, <3>1 DEF Commit
    <3>3. CASE q # r BY <1>0, <1>3, <3>2, <3>3
    <3>4. CASE q = r BY <1>0, <3>1, <3>2, <3>4 DEF RunMoves, RunCommitted
    <3> QED BY <3>3, <3>4
  <2>4. CASE Retry(w)
    <3>1. PICK q \in Runs : q = wk[w].run /\ row[q].status \in Leased
      BY <2>4, HolderIsLeased DEF Retry
    <3>2. /\ row' = [row EXCEPT ![q] = AfterFailure(@)] /\ ckpt' = ckpt
          /\ cmd' = [cmd EXCEPT ![q] = CommandsAfter(AfterFailure(row[q]), @)]
      BY <2>4, <3>1 DEF Retry
    <3>3. CASE q # r BY <1>0, <1>3, <3>2, <3>3
    <3>4. CASE q = r BY <1>0, <3>1, <3>2, <3>4, FailureMoves
    <3> QED BY <3>3, <3>4
  <2>5. CASE Abort(w)
    <3>1. PICK q \in Runs : q = wk[w].run /\ row[q].status \in Leased
      BY <2>5, HolderIsLeased DEF Abort
    <3>2. /\ row' = [row EXCEPT ![q] = AfterCheckpoint(@, "failed", @.turns, @.pending)]
          /\ ckpt' = ckpt /\ cmd' = [cmd EXCEPT ![q] = RejectPending(@)]
      BY <2>5, <3>1 DEF Abort
    <3>3. CASE q # r BY <1>0, <1>3, <3>2, <3>3
    <3>4. CASE q = r BY <1>0, <3>1, <3>2, <3>4 DEF AfterCheckpoint, RunMoves, RunRejected
    <3> QED BY <3>3, <3>4
  <2>6. CASE UNCHANGED <<row, ckpt, cmd>> BY <1>3, <2>6
  <2> QED BY <1>6, <2>1, <2>2, <2>3, <2>4, <2>5, <2>6
          DEF WorkerStep, ResumeBinding, EnterLoop, BeginTurn, ModelReturns, LoseLease, Vanish
<1>7. CASE RecoverExpired
  <2>1. PICK S \in SUBSET {q \in Runs : row[q].status \in Leased /\ row[q].lapsed} :
          /\ row' = [q \in Runs |-> IF q \in S THEN AfterFailure(row[q]) ELSE row[q]]
          /\ cmd' = [q \in Runs |-> IF q \in S
                                    THEN CommandsAfter(AfterFailure(row[q]), cmd[q])
                                    ELSE cmd[q]]
          /\ ckpt' = ckpt
    BY <1>7 DEF RecoverExpired
  <2>2. CASE r \in S BY <2>1, <2>2, FailureMoves
  <2>3. CASE r \notin S BY <1>3, <2>1, <2>3
  <2> QED BY <2>2, <2>3
<1> QED BY <1>4, <1>5, <1>6, <1>7 DEF Next, NextWithoutRecovery

-----------------------------------------------------------------------------
(* Each move keeps the ledger of its run, and takes nothing back *)

(* What the checkpoint of run r holds stays, a decided command stays         *)
(* decided, and a failed or cancelled run stays as it is.                    *)
TakesNothingBack(r) ==
    /\ ckpt'[r].turns >= ckpt[r].turns /\ ckpt'[r].cursor >= ckpt[r].cursor
    /\ \A s \in Seqs :
          /\ ckpt'[r].msgs[s] >= ckpt[r].msgs[s]
          /\ cmd[r][s] \in {"applied", "rejected"} => cmd'[r][s] = cmd[r][s]
    /\ row[r].status \in {"failed", "cancelled"} => row'[r] = row[r]

RunSound(r) == RunLedger(r)' /\ RunParked(r)' /\ TakesNothingBack(r)

LEMMA KeptIsSound ==
    ASSUME Base, NEW r \in Runs, RunLedger(r), RunParked(r), RunKept(r)
    PROVE  RunSound(r)
<1>1. RunLedger(r)' BY DEF RunLedger, RunKept, Leased, Terminal
<1>2. RunParked(r)' BY DEF RunParked, RunKept, Leased
<1>3. TakesNothingBack(r) BY RunParts DEF RunKept, TakesNothingBack, Leased
<1> QED BY <1>1, <1>2, <1>3 DEF RunSound

LEMMA SubmittedIsSound ==
    ASSUME Base, NEW r \in Runs, RunLedger(r), RunParked(r), RunSubmitted(r)
    PROVE  RunSound(r)
<1>1. PICK s \in Seqs : /\ \A t \in Seqs : t < s <=> cmd[r][t] # "absent"
                        /\ cmd'[r] = [cmd[r] EXCEPT ![s] = "pending"]
  BY DEF RunSubmitted
<1>2. /\ cmd[r] \in [Seqs -> CommandStatus] /\ \A t \in Seqs : t \in Int /\ ckpt'[r] = ckpt[r]
      /\ ckpt[r].cursor \in 0..MaxHistory /\ s \in Int
  BY RunParts DEF Seqs, RunSubmitted
<1>3. /\ cmd[r][s] = "absent" /\ cmd'[r][s] = "pending"
      /\ \A t \in Seqs : t # s => cmd'[r][t] = cmd[r][t]
  BY <1>1, <1>2
<1>4. row'[r].status \notin Terminal /\ (row'[r].status = row[r].status \/ row'[r].status = "queued")
  BY DEF RunSubmitted, Terminal
<1>5. RunLedger(r)'
  <2> SUFFICES ASSUME NEW t \in Seqs
               PROVE  /\ ckpt'[r].msgs[t] = IF cmd'[r][t] = "applied" THEN 1 ELSE 0
                      /\ cmd'[r][t] = "applied" <=> t <= ckpt'[r].cursor
                      /\ cmd'[r][t] # "absent" => \A u \in Seqs : u < t => cmd'[r][u] # "absent"
                      /\ cmd'[r][t] = "rejected" => row'[r].status \in {"failed", "cancelled"}
                      /\ cmd'[r][t] = "pending" => row'[r].status \notin Terminal
    BY DEF RunLedger
  <2>1. /\ ckpt'[r].msgs[t] = IF cmd'[r][t] = "applied" THEN 1 ELSE 0
        /\ cmd'[r][t] = "applied" <=> t <= ckpt'[r].cursor
    BY <1>2, <1>3 DEF RunLedger
  <2>2. cmd'[r][t] # "absent" => \A u \in Seqs : u < t => cmd'[r][u] # "absent"
    BY <1>1, <1>2, <1>3 DEF RunLedger
  <2>3. cmd'[r][t] = "rejected" => row'[r].status \in {"failed", "cancelled"}
    BY <1>3 DEF RunLedger, RunSubmitted
  <2> QED BY <1>4, <2>1, <2>2, <2>3
<1>6. RunParked(r)'
  <2>1. row'[r].delayed => row'[r].status = "queued" BY DEF RunParked, RunSubmitted
  <2> QED BY <1>2, <2>1 DEF RunParked, RunSubmitted
<1>7. TakesNothingBack(r)
  BY <1>2, <1>3, RunParts DEF TakesNothingBack, RunSubmitted
<1> QED BY <1>5, <1>6, <1>7 DEF RunSound

LEMMA RejectedIsSound ==
    ASSUME Base, NEW r \in Runs, RunLedger(r), RunParked(r), RunRejected(r)
    PROVE  RunSound(r)
<1>1. /\ cmd[r] \in [Seqs -> CommandStatus] /\ ckpt'[r] = ckpt[r]
      /\ \A s \in Seqs : cmd'[r][s] = IF cmd[r][s] = "pending" THEN "rejected" ELSE cmd[r][s]
  BY RunParts DEF RunRejected, RejectPending
<1>2. RunLedger(r)' BY <1>1 DEF RunLedger, RunRejected
<1>3. RunParked(r)' BY <1>1 DEF RunParked, RunRejected
<1>4. TakesNothingBack(r) BY <1>1, RunParts DEF TakesNothingBack, RunRejected, Leased
<1> QED BY <1>2, <1>3, <1>4 DEF RunSound

LEMMA ResumedIsSound ==
    ASSUME Base, NEW r \in Runs, RunLedger(r), RunParked(r), RunResumed(r)
    PROVE  RunSound(r)
<1>1. /\ cmd'[r] = cmd[r] /\ row'[r].status = "queued" /\ row'[r].turns = row[r].turns
      /\ row[r].status = "awaiting_approval"
  BY DEF RunResumed
<1>2. /\ ckpt'[r].msgs = ckpt[r].msgs /\ ckpt'[r].cursor = ckpt[r].cursor
      /\ ckpt'[r].turns = ckpt[r].turns /\ ckpt'[r].open = ckpt[r].open
      /\ ckpt'[r].binds = ckpt[r].binds \cup {<<row[r].pending, row[r].pending>>}
  BY RunParts DEF RunResumed, Bound, Checkpoint
<1>3. RunLedger(r)' BY <1>1, <1>2 DEF RunLedger, Terminal
<1>4. RunParked(r)' BY <1>1, <1>2 DEF RunParked
<1>5. TakesNothingBack(r) BY <1>1, <1>2, RunParts DEF TakesNothingBack
<1> QED BY <1>3, <1>4, <1>5 DEF RunSound

LEMMA ReturnedIsSound ==
    ASSUME Base, NEW r \in Runs, RunLedger(r), RunParked(r), RunReturned(r)
    PROVE  RunSound(r)
<1>1. /\ cmd'[r] = cmd[r] /\ row'[r].status = "queued" /\ row'[r].turns = row[r].turns
      /\ row[r].status = "awaiting_tool"
  BY DEF RunReturned
<1>2. /\ ckpt'[r].msgs = ckpt[r].msgs /\ ckpt'[r].cursor = ckpt[r].cursor
      /\ ckpt'[r].turns = ckpt[r].turns /\ ckpt'[r].open = ckpt[r].open
      /\ ckpt'[r].binds = ckpt[r].binds
  BY RunParts DEF RunReturned, Checkpoint
<1>3. RunLedger(r)' BY <1>1, <1>2 DEF RunLedger, Terminal
<1>4. RunParked(r)' BY <1>1, <1>2 DEF RunParked
<1>5. TakesNothingBack(r) BY <1>1, <1>2, RunParts DEF TakesNothingBack
<1> QED BY <1>3, <1>4, <1>5 DEF RunSound

(* The commands of an outcome are the pending ones up to its cursor: all of  *)
(* them were submitted, and none was rejected while the lease was held.      *)
OutcomeHolds(r, k, A) ==
    \A s \in Seqs :
        /\ s \in A <=> cmd[r][s] = "pending" /\ s <= k.cursor
        /\ s <= k.cursor <=> cmd[r][s] = "applied" \/ s \in A
        /\ k.msgs[s] = IF cmd[r][s] = "applied" \/ s \in A THEN 1 ELSE 0

LEMMA OutcomeCommands ==
    ASSUME Base, NEW r \in Runs, row[r].status \in Leased,
           RunLedger(r), NEW k \in Checkpoint, NEW A, Extends(r, k, A)
    PROVE  OutcomeHolds(r, k, A)
<1>1. row[r].status \notin {"failed", "cancelled"}
  BY DEF Leased
<1>2. /\ cmd[r] \in [Seqs -> CommandStatus] /\ ckpt[r].cursor \in Int /\ k.cursor \in Int
      /\ \A s \in Seqs : s \in Int
  BY RunParts DEF Seqs, Checkpoint
<1>3. \A s \in Seqs : s \in A <=> cmd[r][s] = "pending" /\ s <= k.cursor
  BY <1>2 DEF Extends, Due, RunLedger
<1>4. \A s \in Seqs : s <= k.cursor <=> cmd[r][s] = "applied" \/ s \in A
  BY <1>1, <1>2, <1>3 DEF Extends, RunLedger, CommandStatus
<1>5. \A s \in Seqs : k.msgs[s] = IF cmd[r][s] = "applied" \/ s \in A THEN 1 ELSE 0
  BY <1>3 DEF Extends, RunLedger
<1> QED BY <1>3, <1>4, <1>5 DEF OutcomeHolds

LEMMA CommittedIsSound ==
    ASSUME Base, NEW r \in Runs, RunLedger(r), RunParked(r), NEW w \in Workers, LoopShape(w),
           Extends(r, wk[w].ck, wk[w].applied), RunCommitted(w, r)
    PROVE  RunSound(r)
<1> DEFINE k == wk[w].ck
           A == wk[w].applied
           target == CommitTarget(r, k, wk[w].result)
<1>1. /\ wk[w].pc = "commit" /\ HoldsLease(w) /\ wk[w].run = r /\ k \in Checkpoint /\ A \subseteq Seqs
      /\ wk[w].result \in Outcome /\ ckpt'[r] = k
  BY WorkerParts DEF RunCommitted, Base, WorkerShape
<1>2. /\ row'[r].status = target /\ row'[r].turns = k.turns /\ row'[r].pending = wk[w].ask
      /\ row'[r].delayed = FALSE
      /\ cmd'[r] = CommandsAfter(row'[r], CommandsCommitted(cmd[r], A))
  BY DEF RunCommitted, AfterCheckpoint
<1>3. /\ k.binds = {} /\ (wk[w].result = "awaiting_approval" => wk[w].ask \in k.open)
  BY <1>1 DEF LoopShape
<1>4. Extends(r, k, A) OBVIOUS
<1>5. row[r].status \in Leased BY <1>1, HolderIsLeased
<1> HIDE DEF k, A
<1>6. /\ \A s \in Seqs : s \in A <=> cmd[r][s] = "pending" /\ s <= k.cursor
      /\ \A s \in Seqs : s <= k.cursor <=> cmd[r][s] = "applied" \/ s \in A
      /\ \A s \in Seqs : k.msgs[s] = IF cmd[r][s] = "applied" \/ s \in A THEN 1 ELSE 0
  <2>1. OutcomeHolds(r, k, A) BY <1>1, <1>4, <1>5, OutcomeCommands
  <2> QED BY <2>1 DEF OutcomeHolds
<1>7. /\ target \in {"completed", "failed", "awaiting_approval", "awaiting_tool", "queued"}
      /\ target = "awaiting_approval" => wk[w].result = "awaiting_approval"
      /\ target = "completed" => Due(r, k.cursor, MaxHistory) = {}
  BY <1>1 DEF CommitTarget, Outcome
<1> HIDE DEF target
<1>8. \A s \in Seqs : cmd'[r][s] = IF s \in A THEN "applied"
                                   ELSE IF target = "failed" /\ cmd[r][s] = "pending" THEN "rejected"
                                   ELSE cmd[r][s]
  <2>1. \A s \in Seqs : CommandsCommitted(cmd[r], A)[s] = IF s \in A THEN "applied" ELSE cmd[r][s]
    BY DEF CommandsCommitted
  <2> DEFINE c == CommandsCommitted(cmd[r], A)
  <2> HIDE DEF c
  <2>2. \A s \in Seqs : cmd'[r][s] = IF target = "failed" /\ c[s] = "pending" THEN "rejected" ELSE c[s]
    BY <1>2 DEF CommandsAfter, RejectPending, c
  <2> QED BY <2>1, <2>2 DEF c
<1>9. \A s \in Seqs : cmd[r][s] = "rejected" => FALSE
  BY <1>5 DEF RunLedger, Leased
<1>10. target = "completed" => \A s \in Seqs : cmd[r][s] = "pending" => s \in A
  BY <1>1, <1>6, <1>7 DEF Due, Seqs, Checkpoint
<1>11. RunLedger(r)'
  <2> SUFFICES ASSUME NEW s \in Seqs
               PROVE  /\ k.msgs[s] = IF cmd'[r][s] = "applied" THEN 1 ELSE 0
                      /\ cmd'[r][s] = "applied" <=> s <= k.cursor
                      /\ cmd'[r][s] # "absent" => \A t \in Seqs : t < s => cmd'[r][t] # "absent"
                      /\ cmd'[r][s] = "rejected" => target \in {"failed", "cancelled"}
                      /\ cmd'[r][s] = "pending" => target \notin Terminal
    BY <1>1, <1>2 DEF RunLedger
  <2>1. cmd'[r][s] = "applied" <=> cmd[r][s] = "applied" \/ s \in A BY <1>6, <1>8
  <2>2. cmd'[r][s] # "absent" => \A t \in Seqs : t < s => cmd'[r][t] # "absent"
    BY <1>6, <1>8 DEF RunLedger
  <2>3. cmd'[r][s] = "rejected" => target \in {"failed", "cancelled"} BY <1>8, <1>9
  <2>4. cmd'[r][s] = "pending" => target \notin Terminal
    BY <1>7, <1>8, <1>10 DEF Terminal
  <2> QED BY <1>6, <2>1, <2>2, <2>3, <2>4
<1>12. RunParked(r)' BY <1>1, <1>2, <1>3, <1>7 DEF RunParked
<1>13. TakesNothingBack(r)
  <2>1. \A s \in Seqs : k.msgs[s] >= ckpt[r].msgs[s]
    BY <1>6 DEF RunLedger
  <2>2. \A s \in Seqs : cmd[r][s] \in {"applied", "rejected"} => cmd'[r][s] = cmd[r][s]
    BY <1>6, <1>8, <1>9
  <2> QED BY <1>1, <1>4, <1>5, <2>1, <2>2, RunParts DEF TakesNothingBack, Extends, Leased, Checkpoint
<1> QED BY <1>11, <1>12, <1>13 DEF RunSound

LEMMA EveryMoveIsSound ==
    ASSUME Base, ResumeInv, CommandInv, Next, NEW r \in Runs
    PROVE  RunSound(r)
<1>1. RunLedger(r) /\ RunParked(r) BY DEF CommandInv
<1>2. RunMoves(r) BY <1>1, EveryRunMoves
<1>3. ASSUME NEW w \in Workers, RunCommitted(w, r) PROVE RunSound(r)
  <2>1. LoopShape(w) /\ Extends(r, wk[w].ck, wk[w].applied)
    BY <1>3 DEF CommandInv, RunCommitted
  <2> QED BY <1>1, <1>3, <2>1, CommittedIsSound
<1> QED BY <1>1, <1>2, <1>3, KeptIsSound, SubmittedIsSound, RejectedIsSound, ResumedIsSound,
        ReturnedIsSound DEF RunMoves

-----------------------------------------------------------------------------
(* The lease holder's copy follows the stored checkpoint *)

(* A run that still carries a token was left as it is or got one command.    *)
LEMMA LeasedRunMoves ==
    ASSUME Base, NEW r \in Runs, RunMoves(r), row'[r].token # 0
    PROVE  RunKept(r) \/ RunSubmitted(r)
<1>1. row[r].status \in {"awaiting_approval", "awaiting_tool"} => row[r].token = 0
  BY RunParts DEF Leased
<1>2. ~\E w \in Workers : RunCommitted(w, r)
  <2>1. ASSUME NEW w \in Workers, RunCommitted(w, r) PROVE row'[r].token = 0
    BY <2>1 DEF RunCommitted, AfterCheckpoint
  <2> QED BY <2>1
<1>3. ~RunRejected(r) /\ ~RunResumed(r) /\ ~RunReturned(r)
  BY <1>1 DEF RunRejected, RunResumed, RunReturned
<1> QED BY <1>2, <1>3 DEF RunMoves

LEMMA ExtendsKept ==
    ASSUME Base, NEW r \in Runs, RunLedger(r), RunKept(r) \/ RunSubmitted(r),
           NEW k \in Checkpoint, NEW A, Extends(r, k, A)
    PROVE  Extends(r, k, A)'
<1>1. CASE RunKept(r) BY <1>1 DEF RunKept, Extends, Due
<1>2. CASE RunSubmitted(r)
  <2>1. PICK s \in Seqs : /\ \A t \in Seqs : t < s <=> cmd[r][t] # "absent"
                          /\ cmd'[r] = [cmd[r] EXCEPT ![s] = "pending"]
    BY <1>2 DEF RunSubmitted
  <2>2. /\ cmd[r] \in [Seqs -> CommandStatus] /\ \A t \in Seqs : t \in Int /\ ckpt'[r] = ckpt[r]
        /\ k.cursor \in Int
    BY <1>2, RunParts DEF RunSubmitted, Seqs, Checkpoint
  <2>3. /\ cmd[r][s] = "absent" /\ \A t \in Seqs : t # s => cmd'[r][t] = cmd[r][t]
        /\ cmd'[r][s] = "pending"
    BY <2>1, <2>2
  <2>4. ~(s <= k.cursor) BY <2>2, <2>3 DEF Extends
  <2>5. Due(r, ckpt[r].cursor, k.cursor)' = Due(r, ckpt[r].cursor, k.cursor)
    BY <2>2, <2>3, <2>4 DEF Due
  <2>6. \A t \in Seqs : t <= k.cursor => cmd'[r][t] # "absent"
    BY <2>3, <2>4 DEF Extends
  <2> QED BY <2>2, <2>5, <2>6 DEF Extends
<1> QED BY <1>1, <1>2

(* The loop's copy grows by turns alone ...                                  *)
SameMessages(k, k2) == k2.msgs = k.msgs /\ k2.cursor = k.cursor /\ k2.turns >= k.turns

LEMMA ExtendsSame ==
    ASSUME Base, NEW r \in Runs, NEW k \in Checkpoint, NEW k2 \in Checkpoint, NEW A,
           Extends(r, k, A), SameMessages(k, k2)
    PROVE  Extends(r, k2, A)
<1>1. ckpt[r].turns \in Int /\ k.turns \in Int /\ k2.turns \in Int
  BY RunParts DEF Checkpoint
<1> QED BY <1>1 DEF Extends, SameMessages

(* ... or by the messages of a poll.                                         *)
LEMMA ExtendsPulled ==
    ASSUME Base, NEW r \in Runs, RunLedger(r), NEW k \in Checkpoint, NEW A \in SUBSET Seqs,
           Extends(r, k, A), NEW n \in 0..MaxHistory, PollReaches(r, k.cursor, n)
    PROVE  Extends(r, Pulled(r, k, n), A \cup Due(r, k.cursor, n))
<1> DEFINE k2 == Pulled(r, k, n)
           B == Due(r, k.cursor, n)
<1>0. /\ ckpt[r].cursor \in Int /\ k.cursor \in Int /\ n \in Int
      /\ \A s \in Seqs : s \in Int /\ k.msgs[s] \in Nat
  <2>1. k.msgs \in [Seqs -> Nat] /\ k.cursor \in 0..MaxHistory BY DEF Checkpoint
  <2>2. ckpt[r].cursor \in 0..MaxHistory BY RunParts
  <2>3. \A s \in Seqs : s \in Int BY DEF Seqs
  <2> QED BY <2>1, <2>2, <2>3
<1>1. /\ ckpt[r].cursor \in Int /\ k.cursor \in Int /\ n \in Int /\ n >= k.cursor
      /\ \A s \in Seqs : s \in Int /\ k.msgs[s] \in Nat
  BY <1>0 DEF PollReaches
<1>2. /\ k2.cursor = n /\ k2.turns = k.turns
      /\ \A s \in Seqs : k2.msgs[s] = k.msgs[s] + (IF s \in B THEN 1 ELSE 0)
  BY <1>1 DEF Pulled
<1>3. A = Due(r, ckpt[r].cursor, k.cursor) /\ ckpt[r].cursor <= k.cursor BY DEF Extends
<1>4. A \cup B = Due(r, ckpt[r].cursor, n) BY <1>1, <1>3 DEF Due
<1>5. \A s \in Seqs : s \in B => s \notin A BY <1>1, <1>3 DEF Due
<1>6. \A s \in Seqs : k2.msgs[s] = ckpt[r].msgs[s] + (IF s \in A \cup B THEN 1 ELSE 0)
  BY <1>1, <1>2, <1>5, RunParts DEF Extends
<1>7. ASSUME NEW s \in Seqs, s <= n PROVE cmd[r][s] # "absent"
  <2>1. CASE n = k.cursor BY <1>7, <2>1 DEF Extends
  <2>2. CASE n # k.cursor
    <3>1. n \in Seqs /\ cmd[r][n] = "pending" BY <1>1, <2>2, RunParts DEF PollReaches, Seqs, Checkpoint
    <3> QED BY <1>1, <1>7, <3>1 DEF RunLedger
  <2> QED BY <2>1, <2>2
<1>8. ckpt[r].turns <= k2.turns /\ ckpt[r].cursor <= k2.cursor
  BY <1>1, <1>2, <1>3 DEF Extends
<1> HIDE DEF k2, B
<1> QED BY <1>2, <1>4, <1>6, <1>7, <1>8 DEF Extends, k2, B

(* What the loop's record may become: an outcome, or a next place.           *)
LoopGoesOn(w) ==
    /\ LoopShape(w)'
    /\ wk'[w].ck \in Checkpoint
    /\ LET r == wk[w].run
       IN  RunLedger(r) /\ Extends(r, wk[w].ck, wk[w].applied)
              => Extends(r, wk'[w].ck, wk'[w].applied)

LEMMA FinishGoesOn ==
    ASSUME Base, NEW w \in Workers, NEW r \in Runs, r = wk[w].run, NEW k \in Checkpoint, NEW A, NEW result, NEW ask,
           Finish(w, k, A, result, ask), result = "awaiting_approval" => ask \in k.open,
           RunLedger(r) /\ Extends(r, wk[w].ck, wk[w].applied) => Extends(r, k, A)
    PROVE  LoopGoesOn(w)
<1> DEFINE k2 == [k EXCEPT !.binds = {}]
<1>1. /\ k2 \in Checkpoint /\ k2.binds = {} /\ k2.open = k.open /\ k2.msgs = k.msgs
      /\ k2.cursor = k.cursor /\ k2.turns = k.turns
  BY DEF Checkpoint
<1>2. wk' = [wk EXCEPT ![w] =
                [pc |-> "commit", run |-> @.run, token |-> @.token, ck |-> k2,
                 applied |-> A, result |-> result, ask |-> ask]]
  BY DEF Finish
<1> HIDE DEF k2
<1>3. /\ wk'[w].pc = "commit" /\ wk'[w].ck = k2 /\ wk'[w].applied = A
      /\ wk'[w].result = result /\ wk'[w].ask = ask
  BY <1>2 DEF Base, TypeOK
<1>4. LoopShape(w)' BY <1>1, <1>3 DEF LoopShape
<1>5. SameMessages(k, k2) BY <1>1 DEF SameMessages, Checkpoint
<1> QED BY <1>1, <1>3, <1>4, <1>5, ExtendsSame DEF LoopGoesOn

LEMMA ProceedGoesOn ==
    ASSUME Base, NEW w \in Workers, NEW r \in Runs, r = wk[w].run, NEW k \in Checkpoint, NEW A, NEW pc,
           Proceed(w, pc, k, A), pc \in {"started", "turn", "model"}, pc = "started" => A = {},
           \A b \in k.binds : b[1] = b[2],
           RunLedger(r) /\ Extends(r, wk[w].ck, wk[w].applied) => Extends(r, k, A)
    PROVE  LoopGoesOn(w)
<1>1. wk'[w].pc = pc /\ wk'[w].ck = k /\ wk'[w].applied = A
  BY DEF Proceed, Base, TypeOK
<1>2. LoopShape(w)' BY <1>1 DEF LoopShape
<1> QED BY <1>1, <1>2 DEF LoopGoesOn

LEMMA LoopStepGoesOn ==
    ASSUME Base, NEW w \in Workers, LoopShape(w),
           ResumeBinding(w) \/ EnterLoop(w) \/ BeginTurn(w) \/ ModelReturns(w)
    PROVE  LoopGoesOn(w)
<1> DEFINE k == wk[w].ck
           A == wk[w].applied
           r == wk[w].run
<1>1. /\ k \in Checkpoint /\ A \in SUBSET Seqs
      /\ \A b \in k.binds : b[1] = b[2]
      /\ wk[w].pc = "started" => A = {}
  BY WorkerParts DEF LoopShape
<1>2. k.turns < MaxTurns => [k EXCEPT !.turns = @ + 1] \in Checkpoint
  BY <1>1, RecordTypes
<1>3. r \in Runs
  BY DEF ResumeBinding, EnterLoop, BeginTurn, ModelReturns, Base, WorkerShape, Busy
<1>4. CASE ResumeBinding(w)
  <2>1. PICK b \in k.binds :
          /\ b[1] \in k.open
          /\ \/ \E d \in {k.dispatch, TRUE} :
                   Proceed(w, "started", [Closed(k, b) EXCEPT !.dispatch = d], {})
             \/ Finish(w, k, {}, "awaiting_approval", b[2])
             \/ Finish(w, Closed(k, b), {}, "failed", None)
    BY <1>4 DEF ResumeBinding
  <2>2. A = {} /\ b[2] \in k.open BY <1>1, <1>4, <2>1 DEF ResumeBinding
  <2>3. Closed(k, b) \in Checkpoint /\ SameMessages(k, Closed(k, b))
    BY <1>1, RecordTypes DEF Closed, SameMessages, Checkpoint
  <2>4. Extends(r, k, A) => Extends(r, Closed(k, b), {})
    BY <1>1, <1>3, <2>2, <2>3, ExtendsSame
  <2>5. CASE Finish(w, k, {}, "awaiting_approval", b[2])
    BY <1>1, <1>3, <2>2, <2>5, FinishGoesOn
  <2>6. CASE Finish(w, Closed(k, b), {}, "failed", None)
    BY <1>3, <2>3, <2>4, <2>6, FinishGoesOn
  <2>7. ASSUME NEW d \in {k.dispatch, TRUE},
               Proceed(w, "started", [Closed(k, b) EXCEPT !.dispatch = d], {})
        PROVE  LoopGoesOn(w)
    <3> DEFINE k2 == [Closed(k, b) EXCEPT !.dispatch = d]
    <3>1. d \in BOOLEAN BY <1>1 DEF Checkpoint
    <3>2. k2 \in Checkpoint BY <2>3, <3>1, RecordTypes
    <3>3. SameMessages(k, k2) /\ k2.binds \subseteq k.binds
      BY <1>1, <2>3 DEF Closed, SameMessages, Checkpoint
    <3>4. Extends(r, k, A) => Extends(r, k2, {})
      BY <1>1, <1>3, <2>2, <3>2, <3>3, ExtendsSame
    <3> HIDE DEF k2
    <3>5. Proceed(w, "started", k2, {}) BY <2>7 DEF k2
    <3>6. \A c \in k2.binds : c[1] = c[2] BY <1>1, <3>3
    <3> QED BY <1>3, <3>2, <3>4, <3>5, <3>6, ProceedGoesOn
  <2> QED BY <2>1, <2>5, <2>6, <2>7
<1>5. CASE EnterLoop(w)
  <2>1. /\ A = {}
        /\ \/ \E a \in k.open : Finish(w, k, {}, "awaiting_approval", a)
           \/ Finish(w, k, {}, "awaiting_tool", None)
           \/ Proceed(w, "turn", k, {})
    BY <1>1, <1>5 DEF EnterLoop
  <2>2. ASSUME NEW a \in k.open, Finish(w, k, {}, "awaiting_approval", a) PROVE LoopGoesOn(w)
    BY <1>1, <1>3, <2>1, <2>2, FinishGoesOn
  <2>3. CASE Finish(w, k, {}, "awaiting_tool", None)
    BY <1>1, <1>3, <2>1, <2>3, FinishGoesOn
  <2>4. CASE Proceed(w, "turn", k, {})
    BY <1>1, <1>3, <2>1, <2>4, ProceedGoesOn
  <2> QED BY <2>1, <2>2, <2>3, <2>4
<1>6. ASSUME NEW n \in 0..MaxHistory, PollReaches(r, k.cursor, n)
      PROVE  /\ Pulled(r, k, n) \in Checkpoint
             /\ Pulled(r, k, n).binds = k.binds /\ Pulled(r, k, n).turns = k.turns
             /\ RunLedger(r) /\ Extends(r, k, A) =>
                   Extends(r, Pulled(r, k, n), A \cup Due(r, k.cursor, n))
  <2>1. Pulled(r, k, n) \in Checkpoint BY <1>1, PulledType
  <2>2. Pulled(r, k, n).binds = k.binds /\ Pulled(r, k, n).turns = k.turns BY DEF Pulled
  <2> QED BY <1>1, <1>3, <1>6, <2>1, <2>2, ExtendsPulled
<1>7. CASE BeginTurn(w)
  <2>1. \/ Finish(w, k, A, "failed", None)
        \/ /\ k.turns < MaxTurns
           /\ \E n \in 0..MaxHistory :
                 /\ PollReaches(r, k.cursor, n)
                 /\ Proceed(w, "model", [Pulled(r, k, n) EXCEPT !.turns = @ + 1],
                            A \cup Due(r, k.cursor, n))
    BY <1>7 DEF BeginTurn
  <2>2. CASE Finish(w, k, A, "failed", None)
    BY <1>1, <1>3, <2>2, FinishGoesOn
  <2>3. ASSUME k.turns < MaxTurns, NEW n \in 0..MaxHistory, PollReaches(r, k.cursor, n),
               Proceed(w, "model", [Pulled(r, k, n) EXCEPT !.turns = @ + 1],
                       A \cup Due(r, k.cursor, n))
        PROVE  LoopGoesOn(w)
    <3> DEFINE p == Pulled(r, k, n)
               k2 == [p EXCEPT !.turns = @ + 1]
               B == A \cup Due(r, k.cursor, n)
    <3>1. /\ p \in Checkpoint /\ p.binds = k.binds /\ p.turns = k.turns
          /\ RunLedger(r) /\ Extends(r, k, A) => Extends(r, p, B)
      BY <1>6, <2>3
    <3> HIDE DEF p, B
    <3>2. k2 \in Checkpoint BY <2>3, <3>1, RecordTypes
    <3>3. SameMessages(p, k2) /\ k2.binds = k.binds BY <3>1 DEF SameMessages, Checkpoint
    <3>4. RunLedger(r) /\ Extends(r, k, A) => Extends(r, k2, B)
      BY <1>3, <3>1, <3>2, <3>3, ExtendsSame
    <3>5. Proceed(w, "model", k2, B) BY <2>3 DEF p, B
    <3> HIDE DEF k2
    <3>6. \A b \in k2.binds : b[1] = b[2] BY <1>1, <3>3
    <3> QED BY <1>3, <3>2, <3>4, <3>5, <3>6, ProceedGoesOn
  <2> QED BY <2>1, <2>2, <2>3
<1>8. CASE ModelReturns(w)
  <2>1. \/ Finish(w, k, A, "failed", None) \/ Finish(w, k, A, "completed", None)
        \/ \E n \in 0..MaxHistory :
              /\ PollReaches(r, k.cursor, n)
              /\ Proceed(w, "turn", Pulled(r, k, n), A \cup Due(r, k.cursor, n))
        \/ \E B \in SUBSET Approvals, d \in BOOLEAN :
              \/ \E a \in B : Finish(w, WithToolCalls(k, B, d), A, "awaiting_approval", a)
              \/ Finish(w, WithToolCalls(k, B, d), A, "awaiting_tool", None)
              \/ Proceed(w, "turn", WithToolCalls(k, B, d), A)
    BY <1>8 DEF ModelReturns
  <2>2. CASE Finish(w, k, A, "failed", None) \/ Finish(w, k, A, "completed", None)
    BY <1>1, <1>3, <2>2, FinishGoesOn
  <2>3. ASSUME NEW n \in 0..MaxHistory, PollReaches(r, k.cursor, n),
               Proceed(w, "turn", Pulled(r, k, n), A \cup Due(r, k.cursor, n))
        PROVE  LoopGoesOn(w)
    <3>1. \A b \in Pulled(r, k, n).binds : b[1] = b[2] BY <1>1, <1>6, <2>3
    <3> QED BY <1>3, <1>6, <2>3, <3>1, ProceedGoesOn
  <2>4. ASSUME NEW B \in SUBSET Approvals, NEW d \in BOOLEAN
        PROVE  /\ WithToolCalls(k, B, d) \in Checkpoint
               /\ WithToolCalls(k, B, d).binds = k.binds /\ B \subseteq WithToolCalls(k, B, d).open
               /\ Extends(r, k, A) => Extends(r, WithToolCalls(k, B, d), A)
    <3>1. WithToolCalls(k, B, d) \in Checkpoint BY <1>1, RecordTypes
    <3>2. /\ SameMessages(k, WithToolCalls(k, B, d))
          /\ WithToolCalls(k, B, d).binds = k.binds /\ B \subseteq WithToolCalls(k, B, d).open
      BY <1>1 DEF WithToolCalls, SameMessages, Checkpoint
    <3> QED BY <1>1, <1>3, <3>1, <3>2, ExtendsSame
  <2>5. ASSUME NEW B \in SUBSET Approvals, NEW d \in BOOLEAN,
               \/ \E a \in B : Finish(w, WithToolCalls(k, B, d), A, "awaiting_approval", a)
               \/ Finish(w, WithToolCalls(k, B, d), A, "awaiting_tool", None)
               \/ Proceed(w, "turn", WithToolCalls(k, B, d), A)
        PROVE  LoopGoesOn(w)
    <3> DEFINE k2 == WithToolCalls(k, B, d)
    <3>1. /\ k2 \in Checkpoint /\ k2.binds = k.binds /\ B \subseteq k2.open
          /\ Extends(r, k, A) => Extends(r, k2, A)
      BY <2>4
    <3> HIDE DEF k2
    <3>2. \A b \in k2.binds : b[1] = b[2] BY <1>1, <3>1
    <3>3. ASSUME NEW a \in B, Finish(w, k2, A, "awaiting_approval", a) PROVE LoopGoesOn(w)
      BY <1>3, <3>1, <3>3, FinishGoesOn
    <3>4. CASE Finish(w, k2, A, "awaiting_tool", None)
      BY <1>3, <3>1, <3>4, FinishGoesOn
    <3>5. CASE Proceed(w, "turn", k2, A)
      BY <1>3, <3>1, <3>2, <3>5, ProceedGoesOn
    <3>6. \/ \E a \in B : Finish(w, k2, A, "awaiting_approval", a)
          \/ Finish(w, k2, A, "awaiting_tool", None)
          \/ Proceed(w, "turn", k2, A)
      BY <2>5 DEF k2
    <3> QED BY <3>3, <3>4, <3>5, <3>6
  <2> QED BY <2>1, <2>2, <2>3, <2>5
<1> QED BY <1>4, <1>5, <1>7, <1>8

(* A worker's record in any step.                                            *)
WorkerMoves(w) ==
    \/ wk'[w] = wk[w]
    \/ wk'[w] = IdleWorker
    \/ \E r \in Runs : Claim(w, r)
    \/ Start(w) /\ \E pc \in {"started", "raised"} : wk'[w] = [wk[w] EXCEPT !.pc = pc]
    \/ Commit(w) /\ wk'[w] = [wk[w] EXCEPT !.pc = "raised"]
    \/ LoopGoesOn(w)

LEMMA EveryWorkerMoves ==
    ASSUME Base, CommandInv, Next, NEW w \in Workers
    PROVE  WorkerMoves(w)
<1>0. wk \in [Workers -> Worker] /\ LoopShape(w) BY DEF Base, TypeOK, CommandInv
<1>1. CASE wk' = wk BY <1>1 DEF WorkerMoves
<1>2. ASSUME NEW v \in Workers, WorkerStep(v) \/ Heartbeat(v) \/ Vanish(v) PROVE WorkerMoves(w)
  <2>1. CASE v # w
    BY <1>0, <1>2, <2>1 DEF WorkerMoves, WorkerStep, Heartbeat, Vanish, Claim, Start, ResumeBinding,
       EnterLoop, BeginTurn, ModelReturns, Commit, Retry, Abort, LoseLease, Finish, Proceed
  <2>2. CASE v = w
    <3>1. CASE Start(w) BY <1>0, <3>1 DEF WorkerMoves, Start
    <3>2. CASE Commit(w) BY <1>0, <3>2 DEF WorkerMoves, Commit
    <3>3. CASE Retry(w) \/ Abort(w) \/ LoseLease(w) \/ Vanish(w) \/ Heartbeat(w)
      BY <1>0, <3>3 DEF WorkerMoves, Retry, Abort, LoseLease, Vanish, Heartbeat
    <3>4. CASE ResumeBinding(w) \/ EnterLoop(w) \/ BeginTurn(w) \/ ModelReturns(w)
      BY <1>0, <3>4, LoopStepGoesOn DEF WorkerMoves
    <3> QED BY <1>2, <2>2, <3>1, <3>2, <3>3, <3>4 DEF WorkerStep, WorkerMoves
  <2> QED BY <2>1, <2>2
<1>3. ASSUME NEW c \in Clients, ClientStep(c) PROVE wk' = wk
  BY <1>3 DEF ClientStep, BeginResume, GetRun, LoadCheckpoint, RequeueAfterApproval, AbandonResume
<1>4. ASSUME NEW r \in Runs, RunStep(r) PROVE wk' = wk
  BY <1>4 DEF RunStep, Create, SubmitControl, CancelQueued, LeaseLapses, BackoffElapses,
     RequeueAfterTools
<1>5. CASE RecoverExpired BY <1>1, <1>5 DEF RecoverExpired
<1> QED BY <1>1, <1>2, <1>3, <1>4, <1>5 DEF Next, NextWithoutRecovery

LEMMA ClaimExtends ==
    ASSUME Base, CommandInv, NEW w \in Workers, NEW r \in Runs, Claim(w, r)
    PROVE  /\ LoopShape(w)'
           /\ HoldsLease(w)' => Extends(wk[w].run, wk[w].ck, wk[w].applied)'
<1>1. /\ wk'[w].pc = "claimed" /\ wk'[w].run = r /\ wk'[w].ck = ckpt[r] /\ wk'[w].applied = {}
      /\ ckpt' = ckpt /\ cmd' = cmd
  BY DEF Claim, Base, TypeOK
<1>2. RunLedger(r) /\ RunParked(r) BY DEF CommandInv
<1>3. LoopShape(w)' BY <1>1, <1>2 DEF LoopShape, RunParked
<1>4. /\ ckpt[r].cursor \in Int /\ ckpt[r].turns \in Int /\ \A s \in Seqs : s \in Int
      /\ ckpt[r].msgs \in [Seqs -> Nat]
  BY RunParts DEF Seqs
<1>5. Due(r, ckpt[r].cursor, ckpt[r].cursor) = {} BY <1>4 DEF Due
<1>6. Extends(r, ckpt[r], {}) BY <1>2, <1>4, <1>5 DEF Extends, RunLedger
<1>7. Extends(wk[w].run, wk[w].ck, wk[w].applied)' BY <1>1, <1>6 DEF Extends, Due
<1> QED BY <1>3, <1>7

LEMMA LoopShapeNext ==
    ASSUME Base, CommandInv, Next, NEW w \in Workers
    PROVE  LoopShape(w)'
<1>1. LoopShape(w) /\ wk[w] \in Worker BY DEF CommandInv, Base, TypeOK
<1>2. CASE wk'[w] = wk[w] BY <1>1, <1>2 DEF LoopShape
<1>3. CASE wk'[w] = IdleWorker BY <1>3 DEF LoopShape, IdleWorker, NewCheckpoint
<1>4. CASE Start(w) /\ \E pc \in {"started", "raised"} : wk'[w] = [wk[w] EXCEPT !.pc = pc]
  BY <1>1, <1>4 DEF LoopShape, Start, Worker
<1>5. CASE Commit(w) /\ wk'[w] = [wk[w] EXCEPT !.pc = "raised"]
  BY <1>1, <1>5 DEF LoopShape, Worker
<1> QED BY <1>2, <1>3, <1>4, <1>5, EveryWorkerMoves, ClaimExtends DEF WorkerMoves, LoopGoesOn

(* Who still holds a lease after a step held it before.                      *)
LEMMA HeldBefore ==
    ASSUME Base, Fencing, Next, NEW w \in Workers, HoldsLease(w)', ~\E r \in Runs : Claim(w, r)
    PROVE  /\ HoldsLease(w) /\ wk'[w].run = wk[w].run
           /\ row'[wk[w].run].token # 0
<1>0. /\ row \in [Runs -> Row] /\ wk \in [Workers -> Worker] /\ issued \in [Runs -> Nat]
      /\ \A r \in Runs : row[r].token \in Nat
      /\ \A v \in Workers : wk[v].token \in Nat /\ (Busy(v) => wk[v].run \in Runs /\ wk[v].token # 0)
  BY DEF Base, TypeOK, Row, Worker, WorkerShape
<1>1. wk'[w].pc # "idle" /\ row'[wk'[w].run].token = wk'[w].token BY DEF HoldsLease, Busy
<1>2. CASE KeepsTokens
  <2>1. Busy(w) /\ wk'[w].run = wk[w].run /\ wk'[w].token = wk[w].token
    BY <1>1, <1>2 DEF KeepsTokens
  <2> QED BY <1>0, <1>1, <1>2, <2>1 DEF KeepsTokens, HoldsLease
<1>3. ASSUME NEW v \in Workers, NEW q \in Runs, Claim(v, q), v # w
      PROVE  HoldsLease(w) /\ wk'[w].run = wk[w].run /\ row'[wk[w].run].token # 0
  <2>1. wk'[w] = wk[w] BY <1>0, <1>3 DEF Claim
  <2>2. \A r \in Runs : row'[r].token = IF r = q THEN issued[q] + 1 ELSE row[r].token
    BY <1>0, <1>3 DEF Claim, FreshToken, Row
  <2>3. Busy(w) /\ wk[w].token <= issued[wk[w].run] BY <1>1, <2>1 DEF Busy, Fencing
  <2>4. wk[w].run # q BY <1>0, <1>1, <2>1, <2>2, <2>3
  <2> QED BY <1>0, <1>1, <2>1, <2>2, <2>3, <2>4 DEF HoldsLease
<1> QED BY <1>2, <1>3, TokenFrame

LEMMA HolderNext ==
    ASSUME Base, ResumeInv, Fencing, CommandInv, Next, NEW w \in Workers, HoldsLease(w)'
    PROVE  Extends(wk[w].run, wk[w].ck, wk[w].applied)'
<1>1. CASE \E r \in Runs : Claim(w, r) BY <1>1, ClaimExtends
<1>2. CASE ~\E r \in Runs : Claim(w, r)
  <2>0. HoldsLease(w) /\ wk[w].run \in Runs BY <1>2, HeldBefore, HolderIsLeased
  <2> PICK r \in Runs : r = wk[w].run BY <2>0
  <2>1. HoldsLease(w) /\ r = wk[w].run /\ wk'[w].run = r /\ row'[r].token # 0
    BY <1>2, HeldBefore
  <2>2. /\ r \in Runs /\ wk[w] \in Worker /\ wk[w].ck \in Checkpoint
    BY <2>1, HolderIsLeased, WorkerParts
  <2>3. /\ RunLedger(r) /\ RunParked(r) /\ Extends(r, wk[w].ck, wk[w].applied)
    BY <2>1, <2>2 DEF CommandInv
  <2>4. RunKept(r) \/ RunSubmitted(r) BY <2>1, <2>2, <2>3, EveryRunMoves, LeasedRunMoves
  <2>5. ASSUME NEW k \in Checkpoint, NEW A, Extends(r, k, A), wk'[w].ck = k, wk'[w].applied = A
        PROVE  Extends(wk[w].run, wk[w].ck, wk[w].applied)'
    <3>1. Extends(r, k, A)' BY <2>2, <2>3, <2>4, <2>5, ExtendsKept
    <3> QED BY <2>1, <2>5, <3>1 DEF Extends, Due
  <2>6. CASE wk'[w].ck = wk[w].ck /\ wk'[w].applied = wk[w].applied
    BY <2>2, <2>3, <2>5, <2>6
  <2>7. CASE wk'[w] = IdleWorker BY <2>7 DEF HoldsLease, Busy, IdleWorker
  <2>8. CASE LoopGoesOn(w)
    <3>1. wk'[w].ck \in Checkpoint /\ Extends(r, wk'[w].ck, wk'[w].applied)
      BY <2>3, <2>8 DEF LoopGoesOn
    <3> QED BY <2>5, <3>1
  <2>9. CASE \E pc \in {"started", "raised"} : wk'[w] = [wk[w] EXCEPT !.pc = pc]
    BY <2>2, <2>6, <2>9 DEF Worker
  <2> QED BY <1>2, <2>6, <2>7, <2>8, <2>9, EveryWorkerMoves DEF WorkerMoves
<1> QED BY <1>1, <1>2

LEMMA CommandInvInit == Init => CommandInv
<1> SUFFICES ASSUME Init PROVE CommandInv OBVIOUS
<1>1. ASSUME NEW r \in Runs PROVE RunLedger(r) /\ RunParked(r)
  BY LimitsAssumption DEF Init, RunLedger, RunParked, NewCheckpoint, NoRow, Seqs
<1>2. ASSUME NEW w \in Workers PROVE LoopShape(w) /\ ~HoldsLease(w)
  BY DEF Init, LoopShape, HoldsLease, Busy, IdleWorker, NewCheckpoint
<1> QED BY <1>1, <1>2 DEF CommandInv

LEMMA CommandInvNext ==
    Base /\ ResumeInv /\ Fencing /\ CommandInv /\ [Next]_vars => CommandInv'
<1> SUFFICES ASSUME Base, ResumeInv, Fencing, CommandInv, [Next]_vars PROVE CommandInv'
  OBVIOUS
<1>1. CASE UNCHANGED vars
  BY <1>1 DEF vars, CommandInv, RunLedger, RunParked, LoopShape, HoldsLease, Busy, Extends, Due
<1>2. CASE Next
  <2>1. \A r \in Runs : RunLedger(r)' /\ RunParked(r)' BY <1>2, EveryMoveIsSound DEF RunSound
  <2>2. \A w \in Workers : LoopShape(w)' BY <1>2, LoopShapeNext
  <2>3. \A w \in Workers : HoldsLease(w)' => Extends(wk[w].run, wk[w].ck, wk[w].applied)'
    BY <1>2, HolderNext
  <2> QED BY <2>1, <2>2, <2>3 DEF CommandInv
<1> QED BY <1>1, <1>2

LEMMA SpecKeepsCommands == Spec => [](Base /\ ResumeInv /\ Fencing /\ CommandInv)
<1>1. Init => ResumeInv /\ Fencing
  BY DEF Init, ResumeInv, IdleClient, Fencing, NoRow, IdleWorker, Busy
<1> QED BY BaseInit, BaseNext, ResumeNext, FencingNext, CommandInvInit, CommandInvNext, <1>1, PTL
        DEF Spec

(* submit_control, pull_control and checkpoint: every command reaches the    *)
(* stored conversation once and in order, or is rejected with its run.       *)
THEOREM CommandsExactlyOnce == Spec => []CommandsApplyOnce
<1>1. CommandInv => CommandsApplyOnce
  BY DEF CommandInv, RunLedger, CommandsApplyOnce, ControlExactlyOnce, NoStrandedCommand
<1> QED BY SpecKeepsCommands, <1>1, PTL

(* _lease_checkpoint_transition never refuses the worker that holds the      *)
(* lease, and what it stores is the stored checkpoint and the commands it    *)
(* pulled, within the failure budget.                                        *)
THEOREM HolderMayWrite == Spec => []CheckpointDiscipline
<1>1. Base /\ CommandInv => HolderExtendsCheckpoint
  BY DEF CommandInv, Extends, HolderExtendsCheckpoint
<1>2. Base /\ CommandInv => HolderIsNeverRefused
  <2> SUFFICES ASSUME Base, CommandInv, NEW w \in Workers, HoldsLease(w)
               PROVE  ControlBindingValid(wk[w].run, wk[w].ck, wk[w].applied)
    BY DEF HolderIsNeverRefused
  <2> DEFINE r == wk[w].run
             k == wk[w].ck
             A == wk[w].applied
  <2>1. /\ r \in Runs /\ row[r].status \in Leased /\ k \in Checkpoint /\ A \subseteq Seqs
    BY HolderIsLeased, WorkerParts
  <2>2. RunLedger(r) /\ Extends(r, k, A) BY <2>1 DEF CommandInv
  <2> HIDE DEF r, k, A
  <2>3. OutcomeHolds(r, k, A) BY <2>1, <2>2, OutcomeCommands
  <2>4. /\ ckpt[r].cursor \in Int /\ k.cursor \in Int /\ \A s \in Seqs : s \in Int /\ s > 0
    BY <2>1, RunParts DEF Seqs, Checkpoint
  <2>5. k.cursor >= ckpt[r].cursor /\ \A s \in A : ckpt[r].cursor < s /\ s <= k.cursor
    BY <2>2, <2>4 DEF Extends, Due
  <2>6. Due(r, 0, k.cursor) = A BY <2>1, <2>3, <2>4 DEF OutcomeHolds, Due
  <2>7. (\A s \in Seqs : k.msgs[s] <= 1) /\ (\A s \in A : k.msgs[s] = 1)
    BY <2>1, <2>3 DEF OutcomeHolds
  <2> QED BY <2>5, <2>6, <2>7 DEF ControlBindingValid, r, k, A
<1>3. Base /\ CommandInv => CheckpointDiscipline
  BY <1>1, <1>2 DEF CheckpointDiscipline, Base
<1> QED BY SpecKeepsCommands, <1>3, PTL

(* A run suspended for an approval can be resumed: the call it waits for is  *)
(* open in its checkpoint, bindings match and the usage agrees               *)
(* (requeue_after_approval, _pending_call).                                  *)
THEOREM ParkedRunsAgree == Spec => []ParkedRunAgrees
<1>1. CommandInv => ParkedRunAgrees
  BY DEF CommandInv, RunParked, ParkedRunAgrees, BindingsAreOpen, ParkedOnOpenApproval, UsageAgrees
<1> QED BY SpecKeepsCommands, <1>1, PTL

(* No write takes a command, a turn or the cursor out of a checkpoint, none  *)
(* changes it under the same version, and failed, cancelled, applied and     *)
(* rejected are final.                                                       *)
THEOREM RunsNeverRegress == Spec => RunNeverRegresses
<1>1. Base /\ ResumeInv /\ Fencing /\ CommandInv /\ [Next]_vars
        => [\A r \in Runs :
              /\ ckpt'[r].turns >= ckpt[r].turns
              /\ ckpt'[r].cursor >= ckpt[r].cursor
              /\ \A s \in Seqs : ckpt'[r].msgs[s] >= ckpt[r].msgs[s]
              /\ ckpt'[r] # ckpt[r] => row'[r].version > row[r].version]_vars
  <2> SUFFICES ASSUME Base, ResumeInv, CommandInv, Next, NEW r \in Runs
               PROVE  /\ ckpt'[r].turns >= ckpt[r].turns
                      /\ ckpt'[r].cursor >= ckpt[r].cursor
                      /\ \A s \in Seqs : ckpt'[r].msgs[s] >= ckpt[r].msgs[s]
                      /\ ckpt'[r] # ckpt[r] => row'[r].version > row[r].version
    OBVIOUS
  <2>1. TakesNothingBack(r) BY EveryMoveIsSound DEF RunSound
  <2>2. ckpt'[r] # ckpt[r] => row'[r].version > row[r].version
    BY VersionFrame DEF Untouched, Newer
  <2> QED BY <2>1, <2>2 DEF TakesNothingBack
<1>2. Base /\ ResumeInv /\ Fencing /\ CommandInv /\ [Next]_vars
        => [\A r \in Runs :
              /\ row[r].status \in {"failed", "cancelled"} => row'[r] = row[r]
              /\ \A s \in Seqs : cmd[r][s] \in {"applied", "rejected"} =>
                    cmd'[r][s] = cmd[r][s]]_vars
  <2> SUFFICES ASSUME Base, ResumeInv, CommandInv, Next, NEW r \in Runs
               PROVE  /\ row[r].status \in {"failed", "cancelled"} => row'[r] = row[r]
                      /\ \A s \in Seqs : cmd[r][s] \in {"applied", "rejected"} =>
                            cmd'[r][s] = cmd[r][s]
    OBVIOUS
  <2> QED BY EveryMoveIsSound DEF RunSound, TakesNothingBack
<1> QED BY SpecKeepsCommands, <1>1, <1>2, PTL
        DEF Spec, RunNeverRegresses, CheckpointNeverRegresses, FinalStays

=============================================================================
