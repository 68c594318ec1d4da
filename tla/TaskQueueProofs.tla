--------------------------- MODULE TaskQueueProofs --------------------------
(* Machine-checked proofs about the two queues that hand work over through   *)
(* the database: TaskQueue, for any number of tasks, queues, workers and     *)
(* attempts and any dependency graph enqueue accepts; and Transport, for any *)
(* number of messages, relays and consumers.                                 *)
EXTENDS TaskQueue, Transport, TLAPS

-----------------------------------------------------------------------------
(* The base invariant *)

(* A lease has the number of the last attempt; a task that does not exist    *)
(* has no history; one that succeeded was never to be cancelled.             *)
RowShape ==
    \A t \in Tasks :
        /\ task[t].token # 0 => task[t].status \in Leased
        /\ task[t].status = "absent" => task[t].attempts = 0 /\ ~task[t].cancel
        /\ task[t].status = "succeeded" => ~task[t].cancel

(* What a worker believes in was once the number of an attempt.              *)
WorkerShape ==
    \A w \in Workers : ew[w].task # None =>
        1 <= ew[w].token /\ ew[w].token <= task[ew[w].task].attempts

Base == TypeOK /\ AttemptBudget /\ RowShape /\ WorkerShape

(* The ways a step changes the row of a task.                                *)
Moves(x, y) ==
    \/ y = x
    \/ /\ x.status = "absent"
       /\ y \in Task /\ y.status = "queued" /\ y.attempts = 0 /\ y.token = 0 /\ ~y.cancel
    \/ x.status \in Waiting /\ ~x.cancel /\ y = LeasedTo(x)
    \/ x.status \in Leased /\ y = [x EXCEPT !.status = "running"]
    \/ x.status \in Leased /\ y = [x EXCEPT !.cancel = TRUE]
    \/ \E b \in BOOLEAN : y = [x EXCEPT !.lapsed = b] \/ y = [x EXCEPT !.delayed = b]
    \/ /\ x.status \in Waiting \cup Leased
       /\ \E s \in {"cancelled", "failed"}, b \in BOOLEAN : y = ClearLease(x, s, b)
    \/ x.status = "running" /\ ~x.cancel /\ y = ClearLease(x, "succeeded", x.delayed)
    \/ /\ x.status \in Leased /\ x.attempts < MaxAttempts
       /\ \E b \in BOOLEAN : y = ClearLease(x, "retry_wait", b)

(* Every row moved so, and a task was claimed only when all it depends on    *)
(* had succeeded.                                                            *)
TasksMove ==
    /\ task' \in [Tasks -> Task]
    /\ \A t \in Tasks :
          /\ Moves(task[t], task'[t])
          /\ \/ task'[t].attempts = task[t].attempts
             \/ \A d \in task[t].deps : task[d].status = "succeeded"

LEMMA ClearLeaseType ==
    ASSUME NEW x \in Task, NEW s \in Status, NEW b \in BOOLEAN
    PROVE  /\ ClearLease(x, s, b) \in Task
           /\ ClearLease(x, s, b).status = s /\ ClearLease(x, s, b).token = 0
           /\ ClearLease(x, s, b).attempts = x.attempts
           /\ ClearLease(x, s, b).cancel = x.cancel
           /\ ClearLease(x, s, b).deps = x.deps
BY DEF ClearLease, Task

LEMMA LeasedToType ==
    ASSUME NEW x \in Task
    PROVE  /\ LeasedTo(x) \in Task
           /\ LeasedTo(x).status = "leased"
           /\ LeasedTo(x).attempts = x.attempts + 1 /\ LeasedTo(x).token = x.attempts + 1
           /\ LeasedTo(x).cancel = x.cancel /\ LeasedTo(x).deps = x.deps
BY DEF LeasedTo, Task, Status

LEMMA Statuses ==
    /\ Waiting \subseteq Status /\ Leased \subseteq Status /\ Terminal \subseteq Status
    /\ "retry_wait" \in Status /\ "cancelled" \in Status /\ "failed" \in Status
    /\ "succeeded" \in Status /\ "running" \in Status
BY DEF Status, Waiting, Leased, Terminal

LEMMA MovesType ==
    ASSUME NEW x \in Task, NEW y, Moves(x, y)
    PROVE  y \in Task
<1>1. CASE x.status \in Waiting /\ ~x.cancel /\ y = LeasedTo(x)
  BY <1>1, LeasedToType
<1>2. CASE y = [x EXCEPT !.status = "running"] \/ y = [x EXCEPT !.cancel = TRUE]
  BY <1>2, Statuses DEF Task
<1>3. CASE \E b \in BOOLEAN : y = [x EXCEPT !.lapsed = b] \/ y = [x EXCEPT !.delayed = b]
  BY <1>3 DEF Task
<1>4. CASE \E s \in Status, b \in BOOLEAN : y = ClearLease(x, s, b)
  BY <1>4, ClearLeaseType
<1>5. x.delayed \in BOOLEAN
  BY DEF Task
<1> QED BY <1>1, <1>2, <1>3, <1>4, <1>5, Statuses DEF Moves

-----------------------------------------------------------------------------
(* Every step moves the tasks so *)

LEMMA MoveNothing == \A x : Moves(x, x)
BY DEF Moves

LEMMA TasksStay ==
    ASSUME Base, task' = task
    PROVE  TasksMove
BY MoveNothing DEF Base, TypeOK, TasksMove

LEMMA OneTaskMoves ==
    ASSUME Base, NEW t \in Tasks, NEW y, Moves(task[t], y), y.attempts = task[t].attempts,
           task' = [task EXCEPT ![t] = y]
    PROVE  TasksMove
<1>1. task \in [Tasks -> Task]
  BY DEF Base, TypeOK
<1>2. y \in Task
  BY <1>1, MovesType
<1>3. \A u \in Tasks : task'[u] = task[u] \/ (u = t /\ task'[u] = y)
  BY <1>1
<1> QED BY <1>1, <1>2, <1>3, MoveNothing DEF TasksMove

LEMMA TaskStepMoves ==
    ASSUME Base, NEW t \in Tasks, TaskStep(t)
    PROVE  TasksMove
<1>0. task[t] \in Task
  BY DEF Base, TypeOK
<1>1. CASE \E q \in Queues, D \in SUBSET Tasks, delayed \in BOOLEAN : Enqueue(t, q, D, delayed)
  <2>1. PICK q \in Queues, D \in SUBSET Tasks, b \in BOOLEAN : Enqueue(t, q, D, b)
    BY <1>1
  <2> DEFINE y == [status |-> "queued", queue |-> q, deps |-> D, attempts |-> 0,
                   token |-> 0, lapsed |-> FALSE, delayed |-> b, cancel |-> FALSE]
  <2>2. task' = [task EXCEPT ![t] = y] /\ task[t].status = "absent"
    BY <2>1 DEF Enqueue, Known
  <2>3. y \in Task
    BY DEF Task, Status
  <2>4. Moves(task[t], y)
    BY <2>2, <2>3 DEF Moves
  <2>5. y.attempts = task[t].attempts
    BY <2>2 DEF Base, RowShape
  <2> HIDE DEF y
  <2> QED BY <2>2, <2>4, <2>5, OneTaskMoves
<1>2. CASE RequestCancel(t)
  <2>1. CASE task[t].status \in Waiting /\ task' = [task EXCEPT ![t] = ClearLease(@, "cancelled", @.delayed)]
    <3> DEFINE y == ClearLease(task[t], "cancelled", task[t].delayed)
    <3>1. task' = [task EXCEPT ![t] = y]
      BY <2>1
    <3>2. task[t].delayed \in BOOLEAN
      BY <1>0 DEF Task
    <3>3. Moves(task[t], y)
      BY <2>1, <3>2 DEF Moves
    <3>4. y.attempts = task[t].attempts
      BY <1>0, <3>2, ClearLeaseType, Statuses, SMTT(30)
    <3> HIDE DEF y
    <3> QED BY <3>1, <3>3, <3>4, OneTaskMoves
  <2>2. CASE task[t].status \in Leased /\ task' = [task EXCEPT ![t].cancel = TRUE]
    <3> DEFINE y == [task[t] EXCEPT !.cancel = TRUE]
    <3>1. task' = [task EXCEPT ![t] = y] /\ y.attempts = task[t].attempts
      BY <1>0, <2>2 DEF Task
    <3>2. Moves(task[t], y)
      BY <2>2 DEF Moves
    <3> HIDE DEF y
    <3> QED BY <3>1, <3>2, OneTaskMoves
  <2> QED BY <1>2, <2>1, <2>2 DEF RequestCancel
<1>3. CASE LeaseLapses(t)
  <2> DEFINE y == [task[t] EXCEPT !.lapsed = TRUE]
  <2>1. task' = [task EXCEPT ![t] = y] /\ y.attempts = task[t].attempts
    BY <1>0, <1>3 DEF LeaseLapses, Task
  <2>2. Moves(task[t], y)
    BY DEF Moves
  <2> HIDE DEF y
  <2> QED BY <2>1, <2>2, OneTaskMoves
<1>4. CASE DelayElapses(t)
  <2> DEFINE y == [task[t] EXCEPT !.delayed = FALSE]
  <2>1. task' = [task EXCEPT ![t] = y] /\ y.attempts = task[t].attempts
    BY <1>0, <1>4 DEF DelayElapses, Task
  <2>2. Moves(task[t], y)
    BY DEF Moves
  <2> HIDE DEF y
  <2> QED BY <2>1, <2>2, OneTaskMoves
<1> QED BY <1>1, <1>2, <1>3, <1>4 DEF TaskStep

(* A worker that passes the lease check finds its task leased.               *)
LEMMA HolderIsLeased ==
    ASSUME Base, NEW w \in Workers, Holds(w)
    PROVE  ew[w].task \in Tasks /\ task[ew[w].task].status \in Leased
<1>1. ew[w].task \in Tasks /\ ew[w].token # 0
  BY DEF Base, TypeOK, Worker, WorkerShape, Holds
<1> QED BY <1>1 DEF Base, RowShape, Holds

LEMMA WorkerStepMoves ==
    ASSUME Base, NEW w \in Workers, WorkerStep(w)
    PROVE  TasksMove
<1>1. CASE Forget(w)
  BY <1>1, TasksStay DEF Forget
<1>2. CASE Holds(w)
  <2>1. PICK t \in Tasks : t = ew[w].task /\ task[t].status \in Leased
    BY <1>2, HolderIsLeased
  <2>2. task[t] \in Task /\ task[t].delayed \in BOOLEAN
    BY DEF Base, TypeOK, Task
  <2>3. CASE Start(w)
    <3> DEFINE y == [task[t] EXCEPT !.status = "running"]
    <3>1. task' = [task EXCEPT ![t] = y] /\ y.attempts = task[t].attempts
      BY <2>1, <2>2, <2>3 DEF Start, Task
    <3>2. Moves(task[t], y)
      BY <2>1 DEF Moves
    <3> HIDE DEF y
    <3> QED BY <3>1, <3>2, OneTaskMoves
  <2>4. CASE Heartbeat(w)
    <3> DEFINE y == [task[t] EXCEPT !.lapsed = FALSE]
    <3>1. task' = [task EXCEPT ![t] = y] /\ y.attempts = task[t].attempts
      BY <2>1, <2>2, <2>4 DEF Heartbeat, Task
    <3>2. Moves(task[t], y)
      BY DEF Moves
    <3> HIDE DEF y
    <3> QED BY <3>1, <3>2, OneTaskMoves
  <2>5. CASE Succeed(w)
    <3> DEFINE y == ClearLease(task[t], "succeeded", task[t].delayed)
    <3>1. task' = [task EXCEPT ![t] = y] /\ task[t].status = "running" /\ ~task[t].cancel
      BY <2>1, <2>5 DEF Succeed
    <3>2. Moves(task[t], y)
      BY <3>1 DEF Moves
    <3>3. y.attempts = task[t].attempts
      BY <2>2, ClearLeaseType, Statuses, SMTT(30)
    <3> HIDE DEF y
    <3> QED BY <3>1, <3>2, <3>3, OneTaskMoves
  <2>6. CASE AcknowledgeCancel(w)
    <3> DEFINE y == ClearLease(task[t], "cancelled", task[t].delayed)
    <3>1. task' = [task EXCEPT ![t] = y]
      BY <2>1, <2>6 DEF AcknowledgeCancel
    <3>2. Moves(task[t], y)
      BY <2>1, <2>2 DEF Moves
    <3>3. y.attempts = task[t].attempts
      BY <2>2, ClearLeaseType, Statuses, SMTT(30)
    <3> HIDE DEF y
    <3> QED BY <3>1, <3>2, <3>3, OneTaskMoves
  <2>7. CASE \E retryable, delayed \in BOOLEAN : Fail(w, retryable, delayed)
    <3>1. PICK retryable \in BOOLEAN, b \in BOOLEAN : Fail(w, retryable, b)
      BY <2>7
    <3> DEFINE y == IF retryable /\ AttemptsLeft(task[t])
                    THEN ClearLease(task[t], "retry_wait", b)
                    ELSE ClearLease(task[t], "failed", b)
    <3>2. task' = [task EXCEPT ![t] = y]
      BY <2>1, <3>1 DEF Fail
    <3>3. Moves(task[t], y)
      BY <2>1 DEF Moves, AttemptsLeft
    <3>4. y.attempts = task[t].attempts
      <4>1. /\ ClearLease(task[t], "retry_wait", b).attempts = task[t].attempts
            /\ ClearLease(task[t], "failed", b).attempts = task[t].attempts
        BY DEF ClearLease
      <4> QED BY <4>1
    <3> HIDE DEF y
    <3> QED BY <3>2, <3>3, <3>4, OneTaskMoves
  <2> QED BY <1>1, <2>3, <2>4, <2>5, <2>6, <2>7 DEF WorkerStep
<1> QED BY <1>1, <1>2 DEF WorkerStep, Start, Heartbeat, Succeed, Fail, AcknowledgeCancel

(* What settling a queue does to every row.                                  *)
LEMMA SettledMoves ==
    ASSUME Base, NEW q \in Queues, NEW S \in SUBSET Tasks, Settles(q, S)
    PROVE  /\ Settled(S) \in [Tasks -> Task]
           /\ \A t \in Tasks : /\ Moves(task[t], Settled(S)[t])
                               /\ Settled(S)[t].attempts = task[t].attempts
                               /\ t \notin S => Settled(S)[t] = task[t]
<1>1. \A t \in Tasks : task[t] \in Task /\ task[t].delayed \in BOOLEAN
  BY DEF Base, TypeOK, Task
<1>2. \A t \in Tasks :
         Settled(S)[t] = IF t \in S THEN ClearLease(task[t], "cancelled", task[t].delayed)
                         ELSE task[t]
  BY DEF Settled
<1>3. \A t \in S : /\ ClearLease(task[t], "cancelled", task[t].delayed) \in Task
                   /\ ClearLease(task[t], "cancelled", task[t].delayed).attempts = task[t].attempts
  BY <1>1, ClearLeaseType, Statuses
<1>4. Settled(S) \in [Tasks -> Task]
  BY <1>1, <1>3 DEF Settled
<1>5. \A t \in S : Moves(task[t], ClearLease(task[t], "cancelled", task[t].delayed))
  BY <1>1 DEF Moves, Settles
<1> QED BY <1>2, <1>3, <1>4, <1>5, MoveNothing

LEMMA ClaimsMove ==
    ASSUME Base, Claims
    PROVE  TasksMove
<1>1. PICK q \in Queues, S \in SUBSET Tasks :
         ClaimNothing(q, S) \/ \E w \in Workers, t \in Tasks : ClaimNext(w, q, S, t)
  BY DEF Claims
<1>2. CASE ClaimNothing(q, S)
  BY <1>2, SettledMoves DEF ClaimNothing, TasksMove
<1>3. CASE \E w \in Workers, t \in Tasks : ClaimNext(w, q, S, t)
  <2>1. PICK w \in Workers, t \in Tasks : ClaimNext(w, q, S, t)
    BY <1>3
  <2> DEFINE T == Settled(S)
  <2>2. /\ T \in [Tasks -> Task]
        /\ \A u \in Tasks : Moves(task[u], T[u]) /\ T[u].attempts = task[u].attempts
        /\ T[t] = task[t]
    BY <2>1, SettledMoves DEF ClaimNext
  <2>3. task' = [T EXCEPT ![t] = LeasedTo(task[t])]
    BY <2>1, <2>2 DEF ClaimNext
  <2> HIDE DEF T
  <2>4. task[t] \in Task
    BY DEF Base, TypeOK
  <2>5. Moves(task[t], LeasedTo(task[t]))
    BY <2>1 DEF ClaimNext, Ready, Moves
  <2>6. task' \in [Tasks -> Task]
    BY <2>2, <2>3, <2>4, LeasedToType
  <2>7. \A u \in Tasks : task'[u] = IF u = t THEN LeasedTo(task[t]) ELSE T[u]
    BY <2>2, <2>3
  <2>8. \A d \in task[t].deps : task[d].status = "succeeded"
    BY <2>1 DEF ClaimNext, Ready
  <2> QED BY <2>2, <2>5, <2>6, <2>7, <2>8 DEF TasksMove
<1> QED BY <1>1, <1>2, <1>3

LEMMA RecoverMoves ==
    ASSUME Base, RecoverExpired
    PROVE  TasksMove
<1>1. PICK S \in SUBSET {t \in Tasks : task[t].status \in Leased /\ task[t].lapsed} :
         task' = [t \in Tasks |-> IF t \in S THEN Recovered(task[t]) ELSE task[t]]
  BY DEF RecoverExpired
<1>2. \A t \in Tasks : task[t] \in Task
  BY DEF Base, TypeOK
<1>3. \A t \in S : t \in Tasks /\ task[t].status \in Leased
  BY <1>1
<1>4. \A x \in Task : Recovered(x) \in Task /\ Recovered(x).attempts = x.attempts
  BY ClearLeaseType, Statuses DEF Recovered
<1>5. \A x \in Task : x.status \in Leased => Moves(x, Recovered(x))
  BY DEF Recovered, Moves, AttemptsLeft
<1>6. task' \in [Tasks -> Task]
  BY <1>1, <1>2, <1>4
<1>7. \A t \in Tasks : task'[t] = task[t] \/ (t \in S /\ task'[t] = Recovered(task[t]))
  BY <1>1
<1> QED BY <1>2, <1>3, <1>4, <1>5, <1>6, <1>7, MoveNothing DEF TasksMove

LEMMA NextMoves ==
    ASSUME Base, [Next]_vars
    PROVE  TasksMove
BY TasksStay, TaskStepMoves, WorkerStepMoves, ClaimsMove, RecoverMoves
   DEF Next, vars

-----------------------------------------------------------------------------
(* What the moves preserve *)

LEMMA MovesFields ==
    ASSUME NEW x \in Task, NEW y, Moves(x, y), x.status = "absent" => x.attempts = 0
    PROVE  /\ y.attempts = x.attempts \/ y.attempts = x.attempts + 1
           /\ x.attempts <= MaxAttempts /\ (x.status \in Waiting => x.attempts < MaxAttempts)
              => y.attempts <= MaxAttempts /\ (y.status \in Waiting => y.attempts < MaxAttempts)
           /\ (x.token # 0 => x.status \in Leased) => (y.token # 0 => y.status \in Leased)
           /\ y.status = "absent" => x.status = "absent" /\ y.attempts = x.attempts
                                     /\ y.cancel = x.cancel
           /\ y.status = "succeeded" /\ y.cancel => x.status = "succeeded" /\ x.cancel
           /\ x.status = "succeeded" => y.status = "succeeded"
           /\ x.status # "absent" => y.deps = x.deps
           /\ x.cancel /\ x.status # "absent" =>
                 y.cancel /\ y.attempts = x.attempts
                 /\ (x.status # "succeeded" => y.status # "succeeded")
<1>1. CASE y = x
  BY <1>1, QueueLimits DEF Task
<1>2. CASE x.status = "absent" /\ y.status = "queued" /\ y.attempts = 0 /\ y.token = 0 /\ ~y.cancel
  BY <1>2, QueueLimits DEF Task, Waiting, Leased
<1>3. CASE x.status \in Waiting /\ ~x.cancel /\ y = LeasedTo(x)
  BY <1>3, LeasedToType, QueueLimits DEF Task, Waiting, Leased
<1>4. CASE x.status \in Leased /\ (y = [x EXCEPT !.status = "running"] \/ y = [x EXCEPT !.cancel = TRUE])
  BY <1>4 DEF Task, Waiting, Leased
<1>5. CASE \E b \in BOOLEAN : y = [x EXCEPT !.lapsed = b] \/ y = [x EXCEPT !.delayed = b]
  BY <1>5 DEF Task
<1>6. CASE /\ x.status \in Waiting \cup Leased
           /\ \E s \in {"cancelled", "failed"}, b \in BOOLEAN : y = ClearLease(x, s, b)
  BY <1>6, ClearLeaseType, Statuses DEF Task, Waiting, Leased
<1>7. CASE x.status = "running" /\ ~x.cancel /\ y = ClearLease(x, "succeeded", x.delayed)
  <2>1. x.delayed \in BOOLEAN
    BY DEF Task
  <2> QED BY <1>7, <2>1, ClearLeaseType, Statuses DEF Task, Waiting, Leased
<1>8. CASE /\ x.status \in Leased /\ x.attempts < MaxAttempts
           /\ \E b \in BOOLEAN : y = ClearLease(x, "retry_wait", b)
  BY <1>8, ClearLeaseType, Statuses DEF Task, Waiting, Leased
<1> QED BY <1>1, <1>2, <1>3, <1>4, <1>5, <1>6, <1>7, <1>8 DEF Moves

LEMMA BaseInit == Init => Base
BY QueueLimits DEF Init, Base, TypeOK, AttemptBudget, RowShape, WorkerShape, Task, Worker,
       NoTask, IdleWorker, Status, Leased, Waiting

(* What a step does to a worker: nothing, it forgets its task, or it claims  *)
(* one under the number of a new attempt.                                    *)
LEMMA WorkersMove ==
    ASSUME Base, [Next]_vars
    PROVE  \/ ew' = ew
           \/ \E w \in Workers : ew' = [ew EXCEPT ![w] = IdleWorker]
           \/ \E w \in Workers, t \in Tasks :
                 /\ ew' = [ew EXCEPT ![w] = [task |-> t, token |-> task[t].attempts + 1]]
                 /\ task'[t].attempts = task[t].attempts + 1
<1>1. CASE Claims
  <2>1. CASE \E q \in Queues, S \in SUBSET Tasks : ClaimNothing(q, S)
    BY <2>1 DEF ClaimNothing
  <2>2. CASE \E q \in Queues, S \in SUBSET Tasks, w \in Workers, t \in Tasks :
                ClaimNext(w, q, S, t)
    <3>1. PICK q \in Queues, S \in SUBSET Tasks, w \in Workers, t \in Tasks :
             ClaimNext(w, q, S, t)
      BY <2>2
    <3>2. Settled(S) \in [Tasks -> Task] /\ Settled(S)[t] = task[t] /\ task[t] \in Task
      BY <3>1, SettledMoves DEF ClaimNext, Base, TypeOK
    <3>3. task'[t] = LeasedTo(task[t])
      BY <3>1, <3>2 DEF ClaimNext
    <3>4. task'[t].attempts = task[t].attempts + 1 /\ task'[t].token = task[t].attempts + 1
      BY <3>2, <3>3, LeasedToType
    <3>5. ew' = [ew EXCEPT ![w] = [task |-> t, token |-> task'[t].token]]
      BY <3>1 DEF ClaimNext
    <3> QED BY <3>4, <3>5
  <2> QED BY <1>1, <2>1, <2>2 DEF Claims
<1>2. CASE \E w \in Workers : WorkerStep(w)
  BY <1>2 DEF WorkerStep, Start, Heartbeat, Succeed, Fail, AcknowledgeCancel, Forget, Replied
<1>3. CASE (\E t \in Tasks : TaskStep(t)) \/ RecoverExpired \/ vars' = vars
  BY <1>3 DEF TaskStep, Enqueue, RequestCancel, LeaseLapses, DelayElapses, RecoverExpired, vars
<1> QED BY <1>1, <1>2, <1>3 DEF Next

LEMMA BaseStep ==
    ASSUME Base, [Next]_vars
    PROVE  Base'
<1>1. TasksMove
  BY NextMoves
<1>2. \A t \in Tasks : task[t] \in Task /\ task'[t] \in Task /\ Moves(task[t], task'[t])
                        /\ (task[t].status = "absent" => task[t].attempts = 0)
  BY <1>1 DEF TasksMove, Base, TypeOK, RowShape
<1>3. AttemptBudget'
  BY <1>2, MovesFields DEF Base, AttemptBudget
<1>4. RowShape'
  <2> SUFFICES ASSUME NEW t \in Tasks
               PROVE  /\ task'[t].token # 0 => task'[t].status \in Leased
                      /\ task'[t].status = "absent" => task'[t].attempts = 0 /\ ~task'[t].cancel
                      /\ task'[t].status = "succeeded" => ~task'[t].cancel
    BY DEF RowShape
  <2>1. /\ task[t].token # 0 => task[t].status \in Leased
        /\ task[t].status = "absent" => task[t].attempts = 0 /\ ~task[t].cancel
        /\ task[t].status = "succeeded" => ~task[t].cancel
    BY DEF Base, RowShape
  <2> QED BY <1>2, <2>1, MovesFields
<1>5. \A t \in Tasks : task[t].attempts \in Nat /\ task'[t].attempts \in Nat
                        /\ task[t].attempts <= task'[t].attempts
  BY <1>2, MovesFields DEF Task
<1>6. ew' \in [Workers -> Worker] /\ WorkerShape'
  <2>1. ew \in [Workers -> Worker] /\ WorkerShape /\ None \notin Tasks
    BY QueueLimits DEF Base, TypeOK
  <2>2. CASE ew' = ew
    BY <1>5, <2>1, <2>2 DEF Worker, WorkerShape
  <2>3. CASE \E w \in Workers : ew' = [ew EXCEPT ![w] = IdleWorker]
    BY <1>5, <2>1, <2>3 DEF Worker, WorkerShape, IdleWorker
  <2>4. CASE \E w \in Workers, t \in Tasks :
               /\ ew' = [ew EXCEPT ![w] = [task |-> t, token |-> task[t].attempts + 1]]
               /\ task'[t].attempts = task[t].attempts + 1
    <3>1. PICK w \in Workers, t \in Tasks :
               /\ ew' = [ew EXCEPT ![w] = [task |-> t, token |-> task[t].attempts + 1]]
               /\ task'[t].attempts = task[t].attempts + 1
      BY <2>4
    <3>2. ew' \in [Workers -> Worker]
      BY <1>5, <2>1, <3>1 DEF Worker
    <3>3. \A v \in Workers : ew'[v] = IF v = w THEN [task |-> t, token |-> task[t].attempts + 1]
                                       ELSE ew[v]
      BY <2>1, <3>1
    <3>4. WorkerShape'
      BY <1>5, <2>1, <3>1, <3>3 DEF Worker, WorkerShape
    <3> QED BY <3>2, <3>4
  <2> QED BY <2>2, <2>3, <2>4, WorkersMove
<1> QED BY <1>1, <1>3, <1>4, <1>6 DEF Base, TypeOK, TasksMove

-----------------------------------------------------------------------------
(* The theorems *)

(* Every variable keeps its type, and failures and lease recoveries together *)
(* never start a task more than max_attempts times (fail, recover_expired).  *)
THEOREM TasksAreBounded == Spec => [](TypeOK /\ AttemptBudget)
<1>1. Base /\ [Next]_vars => Base'
  BY BaseStep
<1>2. Base => TypeOK /\ AttemptBudget
  BY DEF Base
<1> QED BY BaseInit, <1>1, <1>2, PTL DEF Spec

(* No two workers believe in the same attempt of the same task.              *)
AttemptsAreDistinct ==
    \A v, w \in Workers :
        ew[v].task # None /\ ew[v].task = ew[w].task /\ ew[v].token = ew[w].token => v = w

LEMMA DistinctStep ==
    ASSUME Base, AttemptsAreDistinct, [Next]_vars
    PROVE  AttemptsAreDistinct'
<1>1. ew \in [Workers -> Worker] /\ WorkerShape /\ None \notin Tasks
  BY QueueLimits DEF Base, TypeOK
<1>2. CASE ew' = ew
  BY <1>2 DEF AttemptsAreDistinct
<1>3. CASE \E w \in Workers : ew' = [ew EXCEPT ![w] = IdleWorker]
  BY <1>1, <1>3 DEF AttemptsAreDistinct, IdleWorker, Worker
<1>4. CASE \E w \in Workers, t \in Tasks :
               ew' = [ew EXCEPT ![w] = [task |-> t, token |-> task[t].attempts + 1]]
  <2>1. PICK w \in Workers, t \in Tasks :
               ew' = [ew EXCEPT ![w] = [task |-> t, token |-> task[t].attempts + 1]]
    BY <1>4
  <2>2. task[t].attempts \in Nat
    BY DEF Base, TypeOK, Task
  <2>3. \A v \in Workers : ew'[v] = IF v = w THEN [task |-> t, token |-> task[t].attempts + 1]
                                     ELSE ew[v]
    BY <1>1, <2>1
  <2>4. \A v \in Workers : ew[v].task = t => ew[v].token # task[t].attempts + 1
    BY <1>1, <2>2 DEF WorkerShape, Worker
  <2> QED BY <2>3, <2>4 DEF AttemptsAreDistinct
<1> QED BY <1>2, <1>3, <1>4, WorkersMove

(* At most one worker passes _require_lease for a task.                      *)
THEOREM TasksAreFenced == Spec => []OneHolder
<1>1. Init => AttemptsAreDistinct
  BY DEF Init, AttemptsAreDistinct, IdleWorker
<1>2. (Base /\ AttemptsAreDistinct) /\ [Next]_vars => (Base /\ AttemptsAreDistinct)'
  BY BaseStep, DistinctStep
<1>3. AttemptsAreDistinct => OneHolder
  BY DEF AttemptsAreDistinct, OneHolder, Holds
<1> QED BY BaseInit, <1>1, <1>2, <1>3, PTL DEF Spec

LEMMA DependenciesStep ==
    ASSUME Base, DependenciesFirst, [Next]_vars
    PROVE  DependenciesFirst'
<1> SUFFICES ASSUME NEW t \in Tasks, task'[t].attempts > 0, NEW d \in task'[t].deps
             PROVE  task'[d].status = "succeeded"
  BY DEF DependenciesFirst
<1>1. TasksMove
  BY NextMoves
<1>2. \A u \in Tasks : /\ task[u] \in Task /\ task'[u] \in Task /\ Moves(task[u], task'[u])
                        /\ (task[u].status = "absent" => task[u].attempts = 0)
  BY <1>1 DEF TasksMove, Base, TypeOK, RowShape
<1>3. task[t].status # "absent"
  <2>1. ASSUME task[t].status = "absent" PROVE task'[t].attempts = 0
    BY <1>2, <2>1 DEF Moves, LeasedTo, ClearLease, Waiting, Leased, Task
  <2> QED BY <1>2, <2>1 DEF Task
<1>4. task'[t].deps = task[t].deps
  BY <1>2, <1>3, MovesFields
<1>5. d \in Tasks
  BY <1>2 DEF Task
<1>6. task[d].status = "succeeded"
  BY <1>1, <1>2, <1>4 DEF TasksMove, DependenciesFirst
<1> QED BY <1>2, <1>5, <1>6, MovesFields

(* A task that was ever claimed has all its dependencies succeeded, for any  *)
(* dependency graph (claim_next, _settle_blocked).                           *)
THEOREM DependenciesAreMet == Spec => []DependenciesFirst
<1>1. Init => DependenciesFirst
  BY DEF Init, DependenciesFirst, NoTask
<1>2. (Base /\ DependenciesFirst) /\ [Next]_vars => (Base /\ DependenciesFirst)'
  BY BaseStep, DependenciesStep
<1> QED BY BaseInit, <1>1, <1>2, PTL DEF Spec

LEMMA CancelStep ==
    ASSUME Base, [Next]_vars
    PROVE  \A t \in Tasks : task[t].cancel =>
              /\ task'[t].cancel
              /\ task'[t].attempts = task[t].attempts
              /\ task'[t].status # "succeeded"
<1>1. TasksMove
  BY NextMoves
<1>2. \A t \in Tasks : /\ task[t] \in Task /\ Moves(task[t], task'[t])
                        /\ (task[t].status = "absent" => task[t].attempts = 0 /\ ~task[t].cancel)
                        /\ (task[t].status = "succeeded" => ~task[t].cancel)
  BY <1>1 DEF TasksMove, Base, TypeOK, RowShape
<1> QED BY <1>2, MovesFields

(* A task whose cancellation was requested neither succeeds nor is claimed   *)
(* again (_finish, claim_next).                                              *)
THEOREM CancellationStands == Spec => CancelIsRespected
<1>1. Base /\ [Next]_vars => Base'
  BY BaseStep
<1>2. Base /\ [Next]_vars =>
        [\A t \in Tasks : task[t].cancel =>
            /\ task'[t].cancel
            /\ task'[t].attempts = task[t].attempts
            /\ task'[t].status # "succeeded"]_vars
  BY CancelStep
<1> QED BY BaseInit, <1>1, <1>2, PTL DEF Spec, CancelIsRespected

(* A lease ends by its worker or by recovery, and nothing moves a task that  *)
(* is over.                                                                  *)
LEMMA TerminalStays ==
    ASSUME NEW x \in Task, NEW y, Moves(x, y), x.status \in Terminal
    PROVE  y.status = x.status
<1>1. x.status \notin Waiting \cup Leased \cup {"absent", "running"}
  BY DEF Terminal, Waiting, Leased
<1>2. y = x \/ \E b \in BOOLEAN : y = [x EXCEPT !.lapsed = b] \/ y = [x EXCEPT !.delayed = b]
  BY <1>1 DEF Moves
<1> QED BY <1>2 DEF Task

LEMMA LeaseEnds ==
    ASSUME Base, [Next]_vars, NEW t \in Tasks,
           task[t].status \in Leased, task'[t].status \notin Leased
    PROVE  \/ task[t].lapsed
           \/ \E w \in Workers : ew[w].task = t /\ ew[w].token = task[t].token
<1>1. /\ task \in [Tasks -> Task]
      /\ \A x \in Task : x.status \in Leased => x.status \notin Waiting \cup {"absent"}
  BY DEF Base, TypeOK, Waiting, Leased
<1>2. task'[t] # task[t]
  OBVIOUS
<1>3. CASE \E u \in Tasks : TaskStep(u)
  <2>1. PICK u \in Tasks : TaskStep(u)
    BY <1>3
  <2>2. CASE RequestCancel(u)
    <3>1. \/ task[u].status \in Waiting /\ \A v \in Tasks : v # u => task'[v] = task[v]
          \/ task'= [task EXCEPT ![u].cancel = TRUE]
      BY <1>1, <2>2 DEF RequestCancel
    <3>2. CASE task[u].status \in Waiting /\ \A v \in Tasks : v # u => task'[v] = task[v]
      BY <1>1, <1>2, <3>2
    <3>3. CASE task'= [task EXCEPT ![u].cancel = TRUE]
      <4>1. task'[t].status = task[t].status
        BY <1>1, <3>3 DEF Task
      <4> QED BY <4>1
    <3> QED BY <3>1, <3>2, <3>3
  <2>3. CASE LeaseLapses(u)
    <3>1. task'[t].status = task[t].status
      BY <1>1, <2>3 DEF LeaseLapses, Task
    <3> QED BY <3>1
  <2>4. CASE DelayElapses(u)
    <3>1. task'[t].status = task[t].status
      BY <1>1, <2>4 DEF DelayElapses, Task
    <3> QED BY <3>1
  <2>5. CASE \E q \in Queues, D \in SUBSET Tasks, b \in BOOLEAN : Enqueue(u, q, D, b)
    <3>1. task[u].status = "absent" /\ \A v \in Tasks : v # u => task'[v] = task[v]
      BY <1>1, <2>5 DEF Enqueue, Known
    <3> QED BY <1>1, <1>2, <3>1
  <2> QED BY <2>1, <2>2, <2>3, <2>4, <2>5 DEF TaskStep
<1>4. CASE \E w \in Workers : WorkerStep(w)
  <2>1. PICK w \in Workers : WorkerStep(w)
    BY <1>4
  <2>2. task' = task \/ (Holds(w) /\ \A v \in Tasks : v # ew[w].task => task'[v] = task[v])
    BY <1>1, <2>1 DEF WorkerStep, Start, Heartbeat, Succeed, Fail, AcknowledgeCancel, Forget
  <2> QED BY <1>2, <2>2 DEF Holds
<1>5. CASE Claims
  <2>1. PICK S \in SUBSET Tasks :
           /\ \A v \in S : task[v].status \in Waiting
           /\ \/ task' = Settled(S)
              \/ \E u \in Tasks : /\ task[u].status \in Waiting
                                  /\ task' = [Settled(S) EXCEPT ![u] = LeasedTo(@)]
    BY <1>5 DEF Claims, ClaimNothing, ClaimNext, Settles, Ready
  <2>2. \A v \in Tasks : v \notin S => Settled(S)[v] = task[v]
    BY DEF Settled
  <2>3. Settled(S) = [v \in Tasks |-> Settled(S)[v]]
    BY DEF Settled
  <2>4. t \notin S
    BY <1>1, <2>1
  <2>5. \A u \in Tasks : task[u].status \in Waiting => u # t
    BY <1>1
  <2> QED BY <1>2, <2>1, <2>2, <2>3, <2>4, <2>5
<1>6. CASE RecoverExpired
  BY <1>2, <1>6 DEF RecoverExpired
<1>7. CASE UNCHANGED vars
  BY <1>2, <1>7 DEF vars
<1> QED BY <1>3, <1>4, <1>5, <1>6, <1>7 DEF Next

(* A task that is over stays so, and a worker whose lease was recovered, or  *)
(* taken over by another, ends no lease any more (_require_lease,            *)
(* recover_expired).                                                         *)
THEOREM LateWorkersChangeNothing == Spec => LateWorkerChangesNothing
<1>1. Base /\ [Next]_vars => Base'
  BY BaseStep
<1>2. ASSUME Base, [Next]_vars, NEW t \in Tasks, task[t].status \in Terminal
      PROVE  task'[t].status = task[t].status
  <2>1. task[t] \in Task /\ Moves(task[t], task'[t])
    BY <1>2, NextMoves DEF TasksMove, Base, TypeOK
  <2> QED BY <1>2, <2>1, TerminalStays
<1>3. Base /\ [Next]_vars =>
        [\A t \in Tasks :
          /\ task[t].status \in Terminal => task'[t].status = task[t].status
          /\ task[t].status \in Leased /\ task'[t].status \notin Leased
             => \/ task[t].lapsed
                \/ \E w \in Workers : ew[w].task = t /\ ew[w].token = task[t].token]_vars
  BY <1>2, LeaseEnds
<1> QED BY BaseInit, <1>1, <1>3, PTL DEF Spec, LateWorkerChangesNothing

-----------------------------------------------------------------------------
(* Transport: what is published was received *)

(* A relay has an answer only to a message it holds; what travels is the     *)
(* envelope of some claim of a message.                                      *)
TransportShape ==
    /\ TransportTypeOK
    /\ consumer \in [Consumers -> [msg : Messages \cup {NoMessage}, token : Nat]]
    /\ wire \subseteq Messages \X Nat
    /\ \A r \in Relays : relay[r].answer # "none" => relay[r].msg # NoMessage

(* The receipt in a relay's hands is for the envelope of its own claim, and  *)
(* that envelope is the one the inbox has.                                   *)
ReceiptsAreTrue ==
    \A r \in Relays : relay[r].answer = "accepted" =>
        /\ inbox[relay[r].msg].status # "absent"
        /\ inbox[relay[r].msg].digest = relay[r].token

TransportInv == TransportShape /\ ReceiptsAreTrue /\ PublishedWasReceived

(* No step but mark_published makes a row published or changes one that is.  *)
PublishedStays ==
    \A m \in Messages :
        outbox[m].status = "published" \/ outbox'[m].status = "published" =>
            outbox'[m] = outbox[m]

(* An envelope that was stored stays the one under its message id.           *)
StoredStays ==
    \A m \in Messages : inbox[m].status # "absent" =>
        inbox'[m].status # "absent" /\ inbox'[m].digest = inbox[m].digest

(* No step but a receipt makes an answer accepted or changes an accepted one *)
(* while the relay holds its message.                                        *)
AnswersStay ==
    \A r \in Relays : relay'[r].answer = "accepted" => relay'[r] = relay[r]

LEMMA TransportInitially == TransportInit => TransportInv
BY TransportLimits
   DEF TransportInit, TransportInv, TransportShape, TransportTypeOK, OutboxRow, InboxRow,
       RelayState, NoRow, IdleRelay, IdleConsumer, ReceiptsAreTrue, PublishedWasReceived

(* A row that is given back or claimed is still a row with its digest.       *)
LEMMA ReleasedRow ==
    ASSUME NEW x \in OutboxRow, NEW limit \in Nat, NEW delay \in BOOLEAN
    PROVE  LET y == Released(x, limit, "pending", "dead_letter", delay)
           IN  y \in OutboxRow /\ y.status \in {"pending", "dead_letter"}
BY DEF OutboxRow, Released

LEMMA ReleasedInboxRow ==
    ASSUME NEW x \in InboxRow, NEW limit \in Nat, NEW delay \in BOOLEAN
    PROVE  LET y == Released(x, limit, "received", "rejected", delay)
           IN  y \in InboxRow /\ y.status # "absent" /\ y.digest = x.digest
BY DEF InboxRow, Released

LEMMA ClaimedRow ==
    ASSUME NEW x \in OutboxRow
    PROVE  Claimed(x) \in OutboxRow /\ Claimed(x).status = "claimed"
<1>1. PICK k : k = x.attempts + 1
    OBVIOUS
<1>2. k \in Nat
    BY <1>1 DEF OutboxRow
<1>3. Claimed(x) = [x EXCEPT !.status = "claimed", !.attempts = k, !.token = k]
    BY <1>1, Zenon DEF Claimed
<1>4. \A z \in OutboxRow : [z EXCEPT !.status = "claimed", !.attempts = k, !.token = k] \in
                              [status : {"claimed"}, attempts : {k}, token : {k},
                               lapsed : BOOLEAN, delayed : BOOLEAN, digest : {z.digest}]
    BY DEF OutboxRow
<1> QED BY <1>2, <1>3, <1>4 DEF OutboxRow

LEMMA ClaimedInboxRow ==
    ASSUME NEW x \in InboxRow
    PROVE  /\ Claimed(x) \in InboxRow /\ Claimed(x).status = "claimed"
           /\ Claimed(x).digest = x.digest
<1>1. PICK k : k = x.attempts + 1
    OBVIOUS
<1>2. k \in Nat
    BY <1>1 DEF InboxRow
<1>3. Claimed(x) = [x EXCEPT !.status = "claimed", !.attempts = k, !.token = k]
    BY <1>1, Zenon DEF Claimed
<1>4. \A z \in InboxRow : [z EXCEPT !.status = "claimed", !.attempts = k, !.token = k] \in
                              [status : {"claimed"}, attempts : {k}, token : {k},
                               lapsed : BOOLEAN, delayed : BOOLEAN, digest : {z.digest}]
    BY DEF InboxRow
<1> QED BY <1>2, <1>3, <1>4 DEF InboxRow

(* Recovery keeps the types and touches claimed rows only.                   *)
LEMMA RecoveredOutbox ==
    ASSUME TransportShape
    PROVE  /\ RecoverOutbox \in [Messages -> OutboxRow]
           /\ \A m \in Messages :
                 \/ RecoverOutbox[m] = outbox[m]
                 \/ outbox[m].status # "published" /\ RecoverOutbox[m].status # "published"
BY ReleasedRow, TransportLimits DEF TransportShape, TransportTypeOK, RecoverOutbox

LEMMA RecoveredInbox ==
    ASSUME TransportShape
    PROVE  /\ RecoverInbox \in [Messages -> InboxRow]
           /\ \A m \in Messages : inbox[m].status # "absent" =>
                 /\ RecoverInbox[m].status # "absent"
                 /\ RecoverInbox[m].digest = inbox[m].digest
BY ReleasedInboxRow, TransportLimits DEF TransportShape, TransportTypeOK, RecoverInbox

(* The steps of relays keep the shape, the inbox and what was published,     *)
(* but for mark_published, which has the receipt.                            *)
LEMMA RelayKeeps ==
    ASSUME TransportInv, RelayStep \/ \E r \in Relays : RelayCrash(r)
    PROVE  TransportInv'
<1>0. TransportShape /\ ReceiptsAreTrue /\ PublishedWasReceived
    BY DEF TransportInv
<1>1. ASSUME NEW r \in Relays, NEW m \in Messages, ClaimOutbound(r, m) PROVE TransportInv'
    <2> DEFINE rows == RecoverOutbox
    <2>1. /\ rows \in [Messages -> OutboxRow]
          /\ \A k \in Messages : \/ rows[k] = outbox[k]
                                 \/ outbox[k].status # "published" /\ rows[k].status # "published"
        BY <1>0, RecoveredOutbox
    <2>2. /\ rows[m].status = "pending"
          /\ outbox' = [rows EXCEPT ![m] = Claimed(rows[m])]
          /\ relay' = [relay EXCEPT ![r] =
                [msg |-> m, token |-> rows[m].attempts + 1, answer |-> "none"]]
          /\ UNCHANGED <<inbox, wire, consumer>>
        BY <1>1 DEF ClaimOutbound
    <2> HIDE DEF rows
    <2>3. Claimed(rows[m]) \in OutboxRow /\ Claimed(rows[m]).status = "claimed"
        BY <2>1, ClaimedRow
    <2>4. TransportShape'
        BY <1>0, <2>1, <2>2, <2>3
           DEF TransportShape, TransportTypeOK, RelayState, OutboxRow
    <2>5. PublishedStays
        BY <1>0, <2>1, <2>2, <2>3 DEF PublishedStays, TransportShape, TransportTypeOK
    <2>6. AnswersStay
        BY <1>0, <2>2 DEF AnswersStay, TransportShape, TransportTypeOK
    <2> QED BY <1>0, <2>2, <2>4, <2>5, <2>6
        DEF TransportInv, ReceiptsAreTrue, PublishedWasReceived, PublishedStays, AnswersStay
<1>2. CASE ClaimNoOutbound
    <2>1. outbox' = RecoverOutbox /\ UNCHANGED <<inbox, wire, relay, consumer>>
        BY <1>2 DEF ClaimNoOutbound
    <2>2. TransportShape'
        BY <1>0, <2>1, RecoveredOutbox DEF TransportShape, TransportTypeOK
    <2>3. PublishedStays
        BY <1>0, <2>1, RecoveredOutbox DEF PublishedStays
    <2> QED BY <1>0, <2>1, <2>2, <2>3
        DEF TransportInv, ReceiptsAreTrue, PublishedWasReceived, PublishedStays
<1>3. ASSUME NEW r \in Relays,
             HeartbeatOutbound(r) \/ BuildEnvelope(r) \/ RelayCrash(r) PROVE TransportInv'
    <2>1. /\ \/ relay' = [relay EXCEPT ![r] = IdleRelay]
             \/ relay[r].msg # NoMessage /\ relay' = [relay EXCEPT ![r].answer = "built"]
          /\ UNCHANGED <<outbox, inbox, wire, consumer>>
        BY <1>3 DEF HeartbeatOutbound, BuildEnvelope, RelayCrash
    <2>2. TransportShape'
        <3>1. CASE relay' = [relay EXCEPT ![r] = IdleRelay]
            BY <1>0, <2>1, <3>1 DEF TransportShape, TransportTypeOK, RelayState, IdleRelay
        <3>2. CASE relay[r].msg # NoMessage /\ relay' = [relay EXCEPT ![r].answer = "built"]
            BY <1>0, <2>1, <3>2 DEF TransportShape, TransportTypeOK, RelayState
        <3> QED BY <2>1, <3>1, <3>2
    <2>3. AnswersStay
        BY <1>0, <2>1 DEF AnswersStay, TransportShape, TransportTypeOK, RelayState, IdleRelay
    <2> QED BY <1>0, <2>1, <2>2, <2>3
        DEF TransportInv, ReceiptsAreTrue, PublishedWasReceived, AnswersStay
<1>4. ASSUME NEW r \in Relays, Send(r) PROVE TransportInv'
    <2>1. /\ relay[r].answer = "built"
          /\ wire' = wire \cup {<<relay[r].msg, relay[r].token>>}
          /\ relay' = [relay EXCEPT ![r].answer = "sent"]
          /\ UNCHANGED <<outbox, inbox, consumer>>
        BY <1>4 DEF Send, Envelope
    <2>2. relay[r] \in RelayState /\ relay[r].msg \in Messages
        BY <1>0, <2>1 DEF TransportShape, TransportTypeOK, RelayState
    <2>3. TransportShape'
        BY <1>0, <2>1, <2>2 DEF TransportShape, TransportTypeOK, RelayState
    <2>4. AnswersStay
        BY <1>0, <2>1 DEF AnswersStay, TransportShape, TransportTypeOK, RelayState
    <2> QED BY <1>0, <2>1, <2>3, <2>4
        DEF TransportInv, ReceiptsAreTrue, PublishedWasReceived, AnswersStay
<1>5. ASSUME NEW r \in Relays, MarkPublished(r) \/ FailOutbound(r) PROVE TransportInv'
    <2>1. PICK k : k = relay[r].msg
        OBVIOUS
    <2>2. PICK n : n = relay[r].token
        OBVIOUS
    <2>3. PICK y \in OutboxRow :
              /\ outbox' = [outbox EXCEPT ![k] = y]
              /\ \/ relay[r].answer = "accepted" /\ y.status = "published" /\ y.digest = n
                 \/ y.status # "published"
        <3>0. k \in Messages /\ n \in Nat /\ outbox[k] \in OutboxRow
            BY <1>0, <1>5, <2>1, <2>2
               DEF MarkPublished, FailOutbound, HoldsOutbox, TransportShape, TransportTypeOK,
                   RelayState
        <3>1. CASE MarkPublished(r)
            <4> DEFINE y == [outbox[k] EXCEPT !.status = "published", !.token = 0, !.digest = n]
            <4>1. y \in OutboxRow /\ y.status = "published" /\ y.digest = n
                BY <3>0 DEF OutboxRow
            <4> QED BY <3>0, <3>1, <4>1, <2>1, <2>2 DEF MarkPublished
        <3>2. CASE FailOutbound(r)
            BY <3>0, <3>2, <2>1, ReleasedRow, TransportLimits DEF FailOutbound
        <3> QED BY <1>5, <3>1, <3>2
    <2>4. /\ k \in Messages /\ outbox[k].status # "published"
          /\ relay' = [relay EXCEPT ![r] = IdleRelay]
          /\ UNCHANGED <<inbox, wire, consumer>>
        BY <1>0, <1>5, <2>1
           DEF MarkPublished, FailOutbound, HoldsOutbox, TransportShape, TransportTypeOK,
               RelayState
    <2>5. TransportShape'
        BY <1>0, <2>3, <2>4 DEF TransportShape, TransportTypeOK, RelayState, IdleRelay
    <2>6. AnswersStay
        BY <1>0, <2>4 DEF AnswersStay, TransportShape, TransportTypeOK, IdleRelay
    <2>7. PublishedWasReceived'
        BY <1>0, <2>1, <2>2, <2>3, <2>4
           DEF PublishedWasReceived, ReceiptsAreTrue, TransportShape, TransportTypeOK
    <2> QED BY <1>0, <2>4, <2>5, <2>6, <2>7 DEF TransportInv, ReceiptsAreTrue, AnswersStay
<1> QED BY <1>1, <1>2, <1>3, <1>4, <1>5 DEF RelayStep

(* What is received is stored once: a known message id is answered with what *)
(* the inbox has.                                                            *)
LEMMA ReceiveKeeps ==
    ASSUME TransportInv, NEW e \in wire, Receive(e)
    PROVE  TransportInv'
<1>0. TransportShape /\ ReceiptsAreTrue /\ PublishedWasReceived /\ e \in Messages \X Nat
    BY DEF TransportInv, TransportShape
<1>1. PICK m \in Messages, d \in Nat : e = <<m, d>>
    BY <1>0
<1>2. PICK what \in {"accepted", "refused"} :
          /\ \/ UNCHANGED relay
             \/ \E r \in Relays :
                   /\ relay[r].msg = m /\ relay[r].token = d
                   /\ relay' = [relay EXCEPT ![r].answer = what]
          /\ what = "accepted" => inbox'[m].status # "absent" /\ inbox'[m].digest = d
          /\ \/ UNCHANGED inbox
             \/ /\ inbox[m].status = "absent"
                /\ inbox' = [inbox EXCEPT ![m] =
                                [NoRow EXCEPT !.status = "received", !.digest = d]]
    <2>1. CASE /\ inbox[m].status = "absent"
               /\ inbox' = [inbox EXCEPT ![m] =
                               [NoRow EXCEPT !.status = "received", !.digest = d]]
               /\ Answer(e, "accepted")
        BY <1>0, <1>1, <2>1 DEF Answer, NoRow, TransportShape, TransportTypeOK
    <2>2. CASE SameEnvelope(inbox[m], d) /\ Answer(e, "accepted") /\ UNCHANGED inbox
        BY <1>1, <2>2 DEF Answer, SameEnvelope
    <2>3. CASE Answer(e, "refused") /\ UNCHANGED inbox
        BY <1>1, <2>3 DEF Answer
    <2> QED BY <1>1, <2>1, <2>2, <2>3 DEF Receive
<1>3. UNCHANGED <<outbox, wire, consumer>>
    BY DEF Receive
<1>4. StoredStays
    BY <1>0, <1>2 DEF StoredStays, TransportShape, TransportTypeOK
<1>5. TransportShape'
    <2>1. inbox' \in [Messages -> InboxRow]
        <3>0. PICK y : y = [NoRow EXCEPT !.status = "received", !.digest = d]
            OBVIOUS
        <3>1. y \in [status : {"received"}, attempts : Nat, token : Nat, lapsed : BOOLEAN,
                     delayed : BOOLEAN, digest : {d}]
            BY <3>0 DEF NoRow
        <3>2. y \in InboxRow
            BY <3>1 DEF InboxRow
        <3>3. inbox' = inbox \/ inbox' = [inbox EXCEPT ![m] = y]
            BY <1>2, <3>0
        <3> QED BY <1>0, <3>2, <3>3 DEF TransportShape, TransportTypeOK
    <2>2. /\ relay' \in [Relays -> RelayState]
          /\ \A r \in Relays : relay'[r].answer # "none" => relay'[r].msg # NoMessage
        BY <1>0, <1>2, TransportLimits DEF TransportShape, TransportTypeOK, RelayState
    <2> QED BY <1>0, <1>3, <2>1, <2>2 DEF TransportShape, TransportTypeOK
<1>6. ReceiptsAreTrue'
    <2> SUFFICES ASSUME NEW r \in Relays, relay'[r].answer = "accepted"
                 PROVE  /\ inbox'[relay'[r].msg].status # "absent"
                        /\ inbox'[relay'[r].msg].digest = relay'[r].token
        BY DEF ReceiptsAreTrue
    <2>1. CASE relay'[r] = relay[r]
        BY <1>0, <1>4, <2>1
           DEF ReceiptsAreTrue, StoredStays, TransportShape, TransportTypeOK, RelayState
    <2>2. CASE relay'[r] # relay[r]
        BY <1>0, <1>2, <2>2 DEF TransportShape, TransportTypeOK, RelayState
    <2> QED BY <2>1, <2>2
<1>7. PublishedWasReceived'
    BY <1>0, <1>3, <1>4 DEF PublishedWasReceived, StoredStays
<1> QED BY <1>5, <1>6, <1>7 DEF TransportInv

(* Steps that leave relays and outbox alone and keep what is stored.         *)
LEMMA InboxKeeps ==
    ASSUME TransportInv, TransportShape', StoredStays, UNCHANGED <<relay>>,
           UNCHANGED <<outbox>>
    PROVE  TransportInv'
BY DEF TransportInv, ReceiptsAreTrue, PublishedWasReceived, StoredStays, TransportShape,
       TransportTypeOK, RelayState

LEMMA ConsumerKeeps ==
    ASSUME TransportInv, ConsumerStep \/ \E c \in Consumers : ConsumerCrash(c)
    PROVE  TransportInv'
<1>0. TransportShape
    BY DEF TransportInv
<1>1. ASSUME NEW c \in Consumers, NEW m \in Messages, ClaimInbound(c, m) PROVE TransportInv'
    <2> DEFINE rows == RecoverInbox
    <2>1. /\ rows \in [Messages -> InboxRow]
          /\ \A k \in Messages : inbox[k].status # "absent" =>
                rows[k].status # "absent" /\ rows[k].digest = inbox[k].digest
        BY <1>0, RecoveredInbox
    <2>2. /\ inbox' = [rows EXCEPT ![m] = Claimed(rows[m])]
          /\ consumer' = [consumer EXCEPT ![c] = [msg |-> m, token |-> rows[m].attempts + 1]]
          /\ UNCHANGED <<outbox, wire, relay>>
        BY <1>1 DEF ClaimInbound
    <2> HIDE DEF rows
    <2>3. /\ Claimed(rows[m]) \in InboxRow /\ Claimed(rows[m]).status = "claimed"
          /\ Claimed(rows[m]).digest = rows[m].digest
        BY <2>1, ClaimedInboxRow
    <2>4. TransportShape'
        BY <1>0, <2>1, <2>2, <2>3 DEF TransportShape, TransportTypeOK, InboxRow
    <2>5. StoredStays
        BY <1>0, <2>1, <2>2, <2>3 DEF StoredStays, TransportShape, TransportTypeOK
    <2> QED BY <2>2, <2>4, <2>5, InboxKeeps
<1>2. CASE ClaimNoInbound
    <2>1. inbox' = RecoverInbox /\ UNCHANGED <<outbox, wire, relay, consumer>>
        BY <1>2 DEF ClaimNoInbound
    <2>2. TransportShape'
        BY <1>0, <2>1, RecoveredInbox DEF TransportShape, TransportTypeOK
    <2>3. StoredStays
        BY <1>0, <2>1, RecoveredInbox DEF StoredStays
    <2> QED BY <2>1, <2>2, <2>3, InboxKeeps
<1>3. ASSUME NEW c \in Consumers, HeartbeatInbound(c) \/ ConsumerCrash(c) PROVE TransportInv'
    <2>1. consumer' = [consumer EXCEPT ![c] = IdleConsumer]
          /\ UNCHANGED <<outbox, inbox, wire, relay>>
        BY <1>3 DEF HeartbeatInbound, ConsumerCrash
    <2>2. TransportShape' /\ StoredStays
        BY <1>0, <2>1 DEF TransportShape, TransportTypeOK, StoredStays, IdleConsumer
    <2> QED BY <2>1, <2>2, InboxKeeps
<1>4. ASSUME NEW c \in Consumers, CompleteInbound(c) \/ FailInbound(c) PROVE TransportInv'
    <2>1. PICK k : k = consumer[c].msg
        OBVIOUS
    <2>2. k \in Messages /\ inbox[k] \in InboxRow
        BY <1>0, <1>4, <2>1
           DEF CompleteInbound, FailInbound, HoldsInbox, TransportShape, TransportTypeOK
    <2>3. PICK y \in InboxRow : /\ inbox' = [inbox EXCEPT ![k] = y]
                                /\ y.status # "absent" /\ y.digest = inbox[k].digest
        <3>1. CASE CompleteInbound(c)
            <4> DEFINE y == [inbox[k] EXCEPT !.status = "processed", !.token = 0]
            <4>1. y \in InboxRow /\ y.status = "processed" /\ y.digest = inbox[k].digest
                BY <2>2 DEF InboxRow
            <4>2. inbox' = [inbox EXCEPT ![k] = y]
                BY <1>0, <2>1, <2>2, <3>1 DEF CompleteInbound, TransportShape, TransportTypeOK,
                   InboxRow
            <4> QED BY <4>1, <4>2
        <3>2. CASE FailInbound(c)
            BY <2>1, <2>2, <3>2, ReleasedInboxRow, TransportLimits DEF FailInbound
        <3> QED BY <1>4, <3>1, <3>2
    <2>4. /\ consumer' = [consumer EXCEPT ![c] = IdleConsumer]
          /\ UNCHANGED <<outbox, wire, relay>>
        BY <1>4 DEF CompleteInbound, FailInbound
    <2>5. TransportShape' /\ StoredStays
        BY <1>0, <2>2, <2>3, <2>4 DEF TransportShape, TransportTypeOK, StoredStays, IdleConsumer
    <2> QED BY <2>4, <2>5, InboxKeeps
<1> QED BY <1>1, <1>2, <1>3, <1>4 DEF ConsumerStep

(* The rest: a new event, a lost envelope, and time.                         *)
LEMMA OthersKeep ==
    ASSUME TransportInv,
           \/ \E m \in Messages : PersistEvent(m)
           \/ \E e \in wire : LoseEnvelope(e)
           \/ TimeStep
    PROVE  TransportInv'
<1>0. TransportShape /\ ReceiptsAreTrue /\ PublishedWasReceived
    BY DEF TransportInv
<1>1. ASSUME NEW e \in wire, LoseEnvelope(e) PROVE TransportInv'
    <2>1. TransportShape' /\ StoredStays
        BY <1>0, <1>1 DEF LoseEnvelope, TransportShape, TransportTypeOK, StoredStays
    <2> QED BY <1>1, <2>1, InboxKeeps DEF LoseEnvelope
<1>2. ASSUME NEW m \in Messages,
             PersistEvent(m) \/ LapseOutbox(m)
                \/ (outbox' = [outbox EXCEPT ![m].delayed = FALSE]
                    /\ UNCHANGED <<inbox, wire, relay, consumer>>)
      PROVE TransportInv'
    <2>1. PICK y \in OutboxRow : /\ outbox' = [outbox EXCEPT ![m] = y]
                                 /\ y.digest = outbox[m].digest
                                 /\ y.status = "published" => outbox[m].status = "published"
        <3>0. outbox[m] \in OutboxRow
            BY <1>0 DEF TransportShape, TransportTypeOK
        <3>1. CASE PersistEvent(m)
            <4> DEFINE y == [outbox[m] EXCEPT !.status = "pending"]
            <4>1. y \in OutboxRow /\ outbox' = [outbox EXCEPT ![m] = y]
                BY <3>0, <3>1 DEF PersistEvent, OutboxRow
            <4> QED BY <4>1, <3>1 DEF PersistEvent, OutboxRow
        <3>2. CASE LapseOutbox(m)
            <4> DEFINE y == [outbox[m] EXCEPT !.lapsed = TRUE]
            <4>1. y \in OutboxRow /\ outbox' = [outbox EXCEPT ![m] = y]
                BY <3>0, <3>2 DEF LapseOutbox, OutboxRow
            <4> QED BY <4>1, <3>2 DEF LapseOutbox, OutboxRow
        <3>3. CASE outbox' = [outbox EXCEPT ![m].delayed = FALSE]
            <4> DEFINE y == [outbox[m] EXCEPT !.delayed = FALSE]
            <4>1. y \in OutboxRow /\ outbox' = [outbox EXCEPT ![m] = y]
                BY <3>0, <3>3 DEF OutboxRow
            <4> QED BY <4>1, <3>3 DEF OutboxRow
        <3> QED BY <1>2, <3>1, <3>2, <3>3
    <2>2. UNCHANGED <<inbox, wire, relay, consumer>>
        BY <1>2 DEF PersistEvent, LapseOutbox
    <2>3. TransportShape'
        BY <1>0, <2>1, <2>2 DEF TransportShape, TransportTypeOK
    <2>4. PublishedWasReceived'
        BY <1>0, <2>1, <2>2 DEF PublishedWasReceived, TransportShape, TransportTypeOK
    <2> QED BY <1>0, <2>2, <2>3, <2>4 DEF TransportInv, ReceiptsAreTrue
<1>3. ASSUME NEW m \in Messages,
             LapseInbox(m) \/ (inbox' = [inbox EXCEPT ![m].delayed = FALSE]
                                 /\ UNCHANGED <<outbox, wire, relay, consumer>>)
      PROVE TransportInv'
    <2>1. PICK y \in InboxRow : /\ inbox' = [inbox EXCEPT ![m] = y]
                                /\ y.digest = inbox[m].digest /\ y.status = inbox[m].status
        <3>0. inbox[m] \in InboxRow
            BY <1>0 DEF TransportShape, TransportTypeOK
        <3>1. CASE LapseInbox(m)
            <4> DEFINE y == [inbox[m] EXCEPT !.lapsed = TRUE]
            <4>1. y \in InboxRow /\ inbox' = [inbox EXCEPT ![m] = y]
                BY <3>0, <3>1 DEF LapseInbox, InboxRow
            <4> QED BY <4>1, <3>1 DEF LapseInbox, InboxRow
        <3>2. CASE inbox' = [inbox EXCEPT ![m].delayed = FALSE]
            <4> DEFINE y == [inbox[m] EXCEPT !.delayed = FALSE]
            <4>1. y \in InboxRow /\ inbox' = [inbox EXCEPT ![m] = y]
                BY <3>0, <3>2 DEF InboxRow
            <4> QED BY <4>1, <3>2 DEF InboxRow
        <3> QED BY <1>3, <3>1, <3>2
    <2>2. UNCHANGED <<outbox, wire, relay, consumer>>
        BY <1>3 DEF LapseInbox
    <2>3. TransportShape' /\ StoredStays
        BY <1>0, <2>1, <2>2 DEF TransportShape, TransportTypeOK, StoredStays
    <2> QED BY <2>2, <2>3, InboxKeeps
<1> QED BY <1>1, <1>2, <1>3 DEF TimeStep, DelayPasses

(* What mark_published records was received: for any number of relays that   *)
(* take over each other's messages, envelopes that are lost, repeated or     *)
(* late, and receipts that do not come back, a published message is in the   *)
(* recipient's inbox with the envelope the outbox names.                     *)
THEOREM PublishedMessagesArrived == TransportSpec => [](TransportTypeOK /\ PublishedWasReceived)
<1>1. ASSUME TransportInv, [TransportNext]_transportVars PROVE TransportInv'
    <2>1. CASE UNCHANGED transportVars
        BY <1>1, <2>1
           DEF transportVars, TransportInv, TransportShape, TransportTypeOK, ReceiptsAreTrue,
               PublishedWasReceived
    <2> QED BY <1>1, <2>1, RelayKeeps, ReceiveKeeps, ConsumerKeeps, OthersKeep
        DEF TransportNext
<1>2. TransportInv => TransportTypeOK /\ PublishedWasReceived
    BY DEF TransportInv, TransportShape
<1> QED BY <1>1, <1>2, TransportInitially, PTL DEF TransportSpec
=============================================================================
