------------------------ MODULE ProjectProcessProofs ------------------------
(***************************************************************************)
(* What is delivered is verified, for any number of workers, tasks,        *)
(* approvers, events and faults.  The argument: a task that carries the    *)
(* PASS of a verification keeps its run's receipt and verdict for as long  *)
(* as it does (Backed), so the evidence the effects look at in their own   *)
(* transaction is the latest run's; and from INTEGRATION on no step but    *)
(* the ones that go back to EXECUTION changes a verified task.             *)
(*                                                                         *)
(* No wake-up is completed too early.  The argument: a decision recorded   *)
(* on a snapshot is what would be decided now as long as no event came     *)
(* after the snapshot, and whatever is found stale or takes effect is      *)
(* followed by an event of its own (PInv), so the wake-up of the last      *)
(* event is completed only on a decision to wait that still stands.        *)
(***************************************************************************)
EXTENDS ProjectProcess, SequenceTheorems, WellFoundedInduction, TLAPS

ProcType == [phase : Phases, status : Statuses,
             wait : {"NONE", "HUMAN_INPUT", "HUMAN_APPROVAL"}, version : Nat]
TaskType == [status : {"accepted", "in_progress", "submitted", "changes_requested",
                       "verified"},
             why : {"none", "run", "PASS", "FAIL", "output", "integration", "delivery"}]
RunType == [attempt : Nat, state : {"none", "active", "completed", "failed"},
            settled : BOOLEAN, receipt : {"none", "submitted", "refused"},
            ver : {"none", "PASS", "FAIL", "STALE"}]

Passed(t) == task[t] = [status |-> "verified", why |-> "PASS"]
Backed(t) == run[t].receipt = "submitted" /\ run[t].ver = "PASS"
Late == proc.phase \in {"INTEGRATION", "DELIVERY", "TERMINAL"}

IInv ==
    /\ proc \in ProcType
    /\ task \in [Tasks -> TaskType]
    /\ run \in [Tasks -> RunType]
    /\ \A t \in Tasks : Passed(t) => Backed(t)
    /\ Late => \A t \in Tasks : Passed(t)
    /\ ProcessTerminal => proc.status = "COMPLETED"

(* The initial state: every task is accepted and has no run. *)
LEMMA Initially == ProcessInit => IInv
BY DEF ProcessInit, IInv, ProcType, TaskType, RunType, Phases, Statuses, NoRun, Passed, Backed,
       Late, ProcessTerminal

(* A transition leads into the late phases only from VERIFICATION, on the   *)
(* key verification.passed, and from one of them to the next; none starts   *)
(* in TERMINAL.                                                             *)
LEMMA Transitions ==
    ASSUME proc \in ProcType, NEW key, Transition(key)
    PROVE /\ proc' \in ProcType
          /\ ~ProcessTerminal
          /\ ProcessTerminal' => proc'.status = "COMPLETED"
          /\ Late' => Late \/ key = "verification.passed"
          /\ key \in {"integration.failed", "delivery.rejected", "verification.failed",
                      "work.dispatched", "all_required_work_submitted"} => ~Late'
<1>1. PICK m \in Matrix :
         /\ m.key = key /\ m.from = proc.phase
         /\ proc' = [proc EXCEPT !.phase = m.to, !.status = m.next, !.version = @ + 1]
    BY DEF Transition
<1>2. /\ m.to \in Phases /\ m.next \in Statuses /\ m.from # "TERMINAL"
      /\ m.to = "TERMINAL" => m.next = "COMPLETED"
      /\ m.to \in {"INTEGRATION", "DELIVERY", "TERMINAL"} =>
            m.from \in {"INTEGRATION", "DELIVERY"} \/ m.key = "verification.passed"
      /\ m.key \in {"integration.failed", "delivery.rejected", "verification.failed",
                    "work.dispatched", "all_required_work_submitted"} =>
            m.to \in {"EXECUTION", "VERIFICATION"}
    BY DEF Matrix, Phases, Statuses
<1>3. /\ proc'.phase = m.to /\ proc'.status = m.next
      /\ proc' \in ProcType
    <2>1. proc.version + 1 \in Nat
        BY DEF ProcType
    <2>2. proc' = [phase |-> m.to, status |-> m.next, wait |-> proc.wait,
                   version |-> proc.version + 1]
        BY <1>1 DEF ProcType
    <2> QED BY <1>2, <2>1, <2>2 DEF ProcType
<1> QED BY <1>1, <1>2, <1>3 DEF Late, ProcessTerminal

(* Evidence PASS for every task is what PASSED means. *)
LEMMA PassedOutcome ==
    ASSUME VerificationOutcome = "PASSED", task \in [Tasks -> TaskType]
    PROVE \A t \in Tasks : Passed(t)
BY DEF VerificationOutcome, Evidence, Passed, TaskType

(* Every step keeps the invariant, one action after the other. *)
LEMMA Inductive == IInv /\ [ProcessNext]_processVars => IInv'
<1> SUFFICES ASSUME IInv, [ProcessNext]_processVars PROVE IInv'
    OBVIOUS
<1> USE DEF IInv
<1>0. ASSUME UNCHANGED <<proc, task, run>> PROVE IInv'
    BY <1>0 DEF Passed, Backed, Late, ProcessTerminal
<1>1. ASSUME NEW w \in Runners, RunnerStep(w) PROVE IInv'
    <2>1. ASSUME NEW t \in Tasks, Dispatch(w, t) PROVE IInv'
        <3>1. proc.phase = "EXECUTION" /\ proc' \in ProcType /\ ~Late' /\ ~ProcessTerminal'
            BY <2>1, Transitions DEF Dispatch, Late, ProcessTerminal
        <3>2. /\ task' = [task EXCEPT ![t] = [status |-> "in_progress", why |-> "none"]]
              /\ run' = [run EXCEPT ![t] = [NoRun EXCEPT !.attempt = run[t].attempt + 1,
                                            !.state = "active", !.settled = FALSE]]
            BY <2>1 DEF Dispatch
        <3>3. task' \in [Tasks -> TaskType]
            BY <3>2 DEF TaskType
        <3>4. run' \in [Tasks -> RunType]
            <4>1. run[t].attempt + 1 \in Nat
                BY DEF RunType
            <4>2. [NoRun EXCEPT !.attempt = run[t].attempt + 1, !.state = "active",
                                !.settled = FALSE] \in RunType
                BY <4>1 DEF RunType, NoRun
            <4> QED BY <3>2, <4>2
        <3>5. \A u \in Tasks : Passed(u)' => Backed(u)'
            BY <3>2 DEF Passed, Backed, TaskType
        <3> QED BY <3>1, <3>3, <3>4, <3>5
    <2>2. ASSUME EnterIntegration(w) PROVE IInv'
        <3>1. /\ Transition("verification.passed") /\ UNCHANGED <<task, run>>
              /\ \A t \in Tasks : Passed(t)
            BY <2>2, PassedOutcome DEF EnterIntegration
        <3> QED BY <3>1, Transitions DEF Passed, Backed
    <2>3. ASSUME ReopenWork(w) PROVE IInv'
        <3>1. Transition("verification.failed") /\ UNCHANGED <<task, run>>
            BY <2>3 DEF ReopenWork
        <3> QED BY <3>1, Transitions DEF Passed, Backed
    <2>4. ASSUME NEW impacted \in SUBSET Tasks, Assemble(w, impacted) PROVE IInv'
        <3>1. UNCHANGED run /\ \A t \in Tasks : Passed(t)
            BY <2>4, PassedOutcome DEF Assemble
        <3>2. CASE impacted = {}
            <4>1. Transition("integration.passed") /\ task' = [t \in Tasks |-> task[t]]
                BY <2>4, <3>2 DEF Assemble
            <4>2. task' = task
                BY <4>1
            <4> QED BY <3>1, <4>1, <4>2, Transitions DEF Passed, Backed
        <3>3. CASE impacted # {}
            <4>1. Transition("integration.failed")
                BY <2>4, <3>3 DEF Assemble
            <4>2. task' = [t \in Tasks |->
                            IF t \in impacted
                            THEN [status |-> "changes_requested", why |-> "integration"]
                            ELSE task[t]]
                BY <2>4 DEF Assemble
            <4>3. task' \in [Tasks -> TaskType]
                BY <4>2 DEF TaskType
            <4>4. \A t \in Tasks : Backed(t)'
                BY <3>1 DEF Backed
            <4> QED BY <3>1, <4>1, <4>3, <4>4, Transitions
        <3> QED BY <3>2, <3>3
    <2>5. ASSUME Publish(w) PROVE IInv'
        <3>1. PICK key \in {"work.dispatched", "all_required_work_submitted"} :
                 Transition(key) /\ UNCHANGED <<task, run>>
            BY <2>5 DEF Publish
        <3> QED BY <3>1, Transitions DEF Passed, Backed
    <2>6. CASE UNCHANGED <<proc, task, run>>
        BY <2>6, <1>0
    <2> QED
        BY <1>1, <2>1, <2>2, <2>3, <2>4, <2>5, <2>6
           DEF RunnerStep, ClaimWakeUp, Snapshot, Reload, Record, Invalidate, ApplyNothing, ReadCurrent,
               FinishDecision, EmitStale, Complete, RetryWakeUp, RunnerVanishes
<1>2. ASSUME NEW n \in DOMAIN ev, Lapse(n) PROVE IInv'
    BY <1>2, <1>0 DEF Lapse
<1>3. ASSUME NEW t \in Tasks, Callback(t) PROVE IInv'
    <2>1. ASSUME NEW outcome \in {"completed", "failed"}, RunEnds(t, outcome) PROVE IInv'
        <3>1. UNCHANGED <<proc, task>> /\ run' = [run EXCEPT ![t].state = outcome]
            BY <2>1 DEF RunEnds
        <3>2. run' \in [Tasks -> RunType] /\ \A u \in Tasks : Backed(u) => Backed(u)'
            BY <3>1 DEF RunType, Backed
        <3> QED BY <3>1, <3>2 DEF Passed, Late, ProcessTerminal
    <2>2. ASSUME Settle(t) PROVE IInv'
        <3>1. UNCHANGED <<proc, task>> /\ run' = [run EXCEPT ![t].settled = TRUE]
            BY <2>2 DEF Settle
        <3>2. run' \in [Tasks -> RunType] /\ \A u \in Tasks : Backed(u) => Backed(u)'
            BY <3>1, ZenonT(30) DEF RunType, Backed
        <3> QED BY <3>1, <3>2 DEF Passed, Late, ProcessTerminal
    <2>3. ASSUME NEW valid \in BOOLEAN, Project(t, valid) PROVE IInv'
        <3>1. run[t].receipt = "none" /\ UNCHANGED proc
            BY <2>3 DEF Project
        <3>2. PICK r \in {"submitted", "refused"} : run' = [run EXCEPT ![t].receipt = r]
            BY <2>3 DEF Project
        <3>3. run' \in [Tasks -> RunType] /\ \A u \in Tasks : Backed(u) => Backed(u)'
            BY <3>1, <3>2 DEF RunType, Backed
        <3>4. ~Passed(t) /\ ~Late
            BY <3>1 DEF Backed
        <3>5. task' = task \/ \E x \in {[status |-> "submitted", why |-> "run"],
                                        [status |-> "changes_requested", why |-> "output"]} :
                                 task' = [task EXCEPT ![t] = x]
            BY <2>3 DEF Project
        <3>6. task' \in [Tasks -> TaskType] /\ \A u \in Tasks : Passed(u)' => Passed(u)
            BY <3>5 DEF Passed, TaskType
        <3> QED BY <3>1, <3>3, <3>4, <3>6 DEF Late, ProcessTerminal
    <2>4. ASSUME NEW outcome \in {"PASS", "FAIL"}, Verify(t, outcome) PROVE IInv'
        <3>1. run[t].receipt = "submitted" /\ run[t].ver = "none" /\ UNCHANGED proc
            BY <2>4 DEF Verify
        <3>2. ~Passed(t) /\ ~Late
            BY <3>1 DEF Backed
        <3>3. CASE task' = task
            <4>1. PICK v \in {"PASS", "FAIL", "STALE"} : run' = [run EXCEPT ![t].ver = v]
                BY <2>4 DEF Verify
            <4>2. run' \in [Tasks -> RunType] /\ \A u \in Tasks : Backed(u) => Backed(u)'
                BY <3>1, <4>1 DEF RunType, Backed
            <4> QED BY <3>1, <3>2, <3>3, <4>2 DEF Passed, Late, ProcessTerminal
        <3>4. CASE task' # task
            <4>1. /\ run' = [run EXCEPT ![t].ver = outcome]
                  /\ task' = [task EXCEPT ![t] =
                        [status |-> IF outcome = "PASS" THEN "verified" ELSE "changes_requested",
                         why |-> outcome]]
                BY <2>4, <3>4 DEF Verify
            <4>2. run' \in [Tasks -> RunType] /\ task' \in [Tasks -> TaskType]
                BY <4>1 DEF RunType, TaskType
            <4>3. \A u \in Tasks : Passed(u)' => Backed(u)'
                BY <3>1, <4>1 DEF Passed, Backed, TaskType, RunType
            <4> QED BY <3>1, <3>2, <4>2, <4>3 DEF Late, ProcessTerminal
        <3> QED BY <3>3, <3>4
    <2> QED BY <1>3, <2>1, <2>2, <2>3, <2>4 DEF Callback
<1>4. ASSUME People PROVE IInv'
    <2>1. ASSUME NEW t \in Tasks, StartTask(t) \/ SubmitTask(t) \/ RequestChanges(t) PROVE IInv'
        <3>1. UNCHANGED <<proc, run>> /\ task[t].status # "verified"
            BY <2>1 DEF StartTask, SubmitTask, RequestChanges, ByHand
        <3>2. PICK s \in {"in_progress", "submitted", "changes_requested"} :
                 task' = [task EXCEPT ![t] = [status |-> s, why |-> "none"]]
            BY <2>1 DEF StartTask, SubmitTask, RequestChanges, ByHand
        <3>3. ~Passed(t) /\ ~Late
            BY <3>1 DEF Passed
        <3>4. task' \in [Tasks -> TaskType] /\ \A u \in Tasks : Passed(u)' => Passed(u)
            BY <3>2 DEF Passed, TaskType
        <3> QED BY <3>1, <3>3, <3>4 DEF Backed, Late, ProcessTerminal
    <2>2. ASSUME NEW c \in Controls, Open(c) PROVE IInv'
        <3>1. ~ProcessTerminal /\ proc' = HumanWait(c) /\ UNCHANGED <<task, run>>
            BY <2>2 DEF Open
        <3>2. proc' \in ProcType /\ proc'.phase = proc.phase
            <4>1. WaitOf(c) \in {"HUMAN_INPUT", "HUMAN_APPROVAL"}
                BY DEF WaitOf
            <4>2. "WAITING" \in Statuses
                BY DEF Statuses
            <4>3. proc.version + 1 \in Nat
                BY DEF ProcType
            <4>4. \/ proc' = proc
                  \/ proc' = [phase |-> proc.phase, status |-> "WAITING", wait |-> WaitOf(c),
                              version |-> proc.version + 1]
                BY <3>1 DEF HumanWait, ProcType
            <4> QED BY <4>1, <4>2, <4>3, <4>4 DEF ProcType
        <3> QED BY <3>1, <3>2 DEF Passed, Backed, Late, ProcessTerminal
    <2>3. ASSUME NEW c \in Controls, Resolve(c) PROVE IInv'
        BY <2>3, <1>0 DEF Resolve
    <2>4. ASSUME NEW p \in Approvers, Accept(p) PROVE IInv'
        <3>1. UNCHANGED <<task, run>> /\ (UNCHANGED proc \/ Transition("delivery.accepted"))
            BY <2>4 DEF Accept
        <3> QED BY <3>1, <1>0, Transitions DEF Passed, Backed
    <2>5. ASSUME NEW p \in Approvers, Reject(p) PROVE IInv'
        <3>1. /\ UNCHANGED run /\ Transition("delivery.rejected")
              /\ task' = [t \in Tasks |->
                            IF task[t].status = "verified"
                            THEN [status |-> "changes_requested", why |-> "delivery"]
                            ELSE task[t]]
            BY <2>5 DEF Reject
        <3>2. task' \in [Tasks -> TaskType] /\ \A u \in Tasks : Passed(u)' => Passed(u)
            BY <3>1 DEF Passed, TaskType
        <3> QED BY <3>1, <3>2, Transitions DEF Backed
    <2> QED BY <1>4, <2>1, <2>2, <2>3, <2>4, <2>5 DEF People
<1>5. CASE UNCHANGED processVars
    BY <1>5, <1>0 DEF processVars
<1> QED BY <1>1, <1>2, <1>3, <1>4, <1>5 DEF ProcessNext

LEMMA Invariant == ProcessSpec => []IInv
BY Initially, Inductive, PTL DEF ProcessSpec

(* Nothing reaches integration, delivery or completion without the PASS of  *)
(* the latest run of every task.                                            *)
THEOREM OnlyVerifiedIsDelivered == ProcessSpec => []DeliveredIsVerified
<1>1. IInv => DeliveredIsVerified
    BY DEF IInv, DeliveredIsVerified, Late, Passed, Backed
<1> QED BY <1>1, Invariant, PTL

(* A completed project never changes again: no transition leaves TERMINAL,  *)
(* and every task has its verdict, so no callback finds it current.         *)
THEOREM CompletionIsFinal == ProcessSpec => CompletedStays
<1>1. ASSUME IInv, [ProcessNext]_processVars
      PROVE  [ProcessTerminal => UNCHANGED <<proc, task, accepted>>]_processVars
    <2> SUFFICES ASSUME ProcessNext, ProcessTerminal PROVE UNCHANGED <<proc, task, accepted>>
        BY <1>1
    <2>0. /\ \A key : ~Transition(key)
          /\ proc.phase = "TERMINAL"
          /\ \A t \in Tasks : Passed(t) /\ Backed(t)
        BY <1>1, Transitions DEF IInv, Late, ProcessTerminal
    <2>1. ASSUME NEW w \in Runners, RunnerStep(w) PROVE UNCHANGED <<proc, task, accepted>>
        BY <2>0, <2>1
           DEF RunnerStep, ClaimWakeUp, Snapshot, Reload, Record, Invalidate, ApplyNothing, Dispatch,
               EnterIntegration, ReopenWork, Assemble, ReadCurrent, Publish, FinishDecision,
               EmitStale, Complete, RetryWakeUp, RunnerVanishes
    <2>2. ASSUME NEW n \in DOMAIN ev, Lapse(n) PROVE UNCHANGED <<proc, task, accepted>>
        BY <2>2 DEF Lapse
    <2>3. ASSUME NEW t \in Tasks, Callback(t) PROVE UNCHANGED <<proc, task, accepted>>
        BY <2>0, <2>3 DEF Callback, RunEnds, Settle, Project, Verify, Backed
    <2>4. ASSUME People PROVE UNCHANGED <<proc, task, accepted>>
        BY <2>0, <2>4
           DEF People, StartTask, SubmitTask, RequestChanges, ByHand, Open, Resolve, Accept,
               Reject, AwaitsAcceptance, Passed, ProcessTerminal
    <2> QED BY <2>1, <2>2, <2>3, <2>4 DEF ProcessNext
<1> QED BY <1>1, Invariant, PTL DEF CompletedStays, ProcessSpec

-----------------------------------------------------------------------------
(* Well-ordering and sequences *)

(* The lowest task of a set of tasks is one of them. *)
LEMMA FirstIsMember ==
    ASSUME NEW S, S \subseteq Nat, S # {}
    PROVE First(S) \in S
<1> DEFINE R == {ss \in Nat \X Nat : ss[1] < ss[2]}
<1>0. IsWellFoundedOn(R, Nat)
    BY NatLessThanWellFounded DEF OpToRel
<1>1. \E x \in S : \A y \in S : ~ (<<y, x>> \in R)
    BY <1>0, WFMin
<1>2. \A x \in S, y \in S : <<y, x>> \in R <=> y < x
    OBVIOUS
<1> HIDE DEF R
<1>3. PICK x \in S : \A y \in S : ~ (<<y, x>> \in R)
    BY <1>1
<1>4. ASSUME NEW y \in S PROVE x <= y
    <2>1. x \in Nat /\ y \in Nat
        OBVIOUS
    <2>2. ~(y < x)
        BY <1>2, <1>3
    <2> QED BY <2>1, <2>2
<1> QED BY <1>4, Zenon DEF First

Wakes == {"pending", "leased", "retry_wait", "completed", "failed"}
EvType == [wake : Wakes, attempt : Nat, lapsed : BOOLEAN,
           dec : {"none", "PENDING", "STALE", "APPLIED"},
           action : Actions, work : SUBSET Tasks, based : Nat,
           effect : BOOLEAN, stale : BOOLEAN]
WkType == [pc : {"idle", "claimed", "record", "recheck", "apply", "publish",
                 "finish", "stale", "complete"},
           n : Nat, token : Nat, action : Actions, work : SUBSET Tasks,
           based : Nat, version : Nat]

LEMMA NewEventType == NewEvent \in EvType
BY DEF NewEvent, EvType, Wakes, Actions

LEMMA IdleType == Idle \in WkType
BY DEF Idle, WkType, Actions

(* One row of the sequence is written. *)
LEMMA RowWritten ==
    ASSUME NEW e \in Seq(EvType), NEW n \in DOMAIN e, NEW y \in EvType
    PROVE /\ [e EXCEPT ![n] = y] \in Seq(EvType)
          /\ Len([e EXCEPT ![n] = y]) = Len(e)
          /\ \A m \in 1..Len(e) : [e EXCEPT ![n] = y][m] = IF m = n THEN y ELSE e[m]
<1>1. n \in 1..Len(e)
    BY LenProperties
<1> QED BY <1>1, ExceptSeq

(* An event is appended. *)
LEMMA EventAppended ==
    ASSUME NEW e \in Seq(EvType)
    PROVE /\ Emit(e) \in Seq(EvType)
          /\ Len(Emit(e)) = Len(e) + 1 /\ Len(e) \in Nat
          /\ \A m \in 1..Len(e) : Emit(e)[m] = e[m]
          /\ Emit(e)[Len(e) + 1] = NewEvent
BY NewEventType, AppendProperties, LenProperties DEF Emit

-----------------------------------------------------------------------------
(* Decisions *)

(* What the orchestrator decides is well formed, and work it dispatches is  *)
(* ready.                                                                   *)
LEMMA DecideType == Decide.action \in Actions /\ Decide.work \in SUBSET Tasks
<1>1. ReadyWork \subseteq Tasks /\ Tasks \subseteq Nat
    BY PolicyAssumption DEF ReadyWork
<1>2. ReadyWork # {} => First(ReadyWork) \in Tasks
    BY <1>1, FirstIsMember
<1> QED BY <1>2 DEF Decide, Choice, Actions, Atomic, Published

LEMMA DispatchedWorkIsReady ==
    ASSUME Decide.action = "DISPATCH_WORK"
    PROVE \E t \in ReadyWork : Decide.work = {t}
<1>1. ReadyWork \subseteq Tasks /\ Tasks \subseteq Nat
    BY PolicyAssumption DEF ReadyWork
<1>2. ReadyWork # {} /\ Decide.work = {First(ReadyWork)}
    BY DEF Decide, Choice
<1> QED BY <1>1, <1>2, FirstIsMember

(* The decision looks at the process, the tasks, the controls, the usage    *)
(* and the operations in flight, and at nothing else.                       *)
LEMMA DecideDepends ==
    ASSUME UNCHANGED <<proc, task, started, ctl>>, ActiveOperations' = ActiveOperations
    PROVE Decide' = Decide
<1>1. VerificationOutcome' = VerificationOutcome
    BY DEF VerificationOutcome, Evidence
<1>2. ReadyWork' = ReadyWork
    BY DEF ReadyWork, Dispatchable, PrerequisitesVerified, BudgetLeft
<1>3. VerificationReady' = VerificationReady
    BY DEF VerificationReady
<1>4. OpenControl' = OpenControl /\ ProcessTerminal' = ProcessTerminal
    BY DEF OpenControl, ProcessTerminal
<1> QED BY <1>1, <1>2, <1>3, <1>4 DEF Decide

LEMMA DecideStays ==
    ASSUME UNCHANGED <<proc, task, run, started, ctl>>
    PROVE Decide' = Decide
<1>1. ActiveOperations' = ActiveOperations
    BY DEF ActiveOperations
<1> QED BY <1>1, DecideDepends

-----------------------------------------------------------------------------
(* Wake-ups, decisions and workers *)

Live(x) == x.wake \notin {"completed", "failed"}

Agrees(x, d) == x.action = d.action /\ x.work = d.work

(* The decision in the n-th of len rows, d being what would be decided now: *)
(* it was made on a snapshot that held the event; an effect, or a decision  *)
(* found stale, is followed by another event; applied means its effect is   *)
(* there or it had none to bring; and as long as no event came since its    *)
(* snapshot it is what would be decided now.                                *)
RowOK(n, x, len, d) ==
    /\ x.dec # "none" => n <= x.based /\ x.based <= len
    /\ x.dec = "STALE" => n < len
    /\ x.effect => n < len
    /\ x.dec = "APPLIED" => x.effect \/ x.action = "WAIT"
    /\ x.dec \in {"PENDING", "APPLIED"} /\ x.based = len => Agrees(x, d)

(* How far the wake-up of a worker has got, unless somebody ended it.       *)
Progress(pc, x) ==
    Live(x) =>
        /\ pc \in {"recheck", "apply", "publish", "finish"} => x.dec # "none"
        /\ pc = "finish" => x.effect \/ x.action = "WAIT"
        /\ pc = "stale" => x.dec = "STALE"
        /\ pc = "complete" => x.dec \in {"APPLIED", "STALE"}

WorkerOK(k, e, d) ==
    /\ k.pc # "idle" => k.n \in 1..Len(e) /\ Progress(k.pc, e[k.n])
    /\ k.pc = "record" =>
          /\ k.n <= k.based /\ k.based <= Len(e)
          /\ k.based = Len(e) => Agrees(k, d)

(* The evidence of a task: a change the system made has its receipt, only   *)
(* the verification verifies, and a task nobody ran is as the plan left it. *)
TaskOK(t) ==
    /\ task[t].why # "none" => run[t].receipt # "none"
    /\ task[t].status = "verified" => task[t].why = "PASS"
    /\ task[t].status = "accepted" => run[t].attempt = 0
    /\ run[t].state = "none" => run[t].attempt = 0

Types ==
    /\ proc.status = "WAITING" <=> proc.wait # "NONE"
    /\ proc.status = "COMPLETED" <=> proc.phase = "TERMINAL"
    /\ started \in Nat /\ faults \in Nat /\ moves \in Nat
    /\ ctl \in [Controls -> {"none", "OPEN", "resolved"}]
    /\ accepted \subseteq Approvers
    /\ ev \in Seq(EvType) /\ Len(ev) > 0
    /\ runners \in [Runners -> WkType]

PInv ==
    /\ Types
    /\ \A n \in 1..Len(ev) : RowOK(n, ev[n], Len(ev), Decide)
    /\ \A w \in Runners : WorkerOK(runners[w], ev, Decide)
    /\ \A t \in Tasks : TaskOK(t)
    /\ ev[Len(ev)].wake = "completed" => Decide.action = "WAIT"

(* The ways a step changes the n-th row from x to y when the sequence grows *)
(* or not.                                                                  *)
RowMoves(n, x, y, grows) ==
    \/ y = x
    \/ /\ Live(x) /\ Live(y) /\ y.dec = x.dec /\ y.action = x.action /\ y.work = x.work
       /\ y.based = x.based /\ (y.effect => x.effect \/ grows) /\ (x.effect => y.effect)
    \/ /\ Live(x) /\ x.dec \in {"APPLIED", "STALE"} /\ y = Ended("completed")
    \/ /\ Live(x) /\ y = Ended("failed")
    \/ /\ Live(x) /\ Live(y) /\ x.dec = "none" /\ y.dec = "PENDING" /\ y.effect = x.effect
       /\ n <= y.based /\ y.based = Len(ev) /\ Agrees(y, Decide)
    \/ /\ Live(x) /\ Live(y) /\ x.dec = "none" /\ y.dec = "STALE" /\ y.effect = x.effect
       /\ n <= y.based /\ y.based < Len(ev)
    \/ /\ Live(x) /\ Live(y) /\ x.dec = "PENDING" /\ y.dec = "STALE" /\ y.effect = x.effect
       /\ y.action = x.action /\ y.based = x.based /\ x.based # Len(ev)
    \/ /\ Live(x) /\ Live(y) /\ x.dec = "PENDING" /\ y.dec = "APPLIED"
       /\ y.effect = x.effect /\ y.action = x.action /\ y.work = x.work
       /\ y.based = x.based /\ (x.effect \/ x.action = "WAIT")

EvMoves ==
    /\ ev' \in Seq(EvType) /\ Len(ev) \in Nat /\ Len(ev') \in Nat /\ Len(ev) <= Len(ev')
    /\ \A n \in 1..Len(ev) : RowMoves(n, ev[n], ev'[n], Len(ev) < Len(ev'))
    /\ \A n \in (Len(ev) + 1)..Len(ev') : ev'[n] = NewEvent
    /\ Len(ev') = Len(ev) => Decide' = Decide

LEMMA EvStays ==
    ASSUME Types, ev' = ev, Decide' = Decide
    PROVE EvMoves
<1>1. Len(ev) \in Nat
    BY LenProperties DEF Types
<1> QED BY <1>1 DEF Types, EvMoves, RowMoves

LEMMA EvWritten ==
    ASSUME Types, NEW n \in DOMAIN ev, NEW y \in EvType, ev' = [ev EXCEPT ![n] = y],
           RowMoves(n, ev[n], y, FALSE), Decide' = Decide
    PROVE EvMoves
<1>1. ev \in Seq(EvType) /\ Len(ev) \in Nat
    BY LenProperties DEF Types
<1>2. /\ ev' \in Seq(EvType) /\ Len(ev') = Len(ev)
      /\ \A m \in 1..Len(ev) : ev'[m] = IF m = n THEN y ELSE ev[m]
    BY <1>1, RowWritten
<1>3. \A m \in 1..Len(ev) : RowMoves(m, ev[m], ev'[m], Len(ev) < Len(ev'))
    BY <1>1, <1>2 DEF RowMoves
<1> QED BY <1>1, <1>2, <1>3 DEF EvMoves

LEMMA EvEmitted ==
    ASSUME Types, ev' = Emit(ev)
    PROVE EvMoves
<1>1. ev \in Seq(EvType)
    BY DEF Types
<1>2. /\ ev' \in Seq(EvType) /\ Len(ev') = Len(ev) + 1 /\ Len(ev) \in Nat
      /\ \A m \in 1..Len(ev) : ev'[m] = ev[m]
      /\ ev'[Len(ev) + 1] = NewEvent
    BY <1>1, EventAppended
<1>3. \A m \in (Len(ev) + 1)..Len(ev') : m = Len(ev) + 1
    BY <1>2
<1>4. \A m \in 1..Len(ev) : RowMoves(m, ev[m], ev'[m], Len(ev) < Len(ev'))
    BY <1>2 DEF RowMoves
<1>5. Len(ev') \in Nat /\ Len(ev) <= Len(ev') /\ Len(ev') # Len(ev)
    BY <1>2
<1> QED BY <1>2, <1>3, <1>4, <1>5 DEF EvMoves

(* An effect, or the fact that a decision was stale, and its event.         *)
LEMMA EvWrittenEmitted ==
    ASSUME Types, NEW n \in DOMAIN ev, NEW y \in EvType,
           ev' = Emit([ev EXCEPT ![n] = y]),
           RowMoves(n, ev[n], y, TRUE)
    PROVE EvMoves
<1>1. ev \in Seq(EvType) /\ Len(ev) \in Nat
    BY LenProperties DEF Types
<1> DEFINE f == [ev EXCEPT ![n] = y]
<1>2. /\ f \in Seq(EvType) /\ Len(f) = Len(ev)
      /\ \A m \in 1..Len(ev) : f[m] = IF m = n THEN y ELSE ev[m]
    BY <1>1, RowWritten
<1> HIDE DEF f
<1>3. /\ ev' \in Seq(EvType) /\ Len(ev') = Len(ev) + 1
      /\ \A m \in 1..Len(ev) : ev'[m] = IF m = n THEN y ELSE ev[m]
      /\ ev'[Len(ev) + 1] = NewEvent
    <2>1. ev' = Emit(f)
        BY DEF f
    <2>2. /\ ev' \in Seq(EvType) /\ Len(ev') = Len(f) + 1
          /\ \A m \in 1..Len(f) : ev'[m] = f[m]
          /\ ev'[Len(f) + 1] = NewEvent
        BY <1>2, <2>1, EventAppended
    <2> QED BY <1>2, <2>2
<1>4. Len(ev') \in Nat /\ Len(ev) <= Len(ev') /\ Len(ev') # Len(ev) /\ Len(ev) < Len(ev')
    BY <1>1, <1>3
<1>5. ASSUME NEW m \in 1..Len(ev)
      PROVE RowMoves(m, ev[m], ev'[m], Len(ev) < Len(ev'))
    <2>1. (Len(ev) < Len(ev')) = TRUE
        BY <1>4
    <2>2. CASE m = n
        BY <1>3, <2>1, <2>2
    <2>3. CASE m # n
        BY <1>3, <2>3 DEF RowMoves
    <2> QED BY <2>2, <2>3
<1>6. \A m \in (Len(ev) + 1)..Len(ev') : m = Len(ev) + 1
    BY <1>1, <1>3
<1> QED BY <1>1, <1>3, <1>4, <1>5, <1>6 DEF EvMoves

(* The acceptance of a delivery, its completion and the process's end.      *)
LEMMA EvThrice ==
    ASSUME Types, ev' = Emit(Emit(Emit(ev)))
    PROVE EvMoves
<1> DEFINE f == Emit(ev)
           g == Emit(f)
<1>1. ev \in Seq(EvType)
    BY DEF Types
<1>2. /\ f \in Seq(EvType) /\ Len(f) = Len(ev) + 1 /\ Len(ev) \in Nat
      /\ \A m \in 1..Len(ev) : f[m] = ev[m]
      /\ f[Len(ev) + 1] = NewEvent
    BY <1>1, EventAppended
<1> HIDE DEF f
<1>3. /\ g \in Seq(EvType) /\ Len(g) = Len(f) + 1
      /\ \A m \in 1..Len(f) : g[m] = f[m]
      /\ g[Len(f) + 1] = NewEvent
    BY <1>2, EventAppended
<1>4. ev' = Emit(g)
    BY DEF f
<1> HIDE DEF g
<1>5. /\ ev' \in Seq(EvType) /\ Len(ev') = Len(g) + 1
      /\ \A m \in 1..Len(g) : ev'[m] = g[m]
      /\ ev'[Len(g) + 1] = NewEvent
    BY <1>3, <1>4, EventAppended
<1>6. Len(ev') = Len(ev) + 3 /\ Len(g) = Len(ev) + 2 /\ Len(f) = Len(ev) + 1
    BY <1>2, <1>3, <1>5
<1>7. \A m \in 1..Len(ev) : ev'[m] = ev[m]
    BY <1>2, <1>3, <1>5, <1>6
<1>8. ASSUME NEW m \in (Len(ev) + 1)..Len(ev') PROVE ev'[m] = NewEvent
    <2>1. m \in {Len(ev) + 1, Len(ev) + 2, Len(ev) + 3}
        BY <1>2, <1>6
    <2>2. CASE m = Len(ev) + 1
        <3>1. m \in 1..Len(f) /\ m \in 1..Len(g)
            BY <1>2, <1>6, <2>2
        <3> QED BY <1>2, <1>3, <1>5, <2>2, <3>1
    <2>3. CASE m = Len(ev) + 2
        <3>1. m \in 1..Len(g) /\ m = Len(f) + 1
            BY <1>2, <1>6, <2>3
        <3> QED BY <1>3, <1>5, <3>1
    <2>4. CASE m = Len(ev) + 3
        BY <1>2, <1>5, <1>6, <2>4
    <2> QED BY <2>1, <2>2, <2>3, <2>4
<1>9. Len(ev') \in Nat /\ Len(ev) <= Len(ev') /\ Len(ev') # Len(ev)
    BY <1>2, <1>6
<1> QED BY <1>2, <1>5, <1>7, <1>8, <1>9 DEF EvMoves, RowMoves

-----------------------------------------------------------------------------
(* What every step keeps, given how the rows moved *)

LEMMA ProgressStays ==
    ASSUME NEW pc, NEW n, NEW x, NEW y, NEW grows, Progress(pc, x), RowMoves(n, x, y, grows)
    PROVE Progress(pc, y)
BY DEF Progress, RowMoves, Ended, NewEvent, Live

LEMMA RowStays ==
    ASSUME NEW n \in Nat, NEW x \in EvType, NEW y \in EvType, NEW len \in Nat, NEW d,
           n <= Len(ev), Len(ev) \in Nat, Len(ev) <= len,
           len = Len(ev) => d = Decide,
           RowOK(n, x, Len(ev), Decide), RowMoves(n, x, y, Len(ev) < len)
    PROVE RowOK(n, y, len, d)
<1>0. x.based \in Nat /\ y.based \in Nat
    BY DEF EvType
<1>1. CASE y = x
    BY <1>0, <1>1 DEF RowOK, Agrees
<1>2. CASE /\ Live(x) /\ Live(y) /\ y.dec = x.dec /\ y.action = x.action /\ y.work = x.work
           /\ y.based = x.based /\ (y.effect => x.effect \/ Len(ev) < len)
           /\ (x.effect => y.effect)
    BY <1>0, <1>2 DEF RowOK, Agrees
<1>3. CASE y = Ended("completed") \/ y = Ended("failed")
    BY <1>0, <1>3 DEF RowOK, Ended, NewEvent
<1>4. CASE /\ x.dec = "none" /\ y.dec = "PENDING" /\ y.effect = x.effect
           /\ n <= y.based /\ y.based = Len(ev) /\ Agrees(y, Decide)
    BY <1>0, <1>4 DEF RowOK, Agrees
<1>5. CASE /\ x.dec = "none" /\ y.dec = "STALE" /\ y.effect = x.effect
           /\ n <= y.based /\ y.based < Len(ev)
    BY <1>0, <1>5 DEF RowOK, Agrees
<1>6. CASE /\ x.dec = "PENDING" /\ y.dec = "STALE" /\ y.effect = x.effect
           /\ y.action = x.action /\ y.based = x.based /\ x.based # Len(ev)
    BY <1>0, <1>6 DEF RowOK, Agrees
<1>7. CASE /\ x.dec = "PENDING" /\ y.dec = "APPLIED"
           /\ y.effect = x.effect /\ y.action = x.action /\ y.work = x.work
           /\ y.based = x.based /\ (x.effect \/ x.action = "WAIT")
    BY <1>0, <1>7 DEF RowOK, Agrees
<1> QED BY <1>1, <1>2, <1>3, <1>4, <1>5, <1>6, <1>7 DEF RowMoves

LEMMA NewRowOK ==
    ASSUME NEW n, NEW len, NEW d
    PROVE RowOK(n, NewEvent, len, d)
BY DEF RowOK, NewEvent

LEMMA RowsKept ==
    ASSUME PInv, EvMoves
    PROVE \A n \in 1..Len(ev') : RowOK(n, ev'[n], Len(ev'), Decide')
<1> SUFFICES ASSUME NEW n \in 1..Len(ev')
             PROVE RowOK(n, ev'[n], Len(ev'), Decide')
    OBVIOUS
<1>0. Len(ev) \in Nat /\ Len(ev') \in Nat /\ Len(ev) <= Len(ev') /\ n \in Nat
    BY DEF EvMoves
<1>1. CASE n \in 1..Len(ev)
    <2>1. ev[n] \in EvType /\ ev'[n] \in EvType
        BY <1>1, ElementOfSeq DEF PInv, Types, EvMoves
    <2>2. /\ RowOK(n, ev[n], Len(ev), Decide)
          /\ RowMoves(n, ev[n], ev'[n], Len(ev) < Len(ev'))
          /\ Len(ev') = Len(ev) => Decide' = Decide
        BY <1>1 DEF PInv, EvMoves
    <2>3. n <= Len(ev)
        BY <1>0, <1>1
    <2> QED BY <1>0, <2>1, <2>2, <2>3, RowStays
<1>2. CASE n \notin 1..Len(ev)
    <2>1. n \in (Len(ev) + 1)..Len(ev')
        BY <1>0, <1>2
    <2>2. ev'[n] = NewEvent
        BY <2>1 DEF EvMoves
    <2> QED BY <2>2, NewRowOK
<1> QED BY <1>1, <1>2

(* A worker that does nothing stays where the invariant has it.             *)
LEMMA WorkerKept ==
    ASSUME PInv, EvMoves, NEW k \in WkType, WorkerOK(k, ev, Decide)
    PROVE WorkerOK(k, ev', Decide')
<1>0. Len(ev) \in Nat /\ Len(ev') \in Nat /\ Len(ev) <= Len(ev')
    BY DEF EvMoves
<1>1. ASSUME k.pc # "idle" PROVE k.n \in 1..Len(ev') /\ Progress(k.pc, ev'[k.n])
    <2>1. k.n \in 1..Len(ev) /\ Progress(k.pc, ev[k.n])
        BY <1>1 DEF WorkerOK
    <2>2. RowMoves(k.n, ev[k.n], ev'[k.n], Len(ev) < Len(ev'))
        BY <2>1 DEF EvMoves
    <2>3. Progress(k.pc, ev'[k.n])
        BY <2>1, <2>2, ProgressStays
    <2> QED BY <1>0, <2>1, <2>3
<1>2. ASSUME k.pc = "record"
      PROVE /\ k.n <= k.based /\ k.based <= Len(ev')
            /\ k.based = Len(ev') => Agrees(k, Decide')
    <2>1. /\ k.n <= k.based /\ k.based <= Len(ev) /\ k.based \in Nat
          /\ k.based = Len(ev) => Agrees(k, Decide)
        BY <1>2 DEF WorkerOK, WkType
    <2>2. Len(ev') = Len(ev) => Decide' = Decide
        BY DEF EvMoves
    <2>3. k.based <= Len(ev') /\ (k.based = Len(ev') => Len(ev') = Len(ev) /\ k.based = Len(ev))
        BY <1>0, <2>1
    <2> QED BY <2>1, <2>2, <2>3 DEF Agrees
<1> QED BY <1>1, <1>2 DEF WorkerOK

WkMoves ==
    /\ runners' \in [Runners -> WkType]
    /\ \A w \in Runners : WorkerOK(runners'[w], ev', Decide')

LEMMA WkStays ==
    ASSUME PInv, EvMoves, runners' = runners
    PROVE WkMoves
BY WorkerKept DEF PInv, Types, WkMoves

LEMMA WkWritten ==
    ASSUME PInv, EvMoves, NEW w \in Runners, NEW k \in WkType,
           runners' = [runners EXCEPT ![w] = k], WorkerOK(k, ev', Decide')
    PROVE WkMoves
<1>1. runners \in [Runners -> WkType]
    BY DEF PInv, Types
<1>2. runners' \in [Runners -> WkType]
    BY <1>1
<1>3. ASSUME NEW v \in Runners PROVE WorkerOK(runners'[v], ev', Decide')
    <2>1. CASE v = w
        <3>1. runners'[v] = k
            BY <1>1, <2>1
        <3> QED BY <3>1
    <2>2. CASE v # w
        <3>1. runners'[v] = runners[v] /\ runners[v] \in WkType /\ WorkerOK(runners[v], ev, Decide)
            BY <1>1, <2>2 DEF PInv
        <3> QED BY <3>1, WorkerKept
    <2> QED BY <2>1, <2>2
<1> QED BY <1>2, <1>3 DEF WkMoves

(* The last wake-up is not completed before its decision is the one to wait. *)
LEMMA LastKept ==
    ASSUME PInv, EvMoves, ev'[Len(ev')].wake = "completed"
    PROVE Decide'.action = "WAIT"
<1>0. Len(ev) \in Nat /\ Len(ev') \in Nat /\ Len(ev) <= Len(ev') /\ Len(ev) > 0
    BY DEF EvMoves, PInv, Types
<1>1. Len(ev') = Len(ev)
    <2> SUFFICES ASSUME Len(ev') # Len(ev) PROVE FALSE
        OBVIOUS
    <2>1. Len(ev') \in (Len(ev) + 1)..Len(ev')
        BY <1>0
    <2>2. ev'[Len(ev')] = NewEvent
        BY <2>1 DEF EvMoves
    <2> QED BY <2>2 DEF NewEvent
<1> DEFINE n == Len(ev)
<1>2. n \in 1..Len(ev)
    BY <1>0
<1>3. /\ RowMoves(n, ev[n], ev'[n], Len(ev) < Len(ev'))
      /\ RowOK(n, ev[n], n, Decide) /\ Decide' = Decide
    BY <1>1, <1>2 DEF EvMoves, PInv
<1>4. ev[n] \in EvType
    BY <1>2, ElementOfSeq DEF PInv, Types
<1>5. CASE ev'[n] = ev[n]
    BY <1>1, <1>3, <1>5 DEF PInv
<1>6. CASE ev[n].dec \in {"APPLIED", "STALE"}
    <2>1. ev[n].dec = "APPLIED" /\ ~ev[n].effect
        BY <1>0, <1>3, <1>6 DEF RowOK
    <2>2. ev[n].action = "WAIT" /\ ev[n].based = n
        BY <1>0, <1>3, <1>4, <2>1 DEF RowOK, EvType
    <2> QED BY <1>3, <2>1, <2>2 DEF RowOK, Agrees
<1> QED BY <1>1, <1>3, <1>5, <1>6 DEF RowMoves, Live, Ended, NewEvent

-----------------------------------------------------------------------------
(* The workers' steps *)

(* The step moves rows and workers as the invariant allows.                 *)
Moves == EvMoves /\ WkMoves

LEMMA WorkerFacts ==
    ASSUME PInv, NEW w \in Runners, runners[w].pc # "idle"
    PROVE /\ runners[w] \in WkType /\ runners[w].n \in DOMAIN ev /\ runners[w].n \in 1..Len(ev)
          /\ ev[runners[w].n] \in EvType /\ runners[w].n \in Nat
          /\ WorkerOK(runners[w], ev, Decide)
          /\ Progress(runners[w].pc, ev[runners[w].n])
          /\ RowOK(runners[w].n, ev[runners[w].n], Len(ev), Decide)
          /\ ev \in Seq(EvType) /\ Len(ev) \in Nat
<1>1. runners \in [Runners -> WkType] /\ ev \in Seq(EvType)
    BY DEF PInv, Types
<1>2. DOMAIN ev = 1..Len(ev) /\ Len(ev) \in Nat
    BY <1>1, LenProperties
<1>3. WorkerOK(runners[w], ev, Decide) /\ runners[w].n \in 1..Len(ev)
    BY DEF PInv, WorkerOK
<1>4. ev[runners[w].n] \in EvType
    BY <1>1, <1>3, ElementOfSeq
<1> QED BY <1>1, <1>2, <1>3, <1>4 DEF PInv, WorkerOK

(* A worker goes to the next step of its wake-up.                           *)
LEMMA GoesTo ==
    ASSUME PInv, EvMoves, NEW w \in Runners, runners[w].pc # "idle",
           NEW pc \in {"recheck", "apply", "publish", "finish", "stale", "complete"},
           Goto(w, pc), Progress(pc, ev'[runners[w].n])
    PROVE WkMoves
<1>1. PICK n \in Nat, token \in Nat : n = runners[w].n /\ token = runners[w].token
    BY WorkerFacts DEF WkType
<1>2. PICK k : k = [Idle EXCEPT !.pc = pc, !.n = n, !.token = token]
    OBVIOUS
<1>3. k \in WkType /\ k.pc = pc /\ k.n = n
    BY <1>2 DEF Idle, WkType, Actions
<1>4. runners' = [runners EXCEPT ![w] = k]
    BY <1>1, <1>2 DEF Goto
<1>5. n \in 1..Len(ev) /\ Len(ev) \in Nat /\ Len(ev') \in Nat /\ Len(ev) <= Len(ev')
    BY <1>1, WorkerFacts DEF EvMoves
<1>6. WorkerOK(k, ev', Decide')
    BY <1>1, <1>3, <1>5 DEF WorkerOK
<1> QED BY <1>3, <1>4, <1>6, WkWritten

LEMMA BecomesIdle ==
    ASSUME PInv, EvMoves, NEW w \in Runners, runners' = [runners EXCEPT ![w] = Idle]
    PROVE WkMoves
<1>1. WorkerOK(Idle, ev', Decide')
    BY DEF WorkerOK, Idle
<1> QED BY <1>1, IdleType, WkWritten

LEMMA ClaimMoves ==
    ASSUME PInv, NEW w \in Runners, NEW n \in DOMAIN ev, ClaimWakeUp(w, n)
    PROVE Moves
<1>0. ev \in Seq(EvType) /\ Len(ev) \in Nat /\ DOMAIN ev = 1..Len(ev)
    BY LenProperties DEF PInv, Types
<1>1. ev[n] \in EvType /\ n \in 1..Len(ev) /\ n \in Nat /\ ev[n].attempt + 1 \in Nat
    <2>1. n \in 1..Len(ev) /\ n \in Nat
        BY <1>0
    <2>2. ev[n] \in EvType
        BY <1>0, <2>1, ElementOfSeq
    <2> QED BY <2>1, <2>2 DEF EvType
<1>2. Decide' = Decide
    BY DecideStays DEF ClaimWakeUp
<1>3. PICK y : y = [ev[n] EXCEPT !.wake = "leased", !.attempt = @ + 1, !.lapsed = FALSE]
    OBVIOUS
<1>4. /\ y \in EvType /\ Live(y) /\ y.dec = ev[n].dec /\ y.action = ev[n].action
      /\ y.work = ev[n].work /\ y.based = ev[n].based /\ y.effect = ev[n].effect
    BY <1>1, <1>3 DEF EvType, Live, Wakes
<1>5. ev' = [ev EXCEPT ![n] = y]
    BY <1>0, <1>1, <1>3 DEF ClaimWakeUp
<1>6. Live(ev[n])
    BY DEF ClaimWakeUp, WakeUpDue, Live
<1>7. RowMoves(n, ev[n], y, FALSE)
    BY <1>4, <1>6 DEF RowMoves
<1>8. EvMoves
    BY <1>2, <1>4, <1>5, <1>7, EvWritten DEF PInv
<1>9. PICK k : k = [Idle EXCEPT !.pc = "claimed", !.n = n, !.token = ev[n].attempt + 1]
    OBVIOUS
<1>10. k \in WkType /\ k.pc = "claimed" /\ k.n = n
    BY <1>1, <1>9 DEF Idle, WkType, Actions
<1>11. runners' = [runners EXCEPT ![w] = k]
    BY <1>9 DEF ClaimWakeUp
<1>12. n \in 1..Len(ev')
    BY <1>1, <1>8 DEF EvMoves
<1>13. WorkerOK(k, ev', Decide')
    BY <1>10, <1>12 DEF WorkerOK, Progress
<1> QED BY <1>8, <1>10, <1>11, <1>13, WkWritten DEF Moves

LEMMA SnapshotMoves ==
    ASSUME PInv, NEW w \in Runners, Snapshot(w)
    PROVE Moves
<1>1. Decide' = Decide /\ ev' = ev /\ runners[w].pc # "idle"
    BY DecideStays DEF Snapshot
<1>2. EvMoves
    BY <1>1, EvStays DEF PInv
<1>3. PICK k : k = [runners[w] EXCEPT !.pc = "record", !.action = Decide.action,
                                 !.work = Decide.work, !.based = Len(ev)]
    OBVIOUS
<1>4. runners[w] \in WkType /\ Len(ev) \in Nat /\ runners[w].n \in 1..Len(ev)
    BY <1>1, WorkerFacts
<1>5. /\ k \in WkType /\ k.pc = "record" /\ k.action = Decide.action
      /\ k.work = Decide.work /\ k.based = Len(ev) /\ k.n = runners[w].n
    BY <1>3, <1>4, DecideType DEF WkType
<1>6. runners' = [runners EXCEPT ![w] = k]
    <2>1. runners \in [Runners -> WkType]
        BY DEF PInv, Types
    <2> QED BY <1>3, <2>1 DEF Snapshot
<1>7. WorkerOK(k, ev', Decide')
    BY <1>1, <1>4, <1>5 DEF WorkerOK, Agrees, Progress
<1> QED BY <1>2, <1>5, <1>6, <1>7, WkWritten DEF Moves

LEMMA ReloadMoves ==
    ASSUME PInv, NEW w \in Runners, Reload(w)
    PROVE Moves
<1>1. Decide' = Decide /\ ev' = ev /\ runners[w].pc # "idle" /\ ev[runners[w].n].dec # "none"
    BY DecideStays DEF Reload
<1>2. EvMoves
    BY <1>1, EvStays DEF PInv
<1>3. ev[runners[w].n] \in EvType
    BY <1>1, WorkerFacts
<1>4. CASE ev[runners[w].n].dec = "STALE"
    <2>1. Goto(w, "stale")
        BY <1>4 DEF Reload
    <2>2. Progress("stale", ev'[runners[w].n])
        BY <1>1, <1>4 DEF Progress
    <2> QED BY <1>1, <1>2, <2>1, <2>2, GoesTo DEF Moves
<1>5. CASE ev[runners[w].n].dec = "APPLIED"
    <2>1. Goto(w, "complete")
        BY <1>5 DEF Reload
    <2>2. Progress("complete", ev'[runners[w].n])
        BY <1>1, <1>5 DEF Progress
    <2> QED BY <1>1, <1>2, <2>1, <2>2, GoesTo DEF Moves
<1>6. CASE ev[runners[w].n].dec = "PENDING" /\ ev[runners[w].n].effect
    <2>1. Goto(w, "finish")
        BY <1>6 DEF Reload
    <2>2. Progress("finish", ev'[runners[w].n])
        BY <1>1, <1>6 DEF Progress
    <2> QED BY <1>1, <1>2, <2>1, <2>2, GoesTo DEF Moves
<1>7. CASE ev[runners[w].n].dec = "PENDING" /\ ~ev[runners[w].n].effect
    <2>1. Goto(w, "recheck")
        BY <1>7 DEF Reload
    <2>2. Progress("recheck", ev'[runners[w].n])
        BY <1>1, <1>7 DEF Progress
    <2> QED BY <1>1, <1>2, <2>1, <2>2, GoesTo DEF Moves
<1> QED BY <1>1, <1>3, <1>4, <1>5, <1>6, <1>7 DEF EvType

(* The row of a decision that is recorded.                                  *)
LEMMA RecordMoves ==
    ASSUME PInv, NEW w \in Runners, Record(w)
    PROVE Moves
<1>1. PICK n \in Nat : n = runners[w].n
    BY WorkerFacts DEF Record
<1>2. /\ runners[w].pc = "record" /\ ev[n].wake = "leased" /\ ev[n].dec = "none"
      /\ Decide' = Decide
    BY <1>1, DecideStays DEF Record, Fenced
<1>3. /\ runners[w] \in WkType /\ n \in DOMAIN ev /\ n \in 1..Len(ev) /\ ev[n] \in EvType
      /\ ev \in Seq(EvType) /\ Len(ev) \in Nat
      /\ n <= runners[w].based /\ runners[w].based <= Len(ev)
      /\ runners[w].based = Len(ev) => Agrees(runners[w], Decide)
    BY <1>1, <1>2, WorkerFacts DEF WorkerOK
<1>4. PICK d \in {"PENDING", "STALE"} :
         d = IF Len(ev) = runners[w].based THEN "PENDING" ELSE "STALE"
    OBVIOUS
<1>5. PICK y : y = [ev[n] EXCEPT !.dec = d, !.action = runners[w].action,
                                 !.work = runners[w].work, !.based = runners[w].based]
    OBVIOUS
<1>6. /\ y \in EvType /\ y.wake = "leased" /\ y.dec = d /\ y.action = runners[w].action
      /\ y.work = runners[w].work /\ y.based = runners[w].based /\ y.effect = ev[n].effect
    BY <1>2, <1>3, <1>5 DEF EvType, WkType
<1>7. ev' = [ev EXCEPT ![n] = y]
    BY <1>1, <1>3, <1>4, <1>5 DEF Record
<1>8. Live(ev[n]) /\ Live(y)
    BY <1>2, <1>6 DEF Live
<1>9. RowMoves(n, ev[n], y, FALSE)
    <2>1. CASE d = "PENDING"
        <3>1. y.based = Len(ev) /\ Agrees(y, Decide)
            BY <1>3, <1>4, <1>6, <2>1 DEF Agrees
        <3> QED BY <1>2, <1>3, <1>6, <1>8, <2>1, <3>1 DEF RowMoves
    <2>2. CASE d = "STALE"
        <3>1. y.based < Len(ev)
            <4>1. runners[w].based \in Nat /\ runners[w].based # Len(ev)
                BY <1>3, <1>4, <2>2 DEF WkType
            <4> QED BY <1>3, <1>6, <4>1
        <3> QED BY <1>2, <1>3, <1>6, <1>8, <2>2, <3>1 DEF RowMoves
    <2> QED BY <1>4, <2>1, <2>2
<1>10. EvMoves
    BY <1>2, <1>3, <1>6, <1>7, <1>9, EvWritten DEF PInv
<1>11. ev'[n] = y
    BY <1>3, <1>6, <1>7
<1>12. PICK pc \in {"apply", "stale"} : pc = (IF d = "PENDING" THEN "apply" ELSE "stale")
    OBVIOUS
<1>13. Goto(w, pc)
    BY <1>4, <1>12 DEF Record
<1>14. Progress(pc, ev'[n])
    BY <1>4, <1>6, <1>11, <1>12 DEF Progress
<1> QED BY <1>1, <1>2, <1>10, <1>12, <1>13, <1>14, GoesTo DEF Moves

LEMMA InvalidateMoves ==
    ASSUME PInv, NEW w \in Runners, Invalidate(w)
    PROVE Moves
<1>1. PICK n \in Nat : n = runners[w].n
    BY WorkerFacts DEF Invalidate
<1>2. /\ runners[w].pc = "recheck" /\ ev[n].wake = "leased" /\ ev[n].dec = "PENDING"
      /\ Decide' = Decide
    BY <1>1, DecideStays DEF Invalidate, Fenced
<1>3. /\ n \in DOMAIN ev /\ n \in 1..Len(ev) /\ ev[n] \in EvType
      /\ ev \in Seq(EvType) /\ Len(ev) \in Nat
    BY <1>1, <1>2, WorkerFacts
<1>4. CASE Len(ev) = ev[n].based
    <2>1. ev' = ev /\ Goto(w, "apply")
        BY <1>1, <1>4 DEF Invalidate
    <2>2. EvMoves
        BY <1>2, <2>1, EvStays DEF PInv
    <2>3. Progress("apply", ev'[runners[w].n])
        BY <1>1, <1>2, <2>1 DEF Progress
    <2> QED BY <1>2, <2>1, <2>2, <2>3, GoesTo DEF Moves
<1>5. CASE Len(ev) # ev[n].based
    <2>1. PICK y : y = [ev[n] EXCEPT !.dec = "STALE"]
        OBVIOUS
    <2>2. /\ y \in EvType /\ y.wake = "leased" /\ y.dec = "STALE"
          /\ y.action = ev[n].action /\ y.based = ev[n].based /\ y.effect = ev[n].effect
        BY <1>2, <1>3, <2>1 DEF EvType
    <2>3. ev' = [ev EXCEPT ![n] = y] /\ Goto(w, "stale")
        BY <1>1, <1>3, <1>5, <2>1 DEF Invalidate
    <2>4. RowMoves(n, ev[n], y, FALSE)
        BY <1>2, <1>5, <2>2 DEF RowMoves, Live
    <2>5. EvMoves
        BY <1>2, <1>3, <2>2, <2>3, <2>4, EvWritten DEF PInv
    <2>6. Progress("stale", ev'[runners[w].n])
        BY <1>1, <1>3, <2>2, <2>3 DEF Progress
    <2> QED BY <1>2, <2>3, <2>5, <2>6, GoesTo DEF Moves
<1> QED BY <1>4, <1>5

LEMMA ApplyNothingMoves ==
    ASSUME PInv, NEW w \in Runners, ApplyNothing(w)
    PROVE Moves
<1>1. /\ runners[w].pc = "apply" /\ ev[runners[w].n].action = "WAIT" /\ ev' = ev
      /\ Decide' = Decide /\ Goto(w, "finish")
    BY DecideStays DEF ApplyNothing
<1>2. EvMoves
    BY <1>1, EvStays DEF PInv
<1>3. Progress("finish", ev'[runners[w].n])
    BY <1>1, WorkerFacts DEF Progress
<1> QED BY <1>1, <1>2, <1>3, GoesTo DEF Moves

(* An effect and its event, of a worker whose decision is recorded.         *)
LEMMA EffectMoves ==
    ASSUME PInv, NEW w \in Runners, runners[w].pc \in {"apply", "publish"},
           ev[runners[w].n].wake = "leased",
           ev' = Emit([ev EXCEPT ![runners[w].n].effect = TRUE]), Goto(w, "finish")
    PROVE Moves
<1>1. PICK n \in Nat : n = runners[w].n
    BY WorkerFacts
<1>2. /\ n \in DOMAIN ev /\ n \in 1..Len(ev) /\ ev[n] \in EvType
      /\ ev \in Seq(EvType) /\ Len(ev) \in Nat /\ ev[n].wake = "leased"
      /\ Progress(runners[w].pc, ev[n])
    BY <1>1, WorkerFacts
<1>3. PICK y : y = [ev[n] EXCEPT !.effect = TRUE]
    OBVIOUS
<1>4. /\ y \in EvType /\ y.wake = "leased" /\ y.dec = ev[n].dec /\ y.action = ev[n].action
      /\ y.work = ev[n].work /\ y.based = ev[n].based /\ y.effect
    BY <1>2, <1>3 DEF EvType
<1>5. [ev EXCEPT ![runners[w].n].effect = TRUE] = [ev EXCEPT ![n] = y]
    BY <1>1, <1>3
<1>6. RowMoves(n, ev[n], y, TRUE)
    BY <1>2, <1>4 DEF RowMoves, Live
<1>7. EvMoves
    BY <1>2, <1>4, <1>5, <1>6, EvWrittenEmitted DEF PInv
<1>8. ev'[n] = y
    <2>1. /\ [ev EXCEPT ![n] = y] \in Seq(EvType)
          /\ Len([ev EXCEPT ![n] = y]) = Len(ev) /\ [ev EXCEPT ![n] = y][n] = y
        BY <1>2, <1>4, RowWritten
    <2> QED BY <1>2, <1>5, <2>1, EventAppended
<1>9. Progress("finish", ev'[runners[w].n])
    BY <1>1, <1>2, <1>4, <1>8 DEF Progress, Live
<1> QED BY <1>7, <1>9, GoesTo DEF Moves

LEMMA FinishMoves ==
    ASSUME PInv, NEW w \in Runners, FinishDecision(w)
    PROVE Moves
<1>1. PICK n \in Nat : n = runners[w].n
    BY WorkerFacts DEF FinishDecision
<1>2. /\ runners[w].pc = "finish" /\ ev[n].wake = "leased" /\ ev[n].dec = "PENDING"
      /\ Decide' = Decide
    BY <1>1, DecideStays DEF FinishDecision, Fenced
<1>3. /\ n \in DOMAIN ev /\ n \in 1..Len(ev) /\ ev[n] \in EvType
      /\ Progress("finish", ev[n])
    BY <1>1, <1>2, WorkerFacts
<1>4. PICK y : y = [ev[n] EXCEPT !.dec = "APPLIED"]
    OBVIOUS
<1>5. /\ y \in EvType /\ y.wake = "leased" /\ y.dec = "APPLIED"
      /\ y.action = ev[n].action /\ y.work = ev[n].work
      /\ y.based = ev[n].based /\ y.effect = ev[n].effect
    BY <1>2, <1>3, <1>4 DEF EvType
<1>6. ev' = [ev EXCEPT ![n] = y] /\ Goto(w, "complete")
    BY <1>1, <1>3, <1>4 DEF FinishDecision
<1>7. RowMoves(n, ev[n], y, FALSE)
    BY <1>2, <1>3, <1>5 DEF RowMoves, Live, Progress
<1>8. EvMoves
    BY <1>2, <1>3, <1>5, <1>6, <1>7, EvWritten DEF PInv
<1>9. ev'[n] = y
    <2>1. ev \in Seq(EvType)
        BY DEF PInv, Types
    <2> QED BY <1>3, <1>5, <1>6, <2>1, RowWritten
<1>10. Progress("complete", ev'[runners[w].n])
    BY <1>1, <1>5, <1>9 DEF Progress
<1> QED BY <1>2, <1>6, <1>8, <1>10, GoesTo DEF Moves

LEMMA EmitStaleMoves ==
    ASSUME PInv, NEW w \in Runners, EmitStale(w)
    PROVE Moves
<1>1. PICK n \in Nat : n = runners[w].n
    BY WorkerFacts DEF EmitStale
<1>2. runners[w].pc = "stale" /\ Decide' = Decide /\ Goto(w, "complete")
    BY DecideStays DEF EmitStale
<1>3. /\ n \in DOMAIN ev /\ n \in 1..Len(ev) /\ ev[n] \in EvType
      /\ ev \in Seq(EvType) /\ Len(ev) \in Nat /\ Progress("stale", ev[n])
    BY <1>1, <1>2, WorkerFacts
<1>4. CASE ev[n].stale
    <2>1. ev' = ev
        BY <1>1, <1>4 DEF EmitStale
    <2>2. EvMoves
        BY <1>2, <2>1, EvStays DEF PInv
    <2>3. Progress("complete", ev'[runners[w].n])
        BY <1>1, <1>3, <2>1 DEF Progress
    <2> QED BY <1>2, <2>2, <2>3, GoesTo DEF Moves
<1>5. CASE ~ev[n].stale
    <2>1. PICK y : y = [ev[n] EXCEPT !.stale = TRUE]
        OBVIOUS
    <2>2. ev[n].wake = "leased"
        BY <1>1, <1>5 DEF EmitStale, Fenced
    <2>3. /\ y \in EvType /\ y.wake = "leased" /\ y.dec = ev[n].dec
          /\ y.action = ev[n].action /\ y.work = ev[n].work
          /\ y.based = ev[n].based /\ y.effect = ev[n].effect
        BY <1>3, <2>1, <2>2 DEF EvType
    <2>4. ev' = Emit([ev EXCEPT ![n] = y])
        <3>1. [ev EXCEPT ![runners[w].n].stale = TRUE] = [ev EXCEPT ![n] = y]
            BY <1>1, <2>1
        <3>2. ev' = Emit([ev EXCEPT ![runners[w].n].stale = TRUE])
            BY <1>1, <1>5 DEF EmitStale
        <3> QED BY <3>1, <3>2
    <2>5. RowMoves(n, ev[n], y, TRUE)
        BY <2>2, <2>3 DEF RowMoves, Live
    <2>6. EvMoves
        BY <1>3, <2>3, <2>4, <2>5, EvWrittenEmitted DEF PInv
    <2>7. ev'[n] = y
        <3>1. /\ [ev EXCEPT ![n] = y] \in Seq(EvType)
              /\ Len([ev EXCEPT ![n] = y]) = Len(ev) /\ [ev EXCEPT ![n] = y][n] = y
            BY <1>3, <2>3, RowWritten
        <3> QED BY <1>3, <2>4, <3>1, EventAppended
    <2>8. Progress("complete", ev'[runners[w].n])
        BY <1>1, <1>3, <2>2, <2>3, <2>7 DEF Progress, Live
    <2> QED BY <1>2, <2>6, <2>8, GoesTo DEF Moves
<1> QED BY <1>3, <1>4, <1>5 DEF EvType

LEMMA EndedType == Ended("completed") \in EvType /\ Ended("failed") \in EvType
BY DEF Ended, NewEvent, EvType, Wakes, Actions

LEMMA CompleteMoves ==
    ASSUME PInv, NEW w \in Runners, Complete(w)
    PROVE Moves
<1>1. PICK n \in Nat : n = runners[w].n
    BY WorkerFacts DEF Complete
<1>2. /\ runners[w].pc = "complete" /\ ev[n].wake = "leased" /\ Decide' = Decide
      /\ ev' = [ev EXCEPT ![n] = Ended("completed")] /\ runners' = [runners EXCEPT ![w] = Idle]
    BY <1>1, DecideStays DEF Complete, Fenced
<1>3. n \in DOMAIN ev /\ Progress("complete", ev[n])
    BY <1>1, <1>2, WorkerFacts
<1>4. RowMoves(n, ev[n], Ended("completed"), FALSE)
    BY <1>2, <1>3 DEF RowMoves, Live, Progress
<1>5. EvMoves
    BY <1>2, <1>3, <1>4, EndedType, EvWritten DEF PInv
<1> QED BY <1>2, <1>5, BecomesIdle DEF Moves

LEMMA RetryMoves ==
    ASSUME PInv, NEW w \in Runners, RetryWakeUp(w)
    PROVE Moves
<1>1. PICK n \in Nat : n = runners[w].n
    BY WorkerFacts DEF RetryWakeUp
<1>2. /\ runners[w].pc # "idle" /\ ev[n].wake = "leased" /\ Decide' = Decide
      /\ runners' = [runners EXCEPT ![w] = Idle]
    BY <1>1, DecideStays DEF RetryWakeUp, Fenced
<1>3. n \in DOMAIN ev /\ ev[n] \in EvType
    BY <1>1, <1>2, WorkerFacts
<1>4. PICK y : y = IF ev[n].attempt >= RetryBudget + 1 THEN Ended("failed")
                   ELSE [ev[n] EXCEPT !.wake = "retry_wait", !.lapsed = FALSE]
    OBVIOUS
<1>5. ev' = [ev EXCEPT ![n] = y]
    BY <1>1, <1>4 DEF RetryWakeUp
<1>6. y \in EvType /\ RowMoves(n, ev[n], y, FALSE)
    <2>1. CASE y = Ended("failed")
        BY <1>2, <2>1, EndedType DEF RowMoves, Live
    <2>2. CASE y = [ev[n] EXCEPT !.wake = "retry_wait", !.lapsed = FALSE]
        <3>1. /\ y \in EvType /\ y.wake = "retry_wait" /\ y.dec = ev[n].dec
              /\ y.action = ev[n].action /\ y.work = ev[n].work
              /\ y.based = ev[n].based /\ y.effect = ev[n].effect
            BY <1>3, <2>2 DEF EvType, Wakes
        <3> QED BY <1>2, <3>1 DEF RowMoves, Live
    <2> QED BY <1>4, <2>1, <2>2
<1>7. EvMoves
    BY <1>2, <1>3, <1>5, <1>6, EvWritten DEF PInv
<1> QED BY <1>2, <1>7, BecomesIdle DEF Moves

LEMMA VanishMoves ==
    ASSUME PInv, NEW w \in Runners, RunnerVanishes(w)
    PROVE Moves
<1>1. ev' = ev /\ Decide' = Decide /\ runners' = [runners EXCEPT ![w] = Idle]
    BY DecideStays DEF RunnerVanishes
<1>2. EvMoves
    BY <1>1, EvStays DEF PInv
<1> QED BY <1>1, <1>2, BecomesIdle DEF Moves

LEMMA LapseMoves ==
    ASSUME PInv, NEW n \in DOMAIN ev, Lapse(n)
    PROVE Moves
<1>1. ev[n].wake = "leased" /\ Decide' = Decide /\ runners' = runners
    BY DecideStays DEF Lapse
<1>2. ev[n] \in EvType
    BY LenProperties, ElementOfSeq DEF PInv, Types
<1>3. PICK y : y = [ev[n] EXCEPT !.lapsed = TRUE]
    OBVIOUS
<1>4. /\ y \in EvType /\ y.wake = "leased" /\ y.dec = ev[n].dec
      /\ y.action = ev[n].action /\ y.work = ev[n].work
      /\ y.based = ev[n].based /\ y.effect = ev[n].effect
    BY <1>1, <1>2, <1>3 DEF EvType
<1>5. ev' = [ev EXCEPT ![n] = y]
    BY <1>3 DEF Lapse
<1>6. RowMoves(n, ev[n], y, FALSE)
    BY <1>1, <1>4 DEF RowMoves, Live
<1>7. EvMoves
    BY <1>1, <1>4, <1>5, <1>6, EvWritten DEF PInv
<1> QED BY <1>1, <1>7, WkStays DEF Moves

LEMMA ReadCurrentMoves ==
    ASSUME PInv, IInv, NEW w \in Runners, ReadCurrent(w)
    PROVE Moves
<1>1. runners[w].pc = "apply" /\ ev' = ev /\ Decide' = Decide
    BY DecideStays DEF ReadCurrent
<1>2. EvMoves
    BY <1>1, EvStays DEF PInv
<1>3. PICK k : k = [runners[w] EXCEPT !.pc = "publish", !.version = proc.version]
    OBVIOUS
<1>4. runners[w] \in WkType /\ runners[w].n \in 1..Len(ev) /\ Progress("apply", ev[runners[w].n])
    BY <1>1, WorkerFacts
<1>5. k \in WkType /\ k.pc = "publish" /\ k.n = runners[w].n
    BY <1>3, <1>4 DEF WkType, IInv, ProcType
<1>6. runners' = [runners EXCEPT ![w] = k]
    <2>1. runners \in [Runners -> WkType]
        BY DEF PInv, Types
    <2> QED BY <1>3, <2>1 DEF ReadCurrent
<1>7. WorkerOK(k, ev', Decide')
    BY <1>1, <1>4, <1>5 DEF WorkerOK, Progress
<1> QED BY <1>2, <1>5, <1>6, <1>7, WkWritten DEF Moves

LEMMA AtomicMoves ==
    ASSUME PInv, NEW w \in Runners, NEW action, AtomicEffect(w, action)
    PROVE Moves
BY EffectMoves DEF AtomicEffect, Fenced

LEMMA PublishMoves ==
    ASSUME PInv, NEW w \in Runners, Publish(w)
    PROVE Moves
BY EffectMoves DEF Publish, Fenced

LEMMA WorkerMoves ==
    ASSUME PInv, IInv, NEW w \in Runners, RunnerStep(w)
    PROVE Moves
<1>1. CASE \E n \in DOMAIN ev : ClaimWakeUp(w, n)
    BY <1>1, ClaimMoves
<1>2. CASE Snapshot(w) \/ Reload(w) \/ Record(w) \/ Invalidate(w) \/ ApplyNothing(w)
    BY <1>2, SnapshotMoves, ReloadMoves, RecordMoves, InvalidateMoves, ApplyNothingMoves
<1>3. CASE \E t \in Tasks : Dispatch(w, t)
    BY <1>3, AtomicMoves DEF Dispatch
<1>4. CASE EnterIntegration(w) \/ ReopenWork(w)
    BY <1>4, AtomicMoves DEF EnterIntegration, ReopenWork
<1>5. CASE \E impacted \in SUBSET Tasks : Assemble(w, impacted)
    BY <1>5, AtomicMoves DEF Assemble
<1>6. CASE ReadCurrent(w) \/ Publish(w) \/ FinishDecision(w) \/ EmitStale(w) \/ Complete(w)
    BY <1>6, ReadCurrentMoves, PublishMoves, FinishMoves, EmitStaleMoves, CompleteMoves
<1>7. CASE RetryWakeUp(w) \/ RunnerVanishes(w)
    BY <1>7, RetryMoves, VanishMoves
<1> QED BY <1>1, <1>2, <1>3, <1>4, <1>5, <1>6, <1>7 DEF RunnerStep

-----------------------------------------------------------------------------
(* What happens meanwhile appends an event, or is nothing the decision sees. *)

LEMMA EmitMoves ==
    ASSUME PInv, ev' = Emit(ev), runners' = runners
    PROVE Moves
BY EvEmitted, WkStays DEF PInv, Moves

LEMMA QuietMoves ==
    ASSUME PInv, UNCHANGED <<proc, ev, task, started, ctl, runners>>,
           ActiveOperations' = ActiveOperations
    PROVE Moves
<1>1. Decide' = Decide
    BY DecideDepends
<1> QED BY <1>1, EvStays, WkStays DEF PInv, Moves

LEMMA CallbackMoves ==
    ASSUME PInv, IInv, NEW t \in Tasks, Callback(t)
    PROVE Moves
<1>0. run \in [Tasks -> RunType]
    BY DEF IInv
<1>1. ASSUME NEW outcome \in {"completed", "failed"}, RunEnds(t, outcome) PROVE Moves
    <2>1. run' = [run EXCEPT ![t].state = outcome]
        BY <1>1 DEF RunEnds
    <2>2. \A u \in Tasks : run'[u].settled = run[u].settled
        BY <1>0, <2>1 DEF RunType
    <2>3. ActiveOperations' = ActiveOperations
        BY <2>2 DEF ActiveOperations
    <2> QED BY <1>1, <2>3, QuietMoves DEF RunEnds
<1>2. ASSUME Settle(t) PROVE Moves
    BY <1>2, EmitMoves DEF Settle
<1>3. ASSUME NEW valid \in BOOLEAN, Project(t, valid) PROVE Moves
    <2>1. CASE ev' = Emit(ev)
        BY <1>3, <2>1, EmitMoves DEF Project
    <2>2. CASE UNCHANGED <<ev, task>>
        <3>1. PICK r : run' = [run EXCEPT ![t].receipt = r]
            BY <1>3 DEF Project
        <3>2. \A u \in Tasks : run'[u].settled = run[u].settled
            BY <1>0, <3>1 DEF RunType
        <3>3. ActiveOperations' = ActiveOperations
            BY <3>2 DEF ActiveOperations
        <3> QED BY <1>3, <2>2, <3>3, QuietMoves DEF Project
    <2> QED BY <1>3, <2>1, <2>2 DEF Project
<1>4. ASSUME NEW outcome \in {"PASS", "FAIL"}, Verify(t, outcome) PROVE Moves
    <2>1. CASE ev' = Emit(ev)
        BY <1>4, <2>1, EmitMoves DEF Verify
    <2>2. CASE UNCHANGED <<ev, task>>
        <3>1. PICK r : run' = [run EXCEPT ![t].ver = r]
            BY <1>4 DEF Verify
        <3>2. \A u \in Tasks : run'[u].settled = run[u].settled
            BY <1>0, <3>1 DEF RunType
        <3>3. ActiveOperations' = ActiveOperations
            BY <3>2 DEF ActiveOperations
        <3> QED BY <1>4, <2>2, <3>3, QuietMoves DEF Verify
    <2> QED BY <1>4, <2>1, <2>2 DEF Verify
<1> QED BY <1>1, <1>2, <1>3, <1>4 DEF Callback

LEMMA PeopleMove ==
    ASSUME PInv, People
    PROVE Moves
<1>1. ASSUME NEW p \in Approvers, Accept(p) PROVE Moves
    <2>1. CASE ev' = Emit(ev)
        BY <1>1, <2>1, EmitMoves DEF Accept
    <2>2. CASE ev' = Emit(Emit(Emit(ev)))
        BY <1>1, <2>2, EvThrice, WkStays DEF Accept, PInv, Moves
    <2> QED BY <1>1, <2>1, <2>2 DEF Accept
<1>2. ASSUME NEW p \in Approvers, Reject(p) PROVE Moves
    BY <1>2, EmitMoves DEF Reject
<1>3. ASSUME NEW c \in Controls, Open(c) \/ Resolve(c) PROVE Moves
    BY <1>3, EmitMoves DEF Open, Resolve
<1>4. ASSUME NEW t \in Tasks, StartTask(t) \/ SubmitTask(t) \/ RequestChanges(t) PROVE Moves
    BY <1>4, EmitMoves DEF StartTask, SubmitTask, RequestChanges, ByHand
<1> QED BY <1>1, <1>2, <1>3, <1>4 DEF People

LEMMA NextMoves ==
    ASSUME PInv, IInv, [ProcessNext]_processVars
    PROVE Moves
<1>1. CASE UNCHANGED processVars
    <2>1. Decide' = Decide
        BY <1>1, DecideStays DEF processVars
    <2> QED BY <1>1, <2>1, EvStays, WkStays DEF processVars, PInv, Moves
<1> QED BY <1>1, WorkerMoves, LapseMoves, CallbackMoves, PeopleMove DEF ProcessNext

-----------------------------------------------------------------------------
(* The rows beside the wake-ups *)

ProcOK ==
    /\ proc.status = "WAITING" <=> proc.wait # "NONE"
    /\ proc.status = "COMPLETED" <=> proc.phase = "TERMINAL"

(* A transition leaves a process that waits for nobody, and ends it only by *)
(* completing it.                                                           *)
LEMMA TransitionOK ==
    ASSUME IInv, NEW key, Transition(key)
    PROVE ProcOK'
<1>1. PICK m \in Matrix :
         /\ proc.wait = "NONE"
         /\ proc' = [proc EXCEPT !.phase = m.to, !.status = m.next, !.version = @ + 1]
    BY DEF Transition
<1>2. m.next # "WAITING" /\ (m.next = "COMPLETED" <=> m.to = "TERMINAL")
    BY DEF Matrix
<1>3. proc'.phase = m.to /\ proc'.status = m.next /\ proc'.wait = "NONE"
    BY <1>1 DEF IInv, ProcType
<1> QED BY <1>2, <1>3 DEF ProcOK

LEMMA ProcStep ==
    ASSUME IInv, ProcOK, [ProcessNext]_processVars
    PROVE ProcOK'
<1>1. CASE UNCHANGED proc
    BY <1>1 DEF ProcOK
<1>2. CASE \E key : Transition(key)
    BY <1>2, TransitionOK
<1>3. CASE \E c \in Controls : Open(c)
    <2>1. PICK c \in Controls : Open(c)
        BY <1>3
    <2>2. ~ProcessTerminal /\ proc' = HumanWait(c)
        BY <2>1 DEF Open
    <2>3. \/ proc' = proc
          \/ /\ proc'.status = "WAITING" /\ proc'.wait = WaitOf(c)
             /\ proc'.phase = proc.phase
        BY <2>2 DEF HumanWait, IInv, ProcType
    <2> QED BY <1>1, <2>2, <2>3 DEF ProcOK, WaitOf, ProcessTerminal
<1>4. ASSUME NEW w \in Runners, RunnerStep(w)
      PROVE UNCHANGED proc \/ \E key : Transition(key)
    BY <1>4 DEF RunnerStep, ClaimWakeUp, Snapshot, Reload, Record, Invalidate, ApplyNothing, Dispatch,
       EnterIntegration, ReopenWork, Assemble, ReadCurrent, Publish, FinishDecision, EmitStale,
       Complete, RetryWakeUp, RunnerVanishes
<1>5. ASSUME NEW t \in Tasks, Callback(t) PROVE UNCHANGED proc
    BY <1>5 DEF Callback, RunEnds, Settle, Project, Verify
<1>6. ASSUME People
      PROVE UNCHANGED proc \/ (\E key : Transition(key)) \/ \E c \in Controls : Open(c)
    BY <1>6 DEF People, StartTask, SubmitTask, RequestChanges, ByHand, Resolve, Accept, Reject
<1> QED BY <1>1, <1>2, <1>3, <1>4, <1>5, <1>6 DEF ProcessNext, Lapse, processVars

Counts ==
    /\ started \in Nat /\ faults \in Nat /\ moves \in Nat
    /\ ctl \in [Controls -> {"none", "OPEN", "resolved"}]
    /\ accepted \subseteq Approvers

LEMMA CountStep ==
    ASSUME Counts, [ProcessNext]_processVars
    PROVE Counts'
<1> USE DEF Counts
<1>1. ASSUME UNCHANGED <<ctl, accepted>>, started' \in {started, started + 1},
             faults' \in {faults, faults + 1}, moves' \in {moves, moves + 1}
      PROVE Counts'
    BY <1>1
<1>2. ASSUME NEW w \in Runners, RunnerStep(w) PROVE Counts'
    <2>1. CASE \E impacted \in SUBSET Tasks : Assemble(w, impacted)
        BY <2>1 DEF Assemble
    <2>2. CASE \E t \in Tasks : Dispatch(w, t)
        BY <2>2, <1>1 DEF Dispatch
    <2>3. CASE RetryWakeUp(w) \/ RunnerVanishes(w)
        BY <2>3, <1>1 DEF RetryWakeUp, RunnerVanishes, Fault
    <2> QED BY <1>1, <1>2, <2>1, <2>2, <2>3 DEF RunnerStep, ClaimWakeUp, Snapshot, Reload, Record,
            Invalidate, ApplyNothing, EnterIntegration, ReopenWork, ReadCurrent, Publish,
            FinishDecision, EmitStale, Complete
<1>3. ASSUME NEW n \in DOMAIN ev, Lapse(n) PROVE Counts'
    BY <1>1, <1>3 DEF Lapse, Fault
<1>4. ASSUME NEW t \in Tasks, Callback(t) PROVE Counts'
    BY <1>1, <1>4 DEF Callback, RunEnds, Settle, Project, Verify
<1>5. ASSUME People PROVE Counts'
    <2>1. CASE \E t \in Tasks : StartTask(t) \/ SubmitTask(t) \/ RequestChanges(t)
        BY <1>1, <2>1 DEF StartTask, SubmitTask, RequestChanges, ByHand, Move
    <2>2. CASE \E c \in Controls : Open(c) \/ Resolve(c)
        BY <2>2 DEF Open, Resolve, Move
    <2>3. CASE \E p \in Approvers : Accept(p) \/ Reject(p)
        BY <2>3 DEF Accept, Reject
    <2> QED BY <1>5, <2>1, <2>2, <2>3 DEF People
<1>6. CASE UNCHANGED processVars
    BY <1>1, <1>6 DEF processVars
<1> QED BY <1>2, <1>3, <1>4, <1>5, <1>6 DEF ProcessNext

TasksOK == \A t \in Tasks : TaskOK(t)

(* A task that is verified has the receipt of its run.                      *)
LEMMA TaskStep ==
    ASSUME IInv, TasksOK, [ProcessNext]_processVars
    PROVE TasksOK'
<1>0. task \in [Tasks -> TaskType] /\ run \in [Tasks -> RunType]
    BY DEF IInv
<1> USE DEF TasksOK
<1>1. CASE UNCHANGED <<task, run>>
    BY <1>1 DEF TaskOK
<1>2. ASSUME NEW w \in Runners, NEW t \in Tasks, Dispatch(w, t) PROVE TasksOK'
    <2>1. PICK x : x = [NoRun EXCEPT !.attempt = run[t].attempt + 1, !.state = "active",
                                     !.settled = FALSE]
        OBVIOUS
    <2>2. x.state = "active"
        BY <2>1 DEF NoRun
    <2>3. /\ task' = [task EXCEPT ![t] = [status |-> "in_progress", why |-> "none"]]
          /\ run' = [run EXCEPT ![t] = x]
        BY <1>2, <2>1 DEF Dispatch
    <2> QED BY <1>0, <2>2, <2>3 DEF TaskOK
<1>3. ASSUME NEW w \in Runners, NEW impacted \in SUBSET Tasks, Assemble(w, impacted)
      PROVE TasksOK'
    <2>1. /\ run' = run
          /\ task' = [t \in Tasks |->
                        IF t \in impacted
                        THEN [status |-> "changes_requested", why |-> "integration"]
                        ELSE task[t]]
        BY <1>3 DEF Assemble
    <2>2. \A t \in Tasks : Backed(t)
        BY <1>0, <1>3, PassedOutcome DEF Assemble, IInv
    <2> QED BY <2>1, <2>2 DEF TaskOK, Backed
<1>4. ASSUME NEW w \in Runners, RunnerStep(w),
             ~ \E t \in Tasks : Dispatch(w, t),
             ~ \E impacted \in SUBSET Tasks : Assemble(w, impacted)
      PROVE UNCHANGED <<task, run>>
    BY <1>4 DEF RunnerStep, ClaimWakeUp, Snapshot, Reload, Record, Invalidate, ApplyNothing,
       EnterIntegration, ReopenWork, ReadCurrent, Publish, FinishDecision, EmitStale, Complete,
       RetryWakeUp, RunnerVanishes
<1>5. ASSUME NEW t \in Tasks, Callback(t) PROVE TasksOK'
    <2>1. ASSUME NEW outcome \in {"completed", "failed"}, RunEnds(t, outcome) PROVE TasksOK'
        <3>1. task' = task /\ run[t].state = "active"
              /\ run' = [run EXCEPT ![t].state = outcome]
            BY <2>1 DEF RunEnds
        <3> QED BY <1>0, <3>1 DEF TaskOK, RunType
    <2>2. ASSUME Settle(t) PROVE TasksOK'
        <3>1. task' = task /\ run' = [run EXCEPT ![t].settled = TRUE]
            BY <2>2 DEF Settle
        <3>2. \A u \in Tasks : /\ run'[u].receipt = run[u].receipt
                               /\ run'[u].attempt = run[u].attempt
                               /\ run'[u].state = run[u].state
            BY <1>0, <3>1 DEF RunType
        <3> QED BY <3>1, <3>2 DEF TaskOK
    <2>3. ASSUME NEW valid \in BOOLEAN, Project(t, valid) PROVE TasksOK'
        <3>1. PICK r \in {"submitted", "refused"} : run' = [run EXCEPT ![t].receipt = r]
            BY <2>3 DEF Project
        <3>2. /\ run'[t].receipt = r
              /\ \A u \in Tasks : /\ u # t => run'[u] = run[u]
                                  /\ run'[u].attempt = run[u].attempt
                                  /\ run'[u].state = run[u].state
            BY <1>0, <3>1 DEF RunType
        <3>3. task' = task \/ \E x \in {[status |-> "submitted", why |-> "run"],
                                        [status |-> "changes_requested", why |-> "output"]} :
                                 task' = [task EXCEPT ![t] = x]
            BY <2>3 DEF Project
        <3>4. \A u \in Tasks :
                 \/ task'[u] = task[u]
                 \/ u = t /\ task'[u].status \in {"submitted", "changes_requested"}
            BY <1>0, <3>3
        <3> QED BY <3>2, <3>3, <3>4 DEF TaskOK
    <2>4. ASSUME NEW outcome \in {"PASS", "FAIL"}, Verify(t, outcome) PROVE TasksOK'
        <3>1. PICK v : run' = [run EXCEPT ![t].ver = v]
            BY <2>4 DEF Verify
        <3>2. \A u \in Tasks : /\ run'[u].receipt = run[u].receipt
                               /\ run'[u].attempt = run[u].attempt
                               /\ run'[u].state = run[u].state
            BY <1>0, <3>1 DEF RunType
        <3>3. run[t].receipt # "none"
            BY <2>4 DEF Verify
        <3>4. \/ task' = task
              \/ task' = [task EXCEPT ![t] =
                    [status |-> IF outcome = "PASS" THEN "verified" ELSE "changes_requested",
                     why |-> outcome]]
            BY <2>4 DEF Verify
        <3>5. \A u \in Tasks :
                 \/ task'[u] = task[u]
                 \/ /\ u = t /\ task'[u].status # "accepted"
                    /\ task'[u].status = "verified" => task'[u].why = "PASS"
            BY <1>0, <3>4
        <3> QED BY <3>2, <3>3, <3>5 DEF TaskOK
    <2> QED BY <1>5, <2>1, <2>2, <2>3, <2>4 DEF Callback
<1>6. ASSUME People PROVE TasksOK'
    <2>1. ASSUME NEW t \in Tasks, StartTask(t) \/ SubmitTask(t) \/ RequestChanges(t)
          PROVE TasksOK'
        <3>1. PICK s \in {"in_progress", "submitted", "changes_requested"} :
                 run' = run /\ task' = [task EXCEPT ![t] = [status |-> s, why |-> "none"]]
            BY <2>1 DEF StartTask, SubmitTask, RequestChanges, ByHand
        <3> QED BY <1>0, <3>1 DEF TaskOK
    <2>2. ASSUME NEW p \in Approvers, Reject(p) PROVE TasksOK'
        <3>1. /\ run' = run
              /\ task' = [t \in Tasks |->
                            IF task[t].status = "verified"
                            THEN [status |-> "changes_requested", why |-> "delivery"]
                            ELSE task[t]]
            BY <2>2 DEF Reject
        <3> QED BY <3>1 DEF TaskOK
    <2>3. CASE UNCHANGED <<task, run>>
        BY <1>1, <2>3
    <2> QED BY <1>6, <2>1, <2>2, <2>3 DEF People, Open, Resolve, Accept
<1> QED BY <1>1, <1>2, <1>3, <1>4, <1>5, <1>6 DEF ProcessNext, Lapse, processVars

-----------------------------------------------------------------------------
(* The invariant of the wake-ups, and what it says *)

LEMMA PInitially == ProcessInit => PInv
<1> SUFFICES ASSUME ProcessInit PROVE PInv
    OBVIOUS
<1>1. ev = <<NewEvent>> /\ ev \in Seq(EvType) /\ Len(ev) = 1 /\ ev[1] = NewEvent
    BY NewEventType DEF ProcessInit
<1>2. runners \in [Runners -> WkType] /\ \A w \in Runners : runners[w] = Idle
    BY IdleType DEF ProcessInit
<1>3. \A w \in Runners : WorkerOK(runners[w], ev, Decide)
    BY <1>2 DEF WorkerOK, Idle
<1>4. \A n \in 1..Len(ev) : RowOK(n, ev[n], Len(ev), Decide)
    BY <1>1, NewRowOK
<1>5. \A t \in Tasks : TaskOK(t)
    BY DEF ProcessInit, TaskOK, NoRun
<1>6. ev[Len(ev)].wake # "completed"
    BY <1>1 DEF NewEvent
<1>7. ProcOK /\ Counts
    BY DEF ProcessInit, ProcOK, Counts
<1> QED BY <1>1, <1>2, <1>3, <1>4, <1>5, <1>6, <1>7 DEF PInv, Types, ProcOK, Counts

LEMMA PInductive == PInv /\ IInv /\ [ProcessNext]_processVars => PInv'
<1> SUFFICES ASSUME PInv, IInv, [ProcessNext]_processVars PROVE PInv'
    OBVIOUS
<1>1. EvMoves /\ WkMoves
    BY NextMoves DEF Moves
<1>2. ProcOK' /\ Counts' /\ TasksOK'
    BY ProcStep, CountStep, TaskStep DEF PInv, Types, ProcOK, Counts, TasksOK
<1>3. ev' \in Seq(EvType) /\ Len(ev') > 0 /\ runners' \in [Runners -> WkType]
    BY <1>1 DEF EvMoves, WkMoves, PInv, Types
<1>4. Types'
    BY <1>2, <1>3 DEF Types, ProcOK, Counts
<1>5. \A n \in 1..Len(ev') : RowOK(n, ev'[n], Len(ev'), Decide')
    BY <1>1, RowsKept
<1>6. \A w \in Runners : WorkerOK(runners'[w], ev', Decide')
    BY <1>1 DEF WkMoves
<1>7. ev'[Len(ev')].wake = "completed" => Decide'.action = "WAIT"
    BY <1>1, LastKept
<1> QED BY <1>2, <1>4, <1>5, <1>6, <1>7 DEF PInv, TasksOK

LEMMA ProcessInvariant == ProcessSpec => [](IInv /\ PInv)
BY Initially, Inductive, PInitially, PInductive, PTL DEF ProcessSpec

(* Work is dispatched only on a decision that no event has overtaken, and   *)
(* every settlement is one: the task's last run is over and paid for.       *)
LEMMA DispatchAfterSettlement ==
    ASSUME PInv, IInv, NEW w \in Runners, NEW t \in Tasks, Dispatch(w, t),
           run[t].attempt > 0
    PROVE RunEnded(t) /\ run[t].settled /\ run[t].receipt # "none"
<1>1. PICK n : n = runners[w].n
    OBVIOUS
<1>2. /\ runners[w].pc = "apply" /\ ev[n].action = "DISPATCH_WORK" /\ ev[n].dec = "PENDING"
      /\ ev[n].based = Len(ev) /\ ev[n].work = {t}
      /\ Dispatchable(t) /\ run[t].state # "active"
    BY <1>1 DEF Dispatch, AtomicEffect
<1>3. RowOK(n, ev[n], Len(ev), Decide)
    BY <1>1, <1>2, WorkerFacts
<1>4. Decide.action = "DISPATCH_WORK" /\ Decide.work = {t}
    BY <1>2, <1>3 DEF RowOK, Agrees
<1>5. t \in ReadyWork
    BY <1>4, DispatchedWorkIsReady
<1>6. run[t].settled
    BY <1>5 DEF ReadyWork, ActiveOperations
<1>7. run[t] \in RunType /\ TaskOK(t)
    BY DEF IInv, PInv
<1> QED BY <1>2, <1>6, <1>7 DEF Dispatchable, TaskOK, RunEnded, RunType

LEMMA AttemptsStay ==
    ASSUME IInv, [ProcessNext]_processVars, NEW t \in Tasks, run'[t].attempt # run[t].attempt
    PROVE \E w \in Runners : Dispatch(w, t)
<1>0. run \in [Tasks -> RunType]
    BY DEF IInv
<1>1. ASSUME NEW w \in Runners, RunnerStep(w) PROVE \E v \in Runners : Dispatch(v, t)
    <2>1. PICK u \in Tasks : Dispatch(w, u)
        BY <1>1 DEF RunnerStep, ClaimWakeUp, Snapshot, Reload, Record, Invalidate, ApplyNothing,
           EnterIntegration, ReopenWork, Assemble, ReadCurrent, Publish, FinishDecision, EmitStale,
           Complete, RetryWakeUp, RunnerVanishes
    <2>2. u = t
        BY <1>0, <2>1 DEF Dispatch
    <2> QED BY <2>1, <2>2
<1>2. ASSUME NEW u \in Tasks, Callback(u) PROVE FALSE
    <2>1. CASE \E outcome \in {"completed", "failed"} : RunEnds(u, outcome)
        <3>1. PICK s : run' = [run EXCEPT ![u].state = s]
            BY <2>1 DEF RunEnds
        <3> QED BY <1>0, <3>1 DEF RunType
    <2>2. CASE Settle(u)
        <3>1. run' = [run EXCEPT ![u] = [run[u] EXCEPT !.settled = TRUE]]
            BY <2>2 DEF Settle
        <3>2. [run[u] EXCEPT !.settled = TRUE].attempt = run[u].attempt
            BY <1>0 DEF RunType
        <3> QED BY <1>0, <3>1, <3>2
    <2>3. CASE \E valid \in BOOLEAN : Project(u, valid)
        <3>1. PICK s : run' = [run EXCEPT ![u].receipt = s]
            BY <2>3 DEF Project
        <3> QED BY <1>0, <3>1 DEF RunType
    <2>4. CASE \E outcome \in {"PASS", "FAIL"} : Verify(u, outcome)
        <3>1. PICK s : run' = [run EXCEPT ![u].ver = s]
            BY <2>4 DEF Verify
        <3> QED BY <1>0, <3>1 DEF RunType
    <2> QED BY <1>2, <2>1, <2>2, <2>3, <2>4 DEF Callback
<1>3. ASSUME People PROVE FALSE
    BY <1>3 DEF People, StartTask, SubmitTask, RequestChanges, ByHand, Open, Resolve, Accept,
       Reject
<1> QED BY <1>1, <1>2, <1>3 DEF ProcessNext, Lapse, processVars

(* Two runs of a task are never paid for at once: a new one is dispatched   *)
(* only when the last has ended, was settled and has its receipt.           *)
THEOREM NoTwoRunsOfATask == ProcessSpec => RunsDoNotOverlap
<1>1. ASSUME PInv, IInv, [ProcessNext]_processVars
      PROVE [\A t \in Tasks :
                run[t].attempt > 0 /\ run'[t].attempt # run[t].attempt =>
                    RunEnded(t) /\ run[t].settled /\ run[t].receipt # "none"]_processVars
    BY <1>1, AttemptsStay, DispatchAfterSettlement
<1> QED BY <1>1, ProcessInvariant, PTL DEF RunsDoNotOverlap, ProcessSpec

(* For any number of workers, tasks, events and faults: once the wake-up of *)
(* the last event is completed nothing is left that the orchestrator would  *)
(* do; runs of a task do not overlap; and a completed project stays.        *)
THEOREM ProcessStaysConsistent == ProcessSpec => ProcessIsConsistent
<1>1. IInv /\ PInv => ProcessTypeOK
    BY DEF IInv, PInv, Types, ProcessTypeOK, ProcType, TaskType, RunType, EvType, WkType, Wakes
<1>2. PInv => NothingLeftToDo
    BY DEF PInv, NothingLeftToDo
<1> QED BY <1>1, <1>2, ProcessInvariant, NoTwoRunsOfATask, CompletionIsFinal, PTL
        DEF ProcessIsConsistent
=============================================================================
