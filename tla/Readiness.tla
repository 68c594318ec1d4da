------------------------------ MODULE Readiness ------------------------------
(***************************************************************************)
(* The readiness of the tasks of a project (project_process/readiness.py), *)
(* from the facts the persistent snapshot collects under the process lock. *)
(*                                                                         *)
(* The evaluation first walks the dependency graph depth first, looking    *)
(* for cycles, then decides the tasks one by one in the order of their     *)
(* ids; a task that is admitted uses up a run of the project and of its    *)
(* team, and slots of its capability, for those decided after it.  The     *)
(* adapter refuses a graph with a relation to a missing node, so no        *)
(* dependency of a task is unresolved here.                                *)
(***************************************************************************)
EXTENDS Naturals, Sequences, FiniteSets, Functions

CONSTANTS
    Works,          \* tasks of the graph, numbered in the order of their ids
    WorkTeam,       \* target_team_id of a task
    WorkSlots,      \* capacity slots the contract of a task asks for
    Pool,           \* the capacity record the directory matches to a task
    Snapshots       \* the facts an evaluation may start from

ASSUME ReadinessAssumption ==
    /\ Works \subseteq Nat /\ IsFiniteSet(Works)
    /\ WorkSlots \in [Works -> Nat \ {0}]
    /\ \A s \in Snapshots :
          /\ s.requires \subseteq Works \X Works
          /\ IsFiniteSet(s.runs) /\ IsFiniteSet(s.reservations)
          /\ {s.usage.active, s.policy.maxActive, s.policy.maxPerTeam} \subseteq Nat
          /\ \A w \in Works : s.slots[Pool[w]] \in Nat

VARIABLES
    facts,      \* the snapshot
    walk,       \* the search for cycles
    decided     \* the decisions so far: which tasks, and those admitted

readinessVars == <<facts, walk, decided>>

ReadinessInit ==
    /\ facts \in Snapshots
    /\ walk = [path |-> << >>, completed |-> {}, cycles |-> {}]
    /\ decided = [done |-> {}, ready |-> {}]

Least(S) == CHOOSE w \in S : \A u \in S : w <= u

-----------------------------------------------------------------------------
(* _find_dependency_cycles *)

\* The task-to-task depends_on edges; structural links are left out.
Requires(w) == {u \in Works : <<w, u>> \in facts.requires}

Frame(w) == [work |-> w, left |-> Requires(w)]
Top == walk.path[Len(walk.path)]
Below == SubSeq(walk.path, 1, Len(walk.path) - 1)
OnPath == {walk.path[i].work : i \in 1..Len(walk.path)}

\* The members of the cycle that an edge back to u closes.
CycleThrough(u) ==
    {walk.path[i].work : i \in {j \in 1..Len(walk.path) :
        \E k \in 1..j : walk.path[k].work = u}}

WalkFrom ==
    /\ walk.path = << >> /\ walk.completed # Works
    /\ walk' = [walk EXCEPT !.path = << Frame(Least(Works \ walk.completed)) >>]
    /\ UNCHANGED <<facts, decided>>

FollowEdge ==
    /\ walk.path # << >> /\ Top.left # {}
    /\ LET u == Least(Top.left)
           path == Append(Below, [Top EXCEPT !.left = @ \ {u}])
       IN walk' =
            CASE u \in walk.completed -> [walk EXCEPT !.path = path]
              [] u \in OnPath -> [walk EXCEPT !.path = path,
                                              !.cycles = @ \cup {CycleThrough(u)}]
              [] OTHER -> [walk EXCEPT !.path = Append(path, Frame(u))]
    /\ UNCHANGED <<facts, decided>>

\* (mutation) What lies below on the path counts as completed too.
CompletedWithPath == walk.completed \cup OnPath

CompletedNow == walk.completed \cup {Top.work}

LeaveWork ==
    /\ walk.path # << >> /\ Top.left = {}
    /\ walk' = [walk EXCEPT !.path = Below, !.completed = CompletedNow]
    /\ UNCHANGED <<facts, decided>>

WalkOver == walk.path = << >> /\ walk.completed = Works
OnCycle == UNION walk.cycles

-----------------------------------------------------------------------------
(* The facts of the persistent snapshot, as the evaluator combines them *)

\* _active_operations: live runs, and reservations without one.  What the
\* usage counts beyond them is an operation of no task and no team.
Operations == facts.runs \cup {r \in facts.reservations :
                                  \A o \in facts.runs : o.id # r.id}

Larger(m, n) == IF m < n THEN n ELSE m
OperationCount == Larger(Cardinality(Operations), facts.usage.active)
TeamOperations(t) == Cardinality({o \in Operations : o.team = t})
Operated(w) == \E o \in Operations : o.work = w

\* _execution_facts: every limit has to be unreached, that of replans and of
\* generated tasks as well.
BudgetAvailable ==
    /\ facts.usage.generated < facts.policy.maxGenerated
    /\ facts.usage.replans < facts.policy.maxReplans
    /\ facts.funded

\* A human control, a phase or a status that forbids dispatch.
ProcessDispatches ==
    /\ ~facts.controlOpen
    /\ facts.process.phase = "EXECUTION"
    /\ facts.process.status \in {"READY", "RUNNING"}

Succeeded(w) == facts.status[w] = "verified"

\* A prerequisite on a cycle with the task itself is not looked at again.
PrerequisitesMet(w) ==
    \A u \in Requires(w) : {w, u} \subseteq OnCycle \/ Succeeded(u)

\* What earlier decisions of this evaluation have used up.
AdmittedOfTeam(t) == {w \in decided.ready : WorkTeam[w] = t}
SlotsTaken(p) == FoldFunctionOnSet(+, 0, WorkSlots, {w \in decided.ready : Pool[w] = p})

\* The fact loader finds the contract accepted and its inputs available;
\* otherwise it raises, and the task has no contract fact.
ContractAccepted(w) == facts.contract[w] = "accepted"

\* The directory matches the requirement.  A record that only resembles it
\* explains why not, and admits nothing.
Matched(w) == facts.match[w] = "matched"

\* (mutation) The slots admitted before are not counted.
CapabilityFitsAlone(w) == Matched(w) /\ WorkSlots[w] <= facts.slots[Pool[w]]

\* A match, and enough slots left of its record.
CapabilityFits(w) ==
    /\ Matched(w)
    /\ SlotsTaken(Pool[w]) + WorkSlots[w] <= facts.slots[Pool[w]]

TeamFits(w) ==
    /\ WorkTeam[w] \in facts.agents
    /\ TeamOperations(WorkTeam[w]) + Cardinality(AdmittedOfTeam(WorkTeam[w]))
         < facts.policy.maxPerTeam

ProjectFits == OperationCount + Cardinality(decided.ready) < facts.policy.maxActive

\* No reason blocks the task.
Ready(w) ==
    /\ ProcessDispatches
    /\ facts.status[w] \in {"accepted", "changes_requested"}
    /\ ~Operated(w)
    /\ w \notin OnCycle /\ PrerequisitesMet(w)
    /\ ContractAccepted(w)
    /\ TeamFits(w) /\ CapabilityFits(w)
    /\ BudgetAvailable /\ ProjectFits

DecideWork ==
    /\ WalkOver /\ decided.done # Works
    /\ LET w == Least(Works \ decided.done)
       IN decided' = [done |-> decided.done \cup {w},
                      ready |-> decided.ready \cup {x \in {w} : Ready(x)}]
    /\ UNCHANGED <<facts, walk>>

ReadinessNext == WalkFrom \/ FollowEdge \/ LeaveWork \/ DecideWork

ReadinessSpec == ReadinessInit /\ [][ReadinessNext]_readinessVars

-----------------------------------------------------------------------------
\* Whatever set of tasks has what w requires, and with a task what that
\* requires, has u.
DependsTransitively(w, u) ==
    \A D \in SUBSET Works :
        Requires(w) \subseteq D /\ (\A v \in D : Requires(v) \subseteq D) => u \in D

(***************************************************************************)
(* The walk tells a cyclic graph from an acyclic one, whatever order it    *)
(* meets the tasks in, and accuses no task that does not depend on itself: *)
(* verification_ready and the DEPENDENCY_CYCLE reason rest on it           *)
(* (_find_dependency_cycles).  It need not report every task of a cycle.   *)
(***************************************************************************)
CyclesAreFound ==
    WalkOver =>
        /\ (walk.cycles = {}) <=> (\A w \in Works : ~DependsTransitively(w, w))
        /\ \A w \in OnCycle : DependsTransitively(w, w)

(***************************************************************************)
(* What one evaluation admits fits together: with the operations under way *)
(* it exceeds neither the project's nor a team's limit nor the slots of a  *)
(* capacity record, and no admitted task waits for another task            *)
(* (ProjectReadinessEvaluator.evaluate).                                   *)
(***************************************************************************)
AdmittedWorkFits ==
    decided.ready # {} =>
        /\ OperationCount + Cardinality(decided.ready) <= facts.policy.maxActive
        /\ \A w \in decided.ready :
             /\ TeamOperations(WorkTeam[w]) + Cardinality(AdmittedOfTeam(WorkTeam[w]))
                  <= facts.policy.maxPerTeam
             /\ SlotsTaken(Pool[w]) <= facts.slots[Pool[w]]
             /\ \A u \in Requires(w) : Succeeded(u)

\* What readiness reports can be acted upon: a cycle is never missed, and
\* the tasks it admits together fit the budget and the capacity together.
ReadinessIsSound == CyclesAreFound /\ AdmittedWorkFits
=============================================================================
