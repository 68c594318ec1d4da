------------------------------ MODULE Retention ------------------------------
(***************************************************************************)
(* Retention governance (retention/governance.py): a batch of storage      *)
(* targets is decided against a policy and, unless it is a dry run, handed *)
(* target by target to an external storage executor.                       *)
(*                                                                         *)
(* The coordinator remembers in memory the fingerprint under which a batch *)
(* first ran, which covers the legal holds it was given, and the receipts  *)
(* it has seen.  The executor may fail, or act and lose its answer; a run  *)
(* goes on with the next target and is repeated later.  The executor acts  *)
(* once for an idempotency key, as its protocol demands; the key is        *)
(* derived from the fingerprint and the target.  Durations are days after  *)
(* creation.                                                               *)
(***************************************************************************)
EXTENDS Naturals, FiniteSets

CONSTANTS
    RetentionBatches,
    DryRuns,            \* the batches that only plan
    Targets,            \* 1..n, in the order of their references
    Committed,          \* committed_retain_until of a target
    Ruled,              \* the targets an exact rule of the policy matches
    MinimumDays, MaximumDays, AsOf,
    LifeLimit           \* bound: lives of the coordinator

ASSUME RetentionAssumption ==
    /\ DryRuns \subseteq RetentionBatches /\ Ruled \subseteq Targets
    /\ Committed \in [Targets -> Nat]
    /\ MinimumDays \in Nat /\ MaximumDays \in Nat /\ MinimumDays <= MaximumDays

VARIABLES
    legalHolds,     \* the targets under an active hold, as the caller knows
    fingerprints,   \* _fingerprints: the holds a batch first ran with
    receipts,       \* _receipts: the targets of a batch acted on
    batchRun,       \* the run under way
    storage,        \* the executor's ledger: one entry per action
    life            \* restarts of the coordinator

retentionVars ==
    <<legalHolds, fingerprints, receipts, batchRun, storage, life>>

NoFingerprint == [seen |-> FALSE, holds |-> {}]
NoRun == [batch |-> "none", holds |-> {}, left |-> {}]

RetentionInit ==
    /\ legalHolds = {}
    /\ fingerprints = [b \in RetentionBatches |-> NoFingerprint]
    /\ receipts = {}
    /\ batchRun = NoRun
    /\ storage = {}
    /\ life = 1

\* decide.  A commitment above the policy's maximum is preserved.
Decision(t, holds) ==
    CASE t \notin Ruled                 -> "deny"
      [] Committed[t] < MinimumDays     -> "deny"
      [] t \in holds                    -> "retain"
      [] Committed[t] > MaximumDays     -> "retain"
      [] AsOf < Committed[t]            -> "retain"
      [] OTHER                          -> "expire"

\* (mutation) A batch may run again with other holds.
SameInputIgnored(batch, holds) == TRUE

\* The batch has not run yet, or ran with this very input.
SameInput(batch, holds) ==
    \/ ~fingerprints[batch].seen
    \/ fingerprints[batch].holds = holds

StartRun(batch) ==
    /\ batchRun = NoRun
    /\ SameInput(batch, legalHolds)
    /\ fingerprints' = [fingerprints EXCEPT ![batch] =
          [seen |-> TRUE, holds |-> legalHolds]]
    /\ batchRun' = [batch |-> batch, holds |-> legalHolds, left |-> Targets]
    /\ UNCHANGED <<legalHolds, receipts, storage, life>>

NextTarget == CHOOSE t \in batchRun.left :
                  \A u \in batchRun.left : t <= u

\* Whether the target at hand is only reported: a dry run, a target to keep,
\* or one this coordinator holds a receipt for.
OnlyReported ==
    \/ batchRun.batch \in DryRuns
    \/ Decision(NextTarget, batchRun.holds) # "expire"
    \/ <<batchRun.batch, NextTarget>> \in receipts

Advance == batchRun' = [batchRun EXCEPT !.left = @ \ {NextTarget}]

ReportTarget ==
    /\ batchRun.left # {} /\ OnlyReported
    /\ Advance
    /\ UNCHANGED <<legalHolds, fingerprints, receipts, storage, life>>

\* The external executor: an action it has performed under the same key is
\* not performed again, its receipt is returned.
Perform ==
    LET key == [batch |-> batchRun.batch, holds |-> batchRun.holds,
                target |-> NextTarget]
    IN storage' = IF \E e \in storage : e.key = key THEN storage
                  ELSE storage \cup {[key |-> key, life |-> life]}

ExecuteTarget ==
    /\ batchRun.left # {} /\ ~OnlyReported
    /\ \/ Perform /\ receipts' = receipts \cup {<<batchRun.batch, NextTarget>>}
       \/ Perform /\ UNCHANGED receipts         \* the answer is lost
       \/ UNCHANGED <<storage, receipts>>       \* the executor fails
    /\ Advance
    /\ UNCHANGED <<legalHolds, fingerprints, life>>

EndRun ==
    /\ batchRun # NoRun /\ batchRun.left = {}
    /\ batchRun' = NoRun
    /\ UNCHANGED <<legalHolds, fingerprints, receipts, storage, life>>

ChangeHold(t) ==
    /\ legalHolds' = IF t \in legalHolds THEN legalHolds \ {t}
                                         ELSE legalHolds \cup {t}
    /\ UNCHANGED <<fingerprints, receipts, batchRun, storage, life>>

\* The process ends, and with it everything the coordinator remembers.
RestartCoordinator ==
    /\ life < LifeLimit
    /\ life' = life + 1
    /\ fingerprints' = [b \in RetentionBatches |-> NoFingerprint]
    /\ receipts' = {}
    /\ batchRun' = NoRun
    /\ UNCHANGED <<legalHolds, storage>>

RetentionNext ==
    \/ \E b \in RetentionBatches : StartRun(b)
    \/ ReportTarget \/ ExecuteTarget \/ EndRun
    \/ \E t \in Targets : ChangeHold(t)
    \/ RestartCoordinator

RetentionSpec == RetentionInit /\ [][RetentionNext]_retentionVars

(***************************************************************************)
(* In one life of the coordinator a batch acts on a target at most once,   *)
(* however often an answer of the executor is lost, a run is repeated or   *)
(* the legal holds change in between (governance.py, run).                 *)
(***************************************************************************)
BatchActsOnce ==
    \A d, e \in storage :
        (d.key.batch = e.key.batch /\ d.key.target = e.key.target
         /\ d.life = e.life) => d = e
=============================================================================
