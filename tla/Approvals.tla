----------------------------- MODULE Approvals -----------------------------
(***************************************************************************)
(* Tool approvals and the executor that honours them:                      *)
(* approvals/repository.py with the service in front of it,                *)
(* ToolExecutor.prepare_dispatch and execute, and the idempotency store.   *)
(*                                                                         *)
(* An operation is a tool with its arguments under one execution id; the   *)
(* id of a managed approval is a digest of all of these, so an operation   *)
(* names its managed approval too.  Two operations may have the same       *)
(* content (requester, tool, arguments, label) under different execution   *)
(* ids, and two may share an execution id and its idempotency key when a   *)
(* model repeats a call id with other arguments.  A call that is refused   *)
(* (wrong role, expired, not permitted by policy) changes nothing and is   *)
(* no step here; expiry only adds such refusals.  The rows are locked      *)
(* (SELECT ... FOR UPDATE), as on PostgreSQL.                              *)
(***************************************************************************)
EXTENDS Integers, FiniteSets

CONSTANTS
    Ops,          \* operations
    Contents,     \* requester, tool, arguments and label of an operation
    ContentOf,    \* the content of an operation
    Requester,    \* the principal a content names
    Keys,         \* execution ids; each is its own idempotency key
    KeyOf,        \* the execution id of an operation
    HighRisk,     \* operations whose policy decision is REQUIRE_APPROVAL
    Manual,       \* further ids for approvals requested by hand
    People,       \* principals of the tenant
    Approvers,    \* those with the approver role, clearance and compartments
    Executors,    \* processes that run ToolExecutor
    Nil           \* nobody, nothing

ASSUME OpsAssumption ==
    /\ KeyOf \in [Ops -> Keys]
    /\ ContentOf \in [Ops -> Contents]
    /\ Requester \in [Contents -> People]
    /\ HighRisk \subseteq Ops
    /\ Approvers \subseteq People
    /\ Manual \cap Ops = {}
    /\ Nil \notin Ops \cup Contents \cup Keys \cup People

VARIABLES
    appr,     \* approval_requests
    seen,     \* the version of a record a person last fetched
    claimed,  \* idempotency_claims: the operation that claimed a key
    ex,       \* an executor's call
    effects   \* how often the handler of an operation was entered

approvalVars == <<appr, seen, claimed, ex, effects>>

-----------------------------------------------------------------------------
(* The state *)

Ids == HighRisk \cup Manual

ApprovalStatus == {"absent", "pending", "approved", "rejected", "revoked", "consumed"}

Record ==
    [status : ApprovalStatus, origin : {"manual", "tool_managed"},
     content : Contents \cup {Nil}, version : 0..3,
     decided_by : People \cup {Nil}, consumed_by : Keys \cup {Nil}]

(* pc: how far execute has come with op.                                    *)
Call ==
    [pc : {"idle", "prepared", "claimed"}, op : Ops \cup {Nil}]

NoRecord ==
    [status |-> "absent", origin |-> "manual", content |-> Nil, version |-> 0,
     decided_by |-> Nil, consumed_by |-> Nil]

IdleExecutor == [pc |-> "idle", op |-> Nil]

ApprovalsInit ==
    /\ appr = [a \in Ids |-> NoRecord]
    /\ seen = [p \in People |-> [a \in Ids |-> 0]]
    /\ claimed = [k \in Keys |-> Nil]
    /\ ex = [x \in Executors |-> IdleExecutor]
    /\ effects = [o \in Ops |-> 0]

-----------------------------------------------------------------------------
(* The approval table *)

(* create: the id is new; a record that exists with the same content is     *)
(* returned as it is, one with other content makes the call fail.           *)
Create(a, c, origin) ==
    /\ appr[a].status = "absent"
    /\ appr' = [appr EXCEPT ![a] =
          [status |-> "pending", origin |-> origin, content |-> c, version |-> 1,
           decided_by |-> Nil, consumed_by |-> Nil]]

(* ApprovalService.request: the requester chooses the id, perhaps one a     *)
(* managed approval would have.                                             *)
Request(a, c) ==
    /\ Create(a, c, "manual")
    /\ UNCHANGED <<seen, claimed, ex, effects>>

(* get, list_pending: a person learns the version a decision will name.     *)
Fetch(p, a) ==
    /\ appr[a].status # "absent" /\ seen[p][a] # appr[a].version
    /\ seen' = [seen EXCEPT ![p][a] = appr[a].version]
    /\ UNCHANGED <<appr, claimed, ex, effects>>

(* The record after a decision by p.                                        *)
Decided(r, status, p) ==
    [status |-> status, origin |-> r.origin, content |-> r.content,
     version |-> r.version + 1, decided_by |-> p, consumed_by |-> r.consumed_by]

(* decide                                                                   *)
Decide(p, a) ==
    /\ appr[a].status = "pending"
    /\ appr[a].version = seen[p][a]
    /\ p # Requester[appr[a].content]
    /\ p \in Approvers
    /\ \E status \in {"approved", "rejected"} :
          appr' = [appr EXCEPT ![a] = Decided(@, status, p)]
    /\ UNCHANGED <<seen, claimed, ex, effects>>

(* Mutant of Revoke: the status is not looked at.                           *)
RevokeAnyStatus(p, a) ==
    /\ appr[a].status # "absent"
    /\ appr[a].version = seen[p][a]
    /\ p = Requester[appr[a].content] \/ p \in Approvers
    /\ appr' = [appr EXCEPT ![a] = Decided(@, "revoked", p)]
    /\ UNCHANGED <<seen, claimed, ex, effects>>

(* Mutant of Revoke: the version is not compared.                           *)
RevokeAnyVersion(p, a) ==
    /\ appr[a].status \in {"pending", "approved"}
    /\ seen[p][a] # 0
    /\ p = Requester[appr[a].content] \/ p \in Approvers
    /\ appr' = [appr EXCEPT ![a] = Decided(@, "revoked", p)]
    /\ UNCHANGED <<seen, claimed, ex, effects>>

(* revoke                                                                   *)
Revoke(p, a) ==
    /\ appr[a].status \in {"pending", "approved"}
    /\ appr[a].version = seen[p][a]
    /\ p = Requester[appr[a].content] \/ p \in Approvers
    /\ appr' = [appr EXCEPT ![a] = Decided(@, "revoked", p)]
    /\ UNCHANGED <<seen, claimed, ex, effects>>

(* Mutant of Consumable: approvals requested by hand count too.             *)
ConsumableAnyOrigin(a, o) ==
    /\ appr[a].content = ContentOf[o]
    /\ \/ appr[a].status = "approved"
       \/ appr[a].status = "consumed" /\ appr[a].consumed_by = KeyOf[o]

(* consume accepts: a tool-managed approval of this content, not used yet   *)
(* or used by this very execution.  That the approval was asked for by the  *)
(* same execution is not looked at.                                         *)
Consumable(a, o) ==
    /\ appr[a].origin = "tool_managed"
    /\ appr[a].content = ContentOf[o]
    /\ \/ appr[a].status = "approved"
       \/ appr[a].status = "consumed" /\ appr[a].consumed_by = KeyOf[o]

Consumed(r, k) ==
    IF r.status = "consumed" THEN r
    ELSE [status |-> "consumed", origin |-> r.origin, content |-> r.content,
          version |-> r.version + 1, decided_by |-> r.decided_by, consumed_by |-> k]

-----------------------------------------------------------------------------
(* The executor *)

(* prepare_dispatch without an approval id asks for a managed approval and  *)
(* stops; a second attempt changes nothing, whatever has become of it.      *)
RequestForTool(x, o) ==
    /\ ex[x].pc = "idle" /\ o \in HighRisk
    /\ Create(o, ContentOf[o], "tool_managed")
    /\ UNCHANGED <<seen, claimed, ex, effects>>

(* prepare_dispatch permits the operation: at once, or by consuming the     *)
(* approval the request names.                                              *)
Prepare(x, o, a) ==
    /\ ex[x].pc = "idle"
    /\ \/ o \notin HighRisk /\ UNCHANGED appr
       \/ /\ o \in HighRisk /\ Consumable(a, o)
          /\ appr' = [appr EXCEPT ![a] = Consumed(@, KeyOf[o])]
    /\ ex' = [ex EXCEPT ![x] = [pc |-> "prepared", op |-> o]]
    /\ UNCHANGED <<seen, claimed, effects>>

(* Mutant of ClaimKey: the claim is not looked at.                          *)
ClaimKeyAgain(x) ==
    /\ ex[x].pc = "prepared"
    /\ claimed' = [claimed EXCEPT ![KeyOf[ex[x].op]] = ex[x].op]
    /\ ex' = [ex EXCEPT ![x].pc = "claimed"]
    /\ UNCHANGED <<appr, seen, effects>>

(* idempotency.claim: the first claim of the key goes on, any other ends as *)
(* a suppressed duplicate or as a conflict.                                 *)
ClaimKey(x) ==
    /\ ex[x].pc = "prepared"
    /\ \/ /\ claimed[KeyOf[ex[x].op]] = Nil
          /\ claimed' = [claimed EXCEPT ![KeyOf[ex[x].op]] = ex[x].op]
          /\ ex' = [ex EXCEPT ![x].pc = "claimed"]
       \/ /\ claimed[KeyOf[ex[x].op]] # Nil
          /\ ex' = [ex EXCEPT ![x] = IdleExecutor]
          /\ UNCHANGED claimed
    /\ UNCHANGED <<appr, seen, effects>>

(* The handler runs; it may return, time out or raise.                      *)
RunHandler(x) ==
    /\ ex[x].pc = "claimed"
    /\ effects' = [effects EXCEPT ![ex[x].op] = @ + 1]
    /\ ex' = [ex EXCEPT ![x] = IdleExecutor]
    /\ UNCHANGED <<appr, seen, claimed>>

(* The process dies between two of these steps.                             *)
ExecutorVanishes(x) ==
    /\ ex[x].pc # "idle"
    /\ ex' = [ex EXCEPT ![x] = IdleExecutor]
    /\ UNCHANGED <<appr, seen, claimed, effects>>

-----------------------------------------------------------------------------

PersonStep(p, a) == Fetch(p, a) \/ Decide(p, a) \/ Revoke(p, a)

ExecutorStep(x) ==
    \/ \E o \in Ops : RequestForTool(x, o)
    \/ \E o \in Ops, a \in Ids : Prepare(x, o, a)
    \/ ClaimKey(x)
    \/ RunHandler(x)
    \/ ExecutorVanishes(x)

ApprovalsNext ==
    \/ \E a \in Ids, c \in Contents : Request(a, c)
    \/ \E p \in People, a \in Ids : PersonStep(p, a)
    \/ \E x \in Executors : ExecutorStep(x)

ApprovalsSpec == ApprovalsInit /\ [][ApprovalsNext]_approvalVars

-----------------------------------------------------------------------------
(* Properties *)

(* Every variable has its type.                                             *)
ApprovalsTypeOK ==
    /\ appr \in [Ids -> Record]
    /\ seen \in [People -> [Ids -> 0..3]]
    /\ claimed \in [Keys -> Ops \cup {Nil}]
    /\ ex \in [Executors -> Call]
    /\ effects \in [Ops -> Nat]

(* The content of o was approved by somebody who did not ask for it, and    *)
(* its execution has used that approval up.                                 *)
Approved(o) ==
    \E a \in Ids :
        /\ appr[a].origin = "tool_managed" /\ appr[a].content = ContentOf[o]
        /\ appr[a].status = "consumed" /\ appr[a].consumed_by = KeyOf[o]
        /\ appr[a].decided_by \in Approvers \ {Requester[ContentOf[o]]}

(* A high-risk handler only ever ran under a managed approval of exactly    *)
(* its content, granted by an approver who did not ask for it, and used up  *)
(* by its own execution, so never for two; however requests by hand,        *)
(* decisions, revocations, crashes and repeated calls interleave            *)
(* (prepare_dispatch, decide, consume).                                     *)
EffectsAreApproved == \A o \in HighRisk : effects[o] > 0 => Approved(o)

(* The handlers of one execution id run at most once in all, over every     *)
(* executor, retry and change of arguments (execute, idempotency.claim).    *)
AtMostOnce ==
    \A o, q \in Ops : KeyOf[o] = KeyOf[q] /\ effects[o] > 0 =>
        effects[o] = 1 /\ (q # o => effects[q] = 0)

(* An approval that was rejected, revoked or used up stays so, and whoever  *)
(* decides or revokes one had seen the record as it was (expected_version). *)
DecisionsStand ==
    [][\A a \in Ids :
          /\ appr[a].status \in {"rejected", "revoked", "consumed"} => appr'[a] = appr[a]
          /\ appr'[a].decided_by # appr[a].decided_by =>
                seen[appr'[a].decided_by][a] = appr[a].version]_approvalVars
=============================================================================
