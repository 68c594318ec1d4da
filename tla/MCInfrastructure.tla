-------------------------- MODULE MCInfrastructure --------------------------
(* The tool jobs of the agents and the services under them, on small        *)
(* instances: the audit log, the model gateway, retention, context          *)
(* assembly, the identity of workers, approvals and connectors.  They share *)
(* no state in these models, so a behaviour drives the one its focus names, *)
(* and the others stay as they start.                                       *)
EXTENDS ToolJobs, AuditLog, Gateway, Retention, ContextAssembly, WorkerIdentity,
        Approvals, Connectors, TLC

CONSTANTS
    Focuses,    \* what this run drives
    send, sendAgain, read, e1, e2, mail, page, alice

VARIABLE focus

(* Three providers, one request at a time each; the third is beyond the     *)
(* cost limit.                                                              *)
MCPreference == <<"p", "q", "r">>

MCSlots == [p \in {"p", "q", "r"} |-> 1]

(* The third target is kept past the policy's maximum by a commitment.      *)
MCCommitted == [t \in Targets |-> IF t = 3 THEN 9 ELSE 3]

(* send and sendAgain have the same content under two execution ids, read   *)
(* repeats the call id of send with other content and needs no approval.    *)
MCKeyOf == [o \in Ops |-> IF o = sendAgain THEN e2 ELSE e1]

MCContentOf == [o \in Ops |-> IF o = read THEN page ELSE mail]

MCRequester == [c \in Contents |-> alice]

(* Two jobs of one key and different bodies, the first of which may be      *)
(* executed twice, and a job that reads.                                    *)
MCCallKey == [c \in ConnectorCalls |-> IF c = "checks" THEN "k2" ELSE "k1"]

MCCallBody == [c \in ConnectorCalls |-> IF c = "other" THEN "y" ELSE "x"]

MCJobTries == [c \in ConnectorCalls |-> IF c = "issue" THEN 2 ELSE 1]

InForce == <<[action |-> "activate", status |-> "active", at |-> "a1",
              by |-> "both", reviewer |-> "rev"]>>

Interchangeable == Permutations(Executors)

(* A context is assembled from every mix of items, and the provider may     *)
(* start with either key; where another service is driven one start is      *)
(* enough.                                                                  *)
OneContext ==
    /\ \A i \in ContextItems : offered[i] = [visible |-> "yes", size |-> Min(ItemSizes)]
    /\ talk = Min(TalkSizes)

(* Where calls are driven and not reviews, one revision is in force.        *)
ConnectorsStart ==
    IF focus \in {"writes", "reads"} THEN CallsInit /\ revisions = InForce ELSE ConnectorsInit

InfrastructureInit ==
    /\ focus \in Focuses
    /\ AuditInit /\ GatewayInit /\ RetentionInit /\ ContextInit /\ WorkerIdentityInit
    /\ ApprovalsInit /\ ConnectorsStart /\ Init
    /\ focus # "context" => OneContext
    /\ published = {CHOOSE k \in SigningKeyIds : TRUE}

(* Workers' calls race with the rotation of keys, the owner's calls with    *)
(* changes of the directory.                                                *)
Resting(C) == \A c \in C : identity'[c] = NewIdentityCall

(* Two jobs that write; a job that reads; or one job with one attempt at a  *)
(* time while revisions are proposed and reviewed.                          *)
ConnectorFocus ==
    \/ focus = "writes" /\ CallsNext /\ remote'["checks"] = NewRemote
    \/ focus = "reads" /\ CallsNext
       /\ \A c \in ConnectorCalls \ ReadCalls : remote'[c] = NewRemote
    \/ focus = "connectors" /\ ConnectorsNext /\ remote'["issue"].step # "backoff"
       /\ \A c \in ConnectorCalls \ {"issue"} : remote'[c] = NewRemote

(* Executions that share a key, with one approval; or executions that share *)
(* their content, with two.                                                 *)
ApprovalFocus ==
    \/ focus = "keys" /\ ApprovalsNext /\ appr'[sendAgain] = NoRecord
    \/ focus = "approvals" /\ ApprovalsNext
       /\ \A x \in Executors : ex'[x].op # read

ServicesNext ==
    \/ /\ focus = "audit" /\ AuditNext
       /\ UNCHANGED <<gatewayVars, retentionVars, contextVars, workerIdentityVars,
                      approvalVars, connectorVars>>
    \/ /\ focus = "gateway" /\ GatewayNext
       /\ UNCHANGED <<auditVars, retentionVars, contextVars, workerIdentityVars,
                      approvalVars, connectorVars>>
    \/ /\ focus = "retention" /\ RetentionNext
       /\ UNCHANGED <<auditVars, gatewayVars, contextVars, workerIdentityVars,
                      approvalVars, connectorVars>>
    \/ /\ focus = "context" /\ ContextNext
       /\ UNCHANGED <<auditVars, gatewayVars, retentionVars, workerIdentityVars,
                      approvalVars, connectorVars>>
    \/ /\ focus = "worker" /\ directory' = directory
       /\ WorkerIdentityNext /\ Resting(OwnerCalls)
       /\ UNCHANGED <<auditVars, gatewayVars, retentionVars, contextVars,
                      approvalVars, connectorVars>>
    \/ /\ focus = "owner" /\ published' = published
       /\ WorkerIdentityNext /\ Resting(WorkerCalls) /\ instant' <= 1
       /\ UNCHANGED <<auditVars, gatewayVars, retentionVars, contextVars,
                      approvalVars, connectorVars>>
    \/ /\ ApprovalFocus
       /\ UNCHANGED <<auditVars, gatewayVars, retentionVars, contextVars, workerIdentityVars,
                      connectorVars>>
    \/ /\ ConnectorFocus
       /\ UNCHANGED <<auditVars, gatewayVars, retentionVars, contextVars,
                      workerIdentityVars, approvalVars>>

InfrastructureNext ==
    \/ ServicesNext /\ UNCHANGED <<vars, focus>>
    \/ focus = "jobs" /\ Next
       /\ UNCHANGED <<auditVars, gatewayVars, retentionVars, contextVars, workerIdentityVars,
                      approvalVars,
                      connectorVars, focus>>

InfrastructureSpec ==
    /\ InfrastructureInit
    /\ [][InfrastructureNext]_<<auditVars, gatewayVars, retentionVars, contextVars,
                                workerIdentityVars, approvalVars, connectorVars, vars, focus>>
=============================================================================
