------------------------------ MODULE MCQueues ------------------------------
(* The two queues that hand work over through the database, on small        *)
(* instances: the execution task queue, and the outbox and inbox of the     *)
(* collaboration events.  They share no state, so a behaviour drives the    *)
(* one its focus names and the other stays empty.                           *)
EXTENDS TaskQueue, Transport

VARIABLE focus

QueuesInit == focus \in {"tasks", "events"} /\ Init /\ TransportInit

QueuesNext ==
    \/ focus = "tasks" /\ Next /\ UNCHANGED <<focus, transportVars>>
    \/ focus = "events" /\ TransportNext /\ UNCHANGED <<focus, vars>>

QueuesSpec ==
    /\ QueuesInit /\ [][QueuesNext]_<<vars, transportVars, focus>>
    /\ Polling /\ WF_vars(RecoverExpired)
    /\ TransportFairness
=============================================================================
