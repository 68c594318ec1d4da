------------------------------ MODULE MCWorkers ------------------------------
(* Two kinds of processes that take their work from tables under a lease,   *)
(* on small instances: the workers of an agent run, and the orchestrator of *)
(* a project with one task.  They share no state in these models, so a      *)
(* behaviour drives the one its focus names and the other stays as it       *)
(* starts.                                                                  *)
EXTENDS AgentRuns, ProjectProcess, TLC

VARIABLE focus

NoPrereq == [t \in Tasks |-> {}]

(* The workers of runs and the runners of the orchestrator are the same     *)
(* values.                                                                  *)
Interchangeable == Permutations(Workers)

WorkersInit == focus \in {"runs", "process"} /\ Init /\ ProcessInit

WorkersNext ==
    \/ focus = "runs" /\ Next /\ UNCHANGED <<processVars, focus>>
    \/ focus = "process" /\ ProcessNext /\ UNCHANGED <<vars, focus>>

WorkersSpec == WorkersInit /\ [][WorkersNext]_<<vars, processVars, focus>>
=============================================================================
