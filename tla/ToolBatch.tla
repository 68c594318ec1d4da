----------------------------- MODULE ToolBatch -----------------------------
(***************************************************************************)
(* What the tool layer promises an agent run: it parks with a batch of     *)
(* tool calls and comes back once, with an answer to every call of the     *)
(* batch, and no answer ever changes or is given again.  Jobs, leases,     *)
(* attempts and specialists do not appear here; ToolJobs implements this.  *)
(***************************************************************************)

CONSTANTS
    Runs,      \* agent runs
    Calls      \* tool call ids a model may use within a run

VARIABLES
    phase,     \* "working" or "awaiting_tool"
    waiting,   \* calls of the batch the run waits for
    answer     \* what the conversation says about each call

vars == <<phase, waiting, answer>>

Answer == {"succeeded", "failed"}

Init ==
    /\ phase = [r \in Runs |-> "working"]
    /\ waiting = [r \in Runs |-> {}]
    /\ answer = [r \in Runs |-> [c \in Calls |-> "none"]]

(* The run parks with the calls in C.                                      *)
Dispatch(r, C) ==
    /\ phase[r] = "working" /\ C # {}
    /\ phase' = [phase EXCEPT ![r] = "awaiting_tool"]
    /\ waiting' = [waiting EXCEPT ![r] = C]
    /\ UNCHANGED answer

(* The whole batch comes back at once.                                     *)
Return(r) ==
    /\ phase[r] = "awaiting_tool"
    /\ \A c \in waiting[r] : answer[r][c] = "none"
    /\ phase' = [phase EXCEPT ![r] = "working"]
    /\ waiting' = [waiting EXCEPT ![r] = {}]
    /\ \E a \in [waiting[r] -> Answer] :
          answer' = [answer EXCEPT ![r] =
                        [c \in Calls |-> IF c \in waiting[r] THEN a[c] ELSE @[c]]]

Next == \E r \in Runs : Return(r) \/ \E C \in SUBSET Calls : Dispatch(r, C)

Spec == Init /\ [][Next]_vars
=============================================================================
