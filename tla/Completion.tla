----------------------------- MODULE Completion -----------------------------
(***************************************************************************)
(* The completion contract of a project and the acceptance of its          *)
(* deliveries (delivery/service.py, completion.py, completion_facts.py,    *)
(* manifest.py, delivery/integration.py).                                  *)
(*                                                                         *)
(* The administrators of the owning team propose and approve a contract    *)
(* that says who has to accept; every integration that passes makes a      *)
(* delivery; each of those people decides once on it, and the last         *)
(* acceptance completes the project.  A call locks the row of the process, *)
(* so a call is one step.  It carries the versions its caller has seen     *)
(* (`shown', what list_deliveries returned); a fact such as a proposal or  *)
(* an acceptance moves the event sequence of the process and not its       *)
(* version.                                                                *)
(*                                                                         *)
(* What the evaluator checks apart from the acceptances is one of three    *)
(* values: the artifacts and the integration are as they were and all else *)
(* is "met", all else is "unmet" (a risk, a gate, a requirement without    *)
(* tasks), or the evidence is "stale".  ProjectProcess has the phases      *)
(* before and the tasks a rejection sends back.                            *)
(***************************************************************************)
EXTENDS Naturals, Sequences

CONSTANTS
    Deciders,       \* accounts of the teams in the project
    OwnerAdmins,    \* those who administer the owning team
    RootGoals,      \* approved goals of the work graph
    NoGoal,
    ContractBound,  \* bound: completion contracts
    DeliveryBound   \* bound: deliveries

ASSUME CompletionAssumption ==
    /\ OwnerAdmins \subseteq Deciders /\ NoGoal \notin RootGoals
    /\ {ContractBound, DeliveryBound} \subseteq Nat

VARIABLES
    stage,      \* the phase of the process and its version
    rootGoal,   \* root_goal_id of the process
    terms,      \* project_completion_contracts, by version
    deliveries, \* project_deliveries with project_delivery_approvals, in order
    enabled,    \* the accounts that are enabled and in the project
    evidence,   \* see above
    shown       \* the versions an account has last seen

completionVars == <<stage, rootGoal, terms, deliveries, enabled, evidence, shown>>

Undecided == [what |-> "none", under |-> 0]

CompletionInit ==
    /\ stage = [phase |-> "work", version |-> 1]
    /\ rootGoal = NoGoal
    /\ terms = <<>>
    /\ deliveries = <<>>
    /\ enabled = Deciders
    /\ evidence = "met"
    /\ shown = [p \in Deciders |-> [process |-> 0, terms |-> 0, delivery |-> 0]]

-----------------------------------------------------------------------------
(* Reading *)

Latest == Len(deliveries)

DeliveryVersion == IF deliveries = <<>> THEN 0 ELSE deliveries[Latest].version

(* list_deliveries *)
Show(p) ==
    /\ p \in enabled
    /\ shown' = [shown EXCEPT ![p] = [process |-> stage.version, terms |-> Len(terms),
                                      delivery |-> DeliveryVersion]]
    /\ UNCHANGED <<stage, rootGoal, terms, deliveries, enabled, evidence>>

(* _mutable *)
Mutable(p) == stage.phase # "TERMINAL" /\ shown[p].process = stage.version

(* _goal: the process is bound to no other goal.                            *)
MayBind(g) == rootGoal \in {NoGoal, g}

-----------------------------------------------------------------------------
(* The contract *)

ProposeContract(p, required, g) ==
    /\ p \in OwnerAdmins \cap enabled /\ Mutable(p) /\ MayBind(g)
    /\ shown[p].terms = Len(terms) /\ Len(terms) < ContractBound
    /\ required \subseteq enabled
    /\ terms' = Append(terms, [status |-> "DRAFT", required |-> required, goal |-> g])
    /\ UNCHANGED <<stage, rootGoal, deliveries, enabled, evidence, shown>>

Decided(d) == \E p \in Deciders : deliveries[d].decision[p] # Undecided

(* Mutant of Pinned: only an accepted delivery pins its contract.           *)
PinnedWhenAccepted == \E d \in DOMAIN deliveries : deliveries[d].status = "ACCEPTED"

(* Somebody has decided on a delivery that still stands.                    *)
Pinned ==
    \E d \in DOMAIN deliveries : deliveries[d].status \in {"READY", "ACCEPTED"} /\ Decided(d)

(* Only the newest contract; approving one again is a replay or a conflict. *)
ApproveContract(p) ==
    LET c == Len(terms) IN
    /\ p \in OwnerAdmins \cap enabled /\ Mutable(p)
    /\ c > 0 /\ terms[c].status = "DRAFT" /\ ~Pinned
    /\ MayBind(terms[c].goal) /\ terms[c].required \subseteq enabled
    /\ rootGoal' = terms[c].goal
    /\ terms' = [terms EXCEPT ![c].status = "APPROVED"]
    /\ UNCHANGED <<stage, deliveries, enabled, evidence, shown>>

Approved == {c \in DOMAIN terms : terms[c].status = "APPROVED"}

(* _approved_contract *)
InEffect(c) == c \in Approved /\ \A b \in Approved : b <= c

-----------------------------------------------------------------------------
(* Deliveries *)

Moved(phase) == [phase |-> phase, version |-> stage.version + 1]

(* IntegrationService.execute passes; create_delivery_manifest.             *)
Deliver ==
    /\ stage.phase = "work" /\ Latest < DeliveryBound
    /\ deliveries' = Append(deliveries, [status |-> "READY", version |-> DeliveryVersion + 1,
                                         pin |-> 0, decision |-> [p \in Deciders |-> Undecided]])
    /\ stage' = Moved("DELIVERY")
    /\ evidence' = "met"
    /\ UNCHANGED <<rootGoal, terms, enabled, shown>>

(* What decide asks before it writes, with the contract it finds.           *)
MayDecide(p, c) ==
    /\ p \in enabled /\ Mutable(p)
    /\ stage.phase = "DELIVERY" /\ deliveries[Latest].status = "READY"
    /\ deliveries[Latest].decision[p] = Undecided
    /\ shown[p].delivery = deliveries[Latest].version
    /\ InEffect(c) /\ rootGoal = terms[c].goal
    /\ p \in terms[c].required
    /\ deliveries[Latest].pin \in {0, c}

Decision(p, c, what, status) ==
    deliveries' = [deliveries EXCEPT ![Latest] =
                      [status |-> status, version |-> @.version + 1, pin |-> c,
                       decision |-> [@.decision EXCEPT ![p] = [what |-> what, under |-> c]]]]

(* Mutant of Unanimous: one acceptance is enough.                           *)
UnanimousAtOnce(p, c) == TRUE

(* Everyone the contract requires has accepted, with this acceptance.       *)
Unanimous(p, c) ==
    \A q \in terms[c].required \ {p} : deliveries[Latest].decision[q].what = "ACCEPT"

(* Mutant of Conclusive: the accounts are not looked at again.              *)
ConclusiveOnce(c) == evidence = "met"

(* ProjectCompletionEvaluator.evaluate on the facts of load_completion_facts:*)
(* a required account must still be enabled for its acceptance to count.     *)
Conclusive(c) == evidence = "met" /\ terms[c].required \subseteq enabled

(* An acceptance that is not the last leaves the delivery READY; the last   *)
(* one is rolled back if the evaluation does not pass.                      *)
AcceptDelivery(p) ==
    /\ evidence # "stale"
    /\ \E c \in DOMAIN terms :
          /\ MayDecide(p, c)
          /\ IF Unanimous(p, c)
             THEN /\ Conclusive(c)
                  /\ Decision(p, c, "ACCEPT", "ACCEPTED") /\ stage' = Moved("TERMINAL")
             ELSE Decision(p, c, "ACCEPT", "READY") /\ UNCHANGED stage
    /\ UNCHANGED <<rootGoal, terms, enabled, evidence, shown>>

RejectDelivery(p) ==
    /\ \E c \in DOMAIN terms :
          /\ MayDecide(p, c)
          /\ Decision(p, c, "REJECT", "REJECTED")
    /\ stage' = Moved("work")
    /\ UNCHANGED <<rootGoal, terms, enabled, evidence, shown>>

-----------------------------------------------------------------------------
(* The project around it *)

(* An account is disabled or its team leaves, by hand.                      *)
Disable(p) ==
    /\ p \in enabled
    /\ enabled' = enabled \ {p}
    /\ UNCHANGED <<stage, rootGoal, terms, deliveries, evidence, shown>>

(* A risk, a gate or the graph changes, or a shared artifact does.          *)
FactsMove(e) ==
    /\ stage.phase = "DELIVERY" /\ evidence # e
    /\ evidence' = e
    /\ UNCHANGED <<stage, rootGoal, terms, deliveries, enabled, shown>>

CompletionNext ==
    \/ \E p \in Deciders :
          \/ Show(p) \/ ApproveContract(p) \/ AcceptDelivery(p) \/ RejectDelivery(p) \/ Disable(p)
          \/ \E required \in (SUBSET Deciders) \ {{}}, g \in RootGoals : ProposeContract(p, required, g)
    \/ Deliver
    \/ \E e \in {"met", "unmet", "stale"} : FactsMove(e)

CompletionSpec == CompletionInit /\ [][CompletionNext]_completionVars

-----------------------------------------------------------------------------
(* Properties *)

(* Contracts, deliveries and what accounts have seen.                       *)
CompletionTypeOK ==
    /\ stage \in [phase : {"work", "DELIVERY", "TERMINAL"}, version : Nat]
    /\ rootGoal \in RootGoals \cup {NoGoal}
    /\ terms \in Seq([status : {"DRAFT", "APPROVED"}, required : (SUBSET Deciders) \ {{}},
                      goal : RootGoals])
    /\ \A d \in DOMAIN deliveries :
          /\ deliveries[d].status \in {"READY", "ACCEPTED", "REJECTED"}
          /\ deliveries[d].pin \in 0 .. Len(terms)
    /\ \A p \in Deciders : shown[p].process <= stage.version /\ shown[p].terms <= Len(terms)

(* A delivery is decided on under one contract, from its first decision on; *)
(* while it waits for more decisions that contract is the one in effect, so *)
(* the others can still decide, and the process is bound to its goal.       *)
OneContractPerDelivery ==
    \A d \in DOMAIN deliveries :
        /\ \A p \in Deciders : deliveries[d].decision[p].under \in {0, deliveries[d].pin}
        /\ deliveries[d].status = "READY" /\ Decided(d) =>
              InEffect(deliveries[d].pin) /\ rootGoal = terms[deliveries[d].pin].goal

(* A delivery waits only while the process does, and only the newest one.   *)
OneDeliveryWaits ==
    \A d \in DOMAIN deliveries :
        deliveries[d].status = "READY" <=> d = Latest /\ stage.phase = "DELIVERY"

(* A project is complete exactly when everyone its approved contract names  *)
(* has accepted its newest delivery, and nobody has rejected it.            *)
CompletedByAll ==
    \A d \in DOMAIN deliveries :
        deliveries[d].status = "ACCEPTED" <=>
            /\ d = Latest /\ stage.phase = "TERMINAL" /\ InEffect(deliveries[d].pin)
            /\ \A p \in Deciders :
                  deliveries[d].decision[p].what =
                      IF p \in terms[deliveries[d].pin].required THEN "ACCEPT" ELSE "none"

(* Nobody's acceptance completes a project for an account that has left it. *)
CompletedByThePresent ==
    [][stage.phase # "TERMINAL" /\ stage'.phase = "TERMINAL" =>
          terms[deliveries'[Latest].pin].required \subseteq enabled]_completionVars

(* A project is completed by everyone its contract in effect names, while   *)
(* contracts are replaced, deliveries rejected and accounts disabled.       *)
CompletionIsAgreed ==
    /\ [](CompletionTypeOK /\ OneContractPerDelivery /\ OneDeliveryWaits /\ CompletedByAll)
    /\ CompletedByThePresent
=============================================================================
