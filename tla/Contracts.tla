----------------------------- MODULE Contracts -----------------------------
(***************************************************************************)
(* Interface contracts between assignments (contracts/service.py) on top   *)
(* of the governance board: a producer releases versions of a contract,    *)
(* consumers depend on a baseline, every new version raises an impact the  *)
(* consumer has to accept, and an assignment with an open impact is not to *)
(* be verified.                                                            *)
(*                                                                         *)
(* Every contract command locks the contract row, so one command is one    *)
(* action; the board's review only reads the impacts (contracts_guard in   *)
(* collaboration/service.py), between loading the board and saving it.     *)
(***************************************************************************)
EXTENDS Governance

CONSTANTS
    Dependencies,  \* contract dependency ids
    VersionLimit,  \* bound on the versions of the contract
    Digests,       \* contents a version may have
    NoDigest,      \* nothing released yet
    Producer       \* the assignment that produces the contract

ASSUME ContractParameters ==
    /\ Producer \in Assignments
    /\ VersionLimit \in Nat /\ NoDigest \notin Digests

VARIABLES
    release,   \* contract_releases of one contract: version, digest, compatibility
    dep,       \* contract_dependencies
    impact     \* change_impacts, by dependency and version

contractVars == <<release, dep, impact>>

-----------------------------------------------------------------------------
(* The state *)

Version == 1..VersionLimit

(* Versions in their order; 1 has major number 0, 2 and 3 have 1, and so on. *)
Major(v) == v \div 2

(* latest 0: registered, nothing released; registered FALSE: no contract.   *)
Release ==
    [registered : BOOLEAN, versions : SUBSET Version, latest : Nat,
     digest : Digests \cup {NoDigest}]

Dependency ==
    [state : {"absent", "declared"}, asg : Assignments,
     baseline : Nat, caret : BOOLEAN, floor : Nat]

Impact ==
    [state : {"absent", "pending", "acknowledged", "blocked",
              "remediation_proposed", "accepted"},
     severity : {"notice", "action_required", "blocking"}]

NoDependency ==
    [state |-> "absent", asg |-> Producer, baseline |-> 0, caret |-> FALSE, floor |-> 0]

NoImpact == [state |-> "absent", severity |-> "notice"]

ContractInit ==
    /\ release = [registered |-> FALSE, versions |-> {}, latest |-> 0, digest |-> NoDigest]
    /\ dep = [d \in Dependencies |-> NoDependency]
    /\ impact = [d \in Dependencies |-> [v \in Version |-> NoImpact]]

-----------------------------------------------------------------------------
(* Contracts and releases *)

Assigned(a) == board.asg[a].state # "absent"

RegisterContract ==
    /\ Assigned(Producer) /\ ~release.registered
    /\ release' = [release EXCEPT !.registered = TRUE]
    /\ UNCHANGED <<dep, impact, board, command>>

(* _satisfies, for a caret constraint and for an open lower bound.          *)
Satisfies(v, x) == v >= x.floor /\ (x.caret => Major(v) = Major(x.floor))

(* What release makes of the producer's declaration.                        *)
Compatibility(v, digest, declared) ==
    CASE release.latest # 0 /\ digest = release.digest -> "compatible"
      [] release.latest # 0 /\ digest # release.digest
         /\ Major(v) > Major(release.latest) -> "breaking"
      [] OTHER -> declared

Severity(v, x, compatibility) ==
    IF compatibility = "breaking" \/ ~Satisfies(v, x) THEN "blocking"
    ELSE IF compatibility = "unknown" THEN "action_required" ELSE "notice"

(* release: the version grows, and every dependency gets an impact unless   *)
(* the content is the same.                                                 *)
ReleaseContract(v, digest, declared) ==
    /\ release.registered /\ v > release.latest
    /\ release' = [release EXCEPT !.versions = @ \cup {v}, !.latest = v,
                                !.digest = digest]
    /\ impact' = [d \in Dependencies |->
          IF dep[d].state = "declared" /\ release.latest # 0 /\ digest # release.digest
          THEN [impact[d] EXCEPT ![v] =
                  [state |-> "pending",
                   severity |-> Severity(v, dep[d], Compatibility(v, digest, declared))]]
          ELSE impact[d]]
    /\ UNCHANGED <<dep, board, command>>

(* declare_dependency on any version released so far; _satisfies is called  *)
(* on the baseline and its answer is not used.                              *)
DeclareDependency(d, a, v, caret, floor) ==
    /\ release.registered /\ Assigned(a)
    /\ v \in release.versions
    /\ dep[d].state = "absent"
    /\ dep' = [dep EXCEPT ![d] = [state |-> "declared", asg |-> a, baseline |-> v,
                                  caret |-> caret, floor |-> floor]]
    /\ UNCHANGED <<release, impact, board, command>>

-----------------------------------------------------------------------------
(* Impacts *)

(* _transition: from one of the allowed states, under the contract's lock.  *)
Transition(d, v, allowed, target) ==
    /\ impact[d][v].state \in allowed
    /\ impact' = [impact EXCEPT ![d][v].state = target]
    /\ UNCHANGED <<release, board, command>>

RespondToImpact(d, v, block) ==
    /\ Transition(d, v, {"pending", "remediation_proposed"},
                  IF block THEN "blocked" ELSE "acknowledged")
    /\ UNCHANGED dep

ProposeRemediation(d, v) ==
    /\ Transition(d, v, {"acknowledged", "blocked"}, "remediation_proposed")
    /\ UNCHANGED dep

(* Mutant of Obsolete: nothing is obsolete.                                 *)
ObsoleteNever(d, v) == FALSE

(* A later version has raised an impact on the same dependency.             *)
Obsolete(d, v) == \E w \in Version : w > v /\ impact[d][w].state # "absent"

(* accept_impact moves the dependency's baseline to the version.            *)
AcceptImpact(d, v) ==
    /\ ~Obsolete(d, v)
    /\ Transition(d, v, {"acknowledged", "remediation_proposed"}, "accepted")
    /\ dep' = [dep EXCEPT ![d].baseline = v]

-----------------------------------------------------------------------------
(* The board's review *)

(* The row security of change_impacts shows an impact to the teams of the   *)
(* producer and of the consumer; another team's reviewer does not see it.   *)
ImpactVisible(actor, d) ==
    TenantOf[actor] \in {TenantOf[board.asg[a].assignee] : a \in {Producer, dep[d].asg}}

(* assert_assignment_verifiable: what the reviewer sees of what is open.    *)
OpenImpacts(actor, a) ==
    {x \in Dependencies \X Version :
        /\ dep[x[1]].state = "declared" /\ dep[x[1]].asg = a
        /\ impact[x[1]][x[2]].state \notin {"absent", "accepted"}
        /\ impact[x[1]][x[2]].severity # "notice"
        /\ ImpactVisible(actor, x[1])}

(* _execute of an accepting review up to the save: the impacts are read     *)
(* here and not again.                                                      *)
Review(k, actor, a) ==
    /\ actor \in Members(board) /\ OpenImpacts(actor, a) = {}
    /\ \E next \in VerifyAssignment(board, actor, a) : Load(k, next)
    /\ UNCHANGED contractVars

ContractStep ==
    \/ RegisterContract
    \/ \E v \in Version, digest \in Digests, c \in {"compatible", "unknown", "breaking"} :
          ReleaseContract(v, digest, c)
    \/ \E d \in Dependencies, a \in Assignments, v, f \in Version, caret \in BOOLEAN :
          DeclareDependency(d, a, v, caret, f)
    \/ \E d \in Dependencies, v \in Version :
          \/ \E block \in BOOLEAN : RespondToImpact(d, v, block)
          \/ ProposeRemediation(d, v)
          \/ AcceptImpact(d, v)
    \/ \E k \in Commands, actor \in Principals, a \in Assignments : Review(k, actor, a)

CollaborationInit == BoardInit /\ ContractInit

CollaborationNext ==
    \/ BoardStep /\ UNCHANGED contractVars
    \/ ContractStep

collaborationVars == <<board, command, release, dep, impact>>

CollaborationSpec == CollaborationInit /\ [][CollaborationNext]_collaborationVars

-----------------------------------------------------------------------------
(* Properties *)

(* The baseline a consumer works against (accept_impact) never moves back   *)
(* to an older version, however many impacts of one dependency are open and *)
(* in whatever order they are answered.                                     *)
BaselineNeverRegresses ==
    [][\A d \in Dependencies : dep'[d].baseline >= dep[d].baseline]_collaborationVars

(* The release, its dependencies and the impacts of its versions.           *)
ContractsTypeOK ==
    /\ release \in Release
    /\ dep \in [Dependencies -> Dependency]
    /\ impact \in [Dependencies -> [Version -> Impact]]

(* The baselines are versions of the contract, and none moves back.         *)
BaselineIsKept == []ContractsTypeOK /\ BaselineNeverRegresses

(* What members and teams agreed on stands: the board of a program forgets  *)
(* nothing a command settled, whatever copy a later command loaded, and the *)
(* accepted version of a contract never moves back.                         *)
AgreementsAreKept == BoardIsKept /\ BaselineIsKept
=============================================================================
