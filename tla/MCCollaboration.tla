-------------------------- MODULE MCCollaboration --------------------------
(* What teams do together, on small instances: the program board and its    *)
(* contracts, accounts and their relations, the resource library, the tasks *)
(* between teams, the feed of a project, the capability directory,          *)
(* verification and readiness.  They share no state apart from the board    *)
(* that the contracts read, so a behaviour drives what its focus names and  *)
(* the rest stays as it starts.                                             *)
EXTENDS Contracts, Accounts, Library, TeamTasks, ProjectFeed,
        Capabilities, Verification, Readiness

CONSTANTS
    Focuses     \* the parts this run drives

VARIABLE focus

-----------------------------------------------------------------------------
(* The instance *)

MCTenantOf == [p \in Principals |-> IF p = Lead THEN "t1" ELSE "t2"]

MCTeamOf == [a \in Accounts |-> IF a \in {"a1", "a2"} THEN "t1" ELSE "t2"]

MCUserTeam ==
    [u \in Users |-> CASE u = "a1" -> "t1" [] u = "b1" -> "t2" [] u = "c1" -> "t3"]

MCRelatedTeams == {{"t1", "t2"}, {"t2", "t3"}}

MCWorkTeam == <<"t1", "t1", "t2">>

MCWorkSlots == <<1, 2, 1>>

MCPool == <<"p", "p", "q">>

(* A run and a reservation that task 3 already has.                         *)
Standing == [id |-> "r1", work |-> 3, team |-> "t2"]

(* Every graph over three tasks, in progress, near its limits or past them. *)
MCSnapshots ==
    [requires : SUBSET {<<v, w>> \in Works \X Works : v # w},
     status : [Works -> {"accepted", "verified"}],
     contract : {[w \in Works |-> "accepted"]},
     match : {[w \in Works |-> "matched"]},
     runs : {{}, {Standing}},
     reservations : {{}, {Standing}},
     usage : [active : {0, 1}, generated : {1}, replans : {0}],
     policy : [maxActive : {2, 4}, maxPerTeam : {2}, maxGenerated : {2}, maxReplans : {1}],
     funded : {TRUE}, agents : {{"t1", "t2"}}, controlOpen : {FALSE},
     process : {[phase |-> "EXECUTION", status |-> "RUNNING"]},
     slots : {[p |-> 2, q |-> 1]}]

OneSnapshot ==
    CHOOSE s \in MCSnapshots :
        s.requires = {} /\ s.runs = {} /\ s.reservations = {}

(* A program whose assignments are agreed and one of which is being worked  *)
(* on: where contracts are driven the board starts here.                    *)
AgreedBoard ==
    [NoBoard EXCEPT
        !.version = 10,
        !.role = [p \in Principals |-> IF p = Lead THEN "lead" ELSE "contributor"],
        !.plan = [state |-> "approved", required |-> {Lead}, approvals |-> {Lead},
                  visible |-> Tenants],
        !.asg = [a \in Assignments |->
                    [state |-> IF a = Producer THEN "in_progress" ELSE "accepted",
                     assignee |-> IF a = Producer THEN Lead ELSE "b",
                     deps |-> {}, visible |-> Tenants]]]

(* A program with two members and a plan both must approve: where its       *)
(* discussion is driven the board starts here.                              *)
PlannedBoard ==
    [NoBoard EXCEPT
        !.version = 3,
        !.role = [p \in Principals |-> IF p = Lead THEN "lead" ELSE "contributor"],
        !.plan = [state |-> "draft", required |-> Principals, approvals |-> {},
                  visible |-> Tenants]]

-----------------------------------------------------------------------------
CollaborationVars ==
    <<collaborationVars, accountVars, libraryVars, teamTaskVars, feedVars,
      capabilityVars, verificationVars, readinessVars>>

FocusInit ==
    /\ focus \in Focuses
    /\ board = CASE focus = "contracts" -> AgreedBoard
                 [] focus = "discussion" -> PlannedBoard
                 [] OTHER -> NoBoard
    /\ command = [k \in Commands |-> NoCommand]
    /\ ContractInit /\ AccountsInit /\ LibraryInit /\ TaskInit /\ FeedInit
    /\ CapabilitiesInit /\ VerificationInit /\ ReadinessInit
    /\ focus # "readiness" => facts = OneSnapshot

FocusNext ==
    /\ UNCHANGED focus
    /\ \/ /\ \/ focus = "board" /\ BoardStep /\ board'.version <= 6 /\ UNCHANGED contractVars
             \/ focus = "discussion" /\ BoardStep /\ board'.version <= 7 /\ UNCHANGED contractVars
             \/ focus = "contracts" /\ CollaborationNext /\ board'.version <= 11
                /\ Cardinality({k \in Commands : command'[k] # NoCommand}) <= 1
          /\ UNCHANGED <<accountVars, libraryVars, teamTaskVars, feedVars,
                         capabilityVars, verificationVars, readinessVars>>
       \/ /\ \/ focus = "identities" /\ UNCHANGED <<sessionVars, relationVars>>
             \/ focus = "sessions" /\ UNCHANGED <<provisioning, relationVars>>
             \/ focus = "relations" /\ UNCHANGED sessionVars
          /\ AccountsNext
          /\ UNCHANGED <<collaborationVars, libraryVars, teamTaskVars, feedVars,
                         capabilityVars, verificationVars, readinessVars>>
       \/ /\ focus = "library" /\ LibraryNext
          /\ UNCHANGED <<collaborationVars, accountVars, teamTaskVars, feedVars,
                         capabilityVars, verificationVars, readinessVars>>
       \/ /\ focus = "tasks" /\ TaskNext
          /\ task'.version = TaskVersionLimit => clock' = 0 /\ muted' = {}
          /\ UNCHANGED <<collaborationVars, accountVars, libraryVars, feedVars,
                         capabilityVars, verificationVars, readinessVars>>
       \/ /\ focus = "feed" /\ FeedNext
          /\ UNCHANGED <<collaborationVars, accountVars, libraryVars, teamTaskVars,
                         capabilityVars, verificationVars, readinessVars>>
       \/ /\ \/ focus = "capacity" /\ UNCHANGED negotiations
             \/ focus = "negotiation" /\ UNCHANGED reserving
          /\ CapabilitiesNext
          /\ UNCHANGED <<collaborationVars, accountVars, libraryVars, teamTaskVars,
                         feedVars, verificationVars, readinessVars>>
       \/ /\ focus = "verification" /\ VerificationNext
          /\ \A s \in Submissions : s > 1 => Cardinality(Launched(agentReview'[s])) <= 1
          /\ UNCHANGED <<collaborationVars, accountVars, libraryVars, teamTaskVars,
                         feedVars, capabilityVars, readinessVars>>
       \/ /\ focus = "readiness" /\ ReadinessNext
          /\ UNCHANGED <<collaborationVars, accountVars, libraryVars, teamTaskVars,
                         feedVars, capabilityVars, verificationVars>>

FocusSpec == FocusInit /\ [][FocusNext]_<<CollaborationVars, focus>>
=============================================================================
