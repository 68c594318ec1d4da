------------------------------- MODULE Library -------------------------------
(***************************************************************************)
(* Projects and the resources their teams publish (product/service.py,     *)
(* ProjectDirectoryService, ProjectDataPolicy, ProjectResourceService; the *)
(* change of propagation is product/workspace.py).                         *)
(*                                                                         *)
(* The upload of a resource stores its bytes first and binds them to the   *)
(* project in a second transaction; both take their identifiers from the   *)
(* idempotency key of the command, so a client whose call was cut off in   *)
(* between repeats it.  A command that is authorised and then written in a *)
(* transaction of its own (save, share, change of propagation) is two      *)
(* steps: what was authorised may have changed.                            *)
(***************************************************************************)
EXTENDS Naturals, FiniteSets

CONSTANTS
    Users,        \* accounts
    UserTeam,     \* the team of an account
    Managers,     \* the owners and administrators of their teams
    RelatedTeams, \* related pairs of teams
    Resources,    \* resources, named by the idempotency key of their upload
    Contents,     \* contents that may be uploaded
    Nothing       \* no content, no team

UserTeams == {UserTeam[a] : a \in Users}

ASSUME LibraryParameters ==
    /\ Managers \subseteq Users
    /\ Nothing \notin Contents /\ Nothing \notin UserTeams

VARIABLES
    project,      \* projects and project_teams: the owner and the teams in it
    stored,       \* the content the artifact store holds for an upload key
    resource,     \* project_resources
    announced,    \* project_activities: the resources announced to every team
    shares,       \* resource_shares
    library,      \* personal_library
    copyCommand       \* a command authorised and not yet written, for each account

libraryVars == <<project, stored, resource, announced, shares, library, copyCommand>>

-----------------------------------------------------------------------------
(* The tables *)

Propagations == {"team_private", "project_readonly", "portable"}

ProjectRow == [owner : UserTeams \cup {Nothing}, teams : SUBSET UserTeams]

ResourceRow == [owner : UserTeams \cup {Nothing}, by : Users \cup {Nothing},
                content : Contents \cup {Nothing}, propagation : Propagations]

NoResource == [owner |-> Nothing, by |-> Nothing, content |-> Nothing,
               propagation |-> "team_private"]

Idle == [kind |-> "none"]

LibraryInit ==
    /\ project = [owner |-> Nothing, teams |-> {}]
    /\ stored = [r \in Resources |-> Nothing]
    /\ resource = [r \in Resources |-> NoResource]
    /\ announced = {}
    /\ shares = {}
    /\ library = {}
    /\ copyCommand = [a \in Users |-> Idle]

Published(r) == resource[r].owner # Nothing
Participates(a) == UserTeam[a] \in project.teams

-----------------------------------------------------------------------------
(* Projects *)

CreateProject(a) ==
    /\ a \in Managers /\ project.owner = Nothing
    /\ project' = [owner |-> UserTeam[a], teams |-> {UserTeam[a]}]
    /\ UNCHANGED <<stored, resource, announced, shares, library, copyCommand>>

AddTeam(a, t) ==
    /\ a \in Managers /\ project.owner = UserTeam[a]
    /\ {UserTeam[a], t} \in RelatedTeams /\ t \notin project.teams
    /\ project' = [project EXCEPT !.teams = @ \cup {t}]
    /\ UNCHANGED <<stored, resource, announced, shares, library, copyCommand>>

-----------------------------------------------------------------------------
(* The policy *)

(* ProjectDataPolicy.decide: what account a may do with resource r, asked   *)
(* from the project the resource belongs to or from elsewhere.              *)
Allowed(a, r, action, inProject) ==
    /\ Published(r)
    /\ IF UserTeam[a] = resource[r].owner
       THEN resource[r].propagation = "team_private" => action \notin {"save", "reshare"}
       ELSE \/ /\ resource[r].propagation = "project_readonly"
               /\ Participates(a) /\ inProject /\ action \in {"view", "agent_use"}
            \/ /\ resource[r].propagation = "portable"
               /\ Participates(a) \/ <<r, UserTeam[a]>> \in shares

(* list_visible *)
Visible(a) ==
    {r \in Resources : /\ Participates(a) /\ Published(r)
                       /\ UserTeam[a] = resource[r].owner
                          \/ resource[r].propagation # "team_private"}

(* agent_context_items: the resources a run of account a may be given. *)
AgentContext(a) == {r \in Resources : Allowed(a, r, "agent_use", TRUE)}

-----------------------------------------------------------------------------
(* Uploading *)

(* A repeated key replaces the content stored under it. *)
KeyReused(r, c) == TRUE

(* The idempotency of the artifact store: a repeated key carries the same   *)
(* content.                                                                 *)
FreshKey(r, c) == stored[r] \in {Nothing, c}

(* upload_project_resource, its first half: the bytes are stored under the  *)
(* key.  A repeated key must carry the same content.                        *)
StoreContent(a, r, c) ==
    /\ Participates(a) /\ copyCommand[a] = Idle
    /\ FreshKey(r, c)
    /\ stored' = [stored EXCEPT ![r] = c]
    /\ copyCommand' = [copyCommand EXCEPT ![a] = [kind |-> "bind", resource |-> r, content |-> c]]
    /\ UNCHANGED <<project, resource, announced, shares, library>>

(* publish with allow_existing: the repetition of a copyCommand finds its       *)
(* resource, and a different one under the key is a conflict.               *)
BindContent(a, p) ==
    /\ copyCommand[a].kind = "bind"
    /\ LET r == copyCommand[a].resource
           c == copyCommand[a].content
       IN  IF Published(r) \/ ~Participates(a)
           THEN UNCHANGED <<resource, announced>>
           ELSE /\ resource' = [resource EXCEPT ![r] =
                      [owner |-> UserTeam[a], by |-> a, content |-> c, propagation |-> p]]
                /\ announced' = IF p = "team_private" THEN announced ELSE announced \cup {r}
    /\ copyCommand' = [copyCommand EXCEPT ![a] = Idle]
    /\ UNCHANGED <<project, stored, shares, library>>

(* The caller is gone between the two halves. *)
Interrupted(a) ==
    /\ copyCommand[a].kind # "none"
    /\ copyCommand' = [copyCommand EXCEPT ![a] = Idle]
    /\ UNCHANGED <<project, stored, resource, announced, shares, library>>

-----------------------------------------------------------------------------
(* Saving, sharing and the change of propagation *)

Authorise(a, r, kind, arg) ==
    /\ copyCommand[a] = Idle
    /\ copyCommand' = [copyCommand EXCEPT ![a] = [kind |-> kind, resource |-> r, arg |-> arg]]
    /\ UNCHANGED <<project, stored, resource, announced, shares, library>>

(* get_authorized, called by both. *)
AuthoriseSave(a, r) == Allowed(a, r, "save", TRUE) /\ Authorise(a, r, "save", Nothing)
AuthoriseShare(a, r, t) == Allowed(a, r, "reshare", TRUE) /\ Authorise(a, r, "share", t)

SaveToLibrary(a) ==
    /\ copyCommand[a].kind = "save"
    /\ library' = library \cup {<<a, copyCommand[a].resource>>}
    /\ copyCommand' = [copyCommand EXCEPT ![a] = Idle]
    /\ UNCHANGED <<project, stored, resource, announced, shares>>

ShareWithTeam(a) ==
    /\ copyCommand[a].kind = "share"
    /\ shares' = IF {UserTeam[a], copyCommand[a].arg} \in RelatedTeams
                 THEN shares \cup {<<copyCommand[a].resource, copyCommand[a].arg>>} ELSE shares
    /\ copyCommand' = [copyCommand EXCEPT ![a] = Idle]
    /\ UNCHANGED <<project, stored, resource, announced, library>>

(* Every propagation is accepted as a target. *)
ReadAnyPropagation(a, r, p) ==
    /\ Published(r) /\ resource[r].owner = UserTeam[a]
    /\ Authorise(a, r, "restrict", p)

(* update_resource_propagation: the expected value is compared with a row   *)
(* that is not locked, and nothing is made portable.                        *)
ReadPropagation(a, r, p) ==
    /\ Published(r) /\ resource[r].owner = UserTeam[a]
    /\ p \in {"team_private", "project_readonly"}
    /\ Authorise(a, r, "restrict", p)

UpdatePropagation(a) ==
    /\ copyCommand[a].kind = "restrict"
    /\ resource' = [resource EXCEPT ![copyCommand[a].resource].propagation = copyCommand[a].arg]
    /\ copyCommand' = [copyCommand EXCEPT ![a] = Idle]
    /\ UNCHANGED <<project, stored, announced, shares, library>>

-----------------------------------------------------------------------------
(* The routes of control_plane/product_routes.py *)

ProjectRoutes ==
    \E a \in Users : CreateProject(a) \/ \E t \in UserTeams : AddTeam(a, t)

UploadRoutes ==
    \E a \in Users :
        \/ \E r \in Resources, c \in Contents : StoreContent(a, r, c)
        \/ \E p \in Propagations : BindContent(a, p)
        \/ Interrupted(a)

ResourceRoutes ==
    \E a \in Users :
        \/ \E r \in Resources :
              \/ AuthoriseSave(a, r)
              \/ \E t \in UserTeams \ {UserTeam[a]} : AuthoriseShare(a, r, t)
              \/ \E p \in Propagations : ReadPropagation(a, r, p)
        \/ SaveToLibrary(a) \/ ShareWithTeam(a) \/ UpdatePropagation(a)

LibraryNext == ProjectRoutes \/ UploadRoutes \/ ResourceRoutes

LibrarySpec == LibraryInit /\ [][LibraryNext]_libraryVars

-----------------------------------------------------------------------------
(* Properties *)

(* An upload that is cut off, repeated or raced by another with its key is  *)
(* recoverable: a published resource is bound to the content its key        *)
(* stores, for good (upload_project_resource).                              *)
ResourceKeepsItsContent ==
    \A r \in Resources : Published(r) => resource[r].content = stored[r]

(* A copy outside the owner's team was there for everyone to know: what an  *)
(* account of another team has in its library was portable, nothing becomes *)
(* portable after it was published, and what is published portable is       *)
(* announced to the project (ProjectDataPolicy.decide,                      *)
(* update_resource_propagation).                                            *)
ForeignCopyWasAnnounced ==
    \A e \in library : UserTeam[e[1]] # resource[e[2]].owner => e[2] \in announced

(* The tables and what is stored under their keys.                          *)
LibraryTypeOK ==
    /\ project \in ProjectRow
    /\ stored \in [Resources -> Contents \cup {Nothing}]
    /\ resource \in [Resources -> ResourceRow]
    /\ announced \subseteq Resources
    /\ shares \subseteq Resources \X UserTeams

(* A run of a member of the project is given nothing the member could not   *)
(* list: the policy agent_context_items asks and the filter list_visible    *)
(* writes in SQL agree, whatever was shared or changed before.              *)
AgentsUseWhatIsVisible ==
    \A a \in Users : Participates(a) => AgentContext(a) \subseteq Visible(a)

(* The library is faithful: an upload that is cut off and repeated keeps    *)
(* its content, and nothing is copied that was not announced or shared,     *)
(* although a propagation may change after a command was authorised, and a   *)
(* run is given no more than its account sees.                              *)
LibraryIsFaithful ==
    /\ LibraryTypeOK
    /\ ResourceKeepsItsContent /\ ForeignCopyWasAnnounced /\ AgentsUseWhatIsVisible
=============================================================================
