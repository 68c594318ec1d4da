------------------------------ MODULE Accounts ------------------------------
(***************************************************************************)
(* The product directory (product/service.py, ProductAccountService):      *)
(* teams, the accounts that register or are provisioned from a trusted     *)
(* identity provider, their sessions and the relations between teams.      *)
(*                                                                         *)
(* A call is one transaction under READ COMMITTED.  A call that decides on *)
(* rows it does not lock is two steps, the read and the write:             *)
(* ensure_federated_account, send_team_relation_request and                *)
(* revoke_all_sessions, whose UPDATE sees the rows of its snapshot only.   *)
(***************************************************************************)
EXTENDS Naturals, FiniteSets

CONSTANTS
    Accounts,     \* account ids
    Teams,        \* team ids
    TeamOf,       \* the team an account belongs to
    Tokens,       \* session tokens
    Requests,     \* ids of team relation requests
    NoAccount         \* no account, no team

ASSUME AccountParameters == TeamOf \in [Accounts -> Teams]

VARIABLES
    teams,         \* teams: the registered ones
    account,       \* accounts
    registration,  \* account_registrations: the status of each
    provisioning,  \* what a provisioning call has read
    session,       \* account_sessions
    revoking,      \* the live sessions a global logout has seen
    relation,      \* contact_requests
    sending,       \* a relation request checked and not yet inserted
    contacts       \* contacts: related pairs of teams

accountVars == <<teams, account, registration, provisioning, session, revoking,
                 relation, sending, contacts>>

-----------------------------------------------------------------------------
(* The tables *)

AccountRow == [role : {"none", "owner", "admin", "member"}, must_change : BOOLEAN]

RegistrationStatus == {"none", "pending", "active", "rejected"}

(* origin: the token of the login a chain of renewals began with. *)
SessionRow == [account : Accounts \cup {NoAccount}, origin : Tokens \cup {NoAccount},
               state : {"unused", "live", "revoked", "expired"}]

RelationRow == [status : {"none", "pending", "accepted", "declined"},
                from : Teams \cup {NoAccount}, to : Teams \cup {NoAccount}]

NoSession == [account |-> NoAccount, origin |-> NoAccount, state |-> "unused"]
NoRelation == [status |-> "none", from |-> NoAccount, to |-> NoAccount]
NotProvisioning == [step |-> "none", founds |-> FALSE, role |-> "member", attempt |-> 0]

AccountsInit ==
    /\ teams = {}
    /\ account = [a \in Accounts |-> [role |-> "none", must_change |-> FALSE]]
    /\ registration = [a \in Accounts |-> "none"]
    /\ provisioning = [a \in Accounts |-> NotProvisioning]
    /\ session = [k \in Tokens |-> NoSession]
    /\ revoking = [a \in Accounts |-> {}]
    /\ relation = [r \in Requests |-> NoRelation]
    /\ sending = [r \in Requests |-> NoRelation]
    /\ contacts = {}

Exists(a) == account[a].role # "none"
TeamMembers(t) == {a \in Accounts : TeamOf[a] = t /\ Exists(a)}
MayAdminister(a) == account[a].role \in {"owner", "admin"}

-----------------------------------------------------------------------------
(* Teams and accounts *)

identityVars == <<teams, account, registration, provisioning>>
sessionVars == <<session, revoking>>
relationVars == <<relation, sending, contacts>>

(* The team, the registration and the account of its bootstrap owner. *)
RegisterTeam(a) ==
    /\ TeamOf[a] \notin teams /\ ~Exists(a) /\ registration[a] = "none"
    /\ provisioning[a].step = "none"
    /\ teams' = teams \cup {TeamOf[a]}
    /\ account' = [account EXCEPT ![a] = [role |-> "owner", must_change |-> TRUE]]
    /\ registration' = [registration EXCEPT ![a] = "active"]
    /\ UNCHANGED <<provisioning, sessionVars, relationVars>>

RequestRegistration(a) ==
    /\ TeamOf[a] \in teams /\ ~Exists(a) /\ registration[a] = "none"
    /\ registration' = [registration EXCEPT ![a] = "pending"]
    /\ UNCHANGED <<teams, account, provisioning, sessionVars, relationVars>>

(* The registration row is locked; an account that exists already fails the *)
(* insert and with it the decision.                                         *)
DecideRegistration(by, a, accept) ==
    /\ MayAdminister(by) /\ TeamOf[by] = TeamOf[a]
    /\ registration[a] = "pending"
    /\ accept => ~Exists(a)
    /\ registration' = [registration EXCEPT ![a] = IF accept THEN "active" ELSE "rejected"]
    /\ account' = IF accept
                  THEN [account EXCEPT ![a] = [role |-> "member", must_change |-> FALSE]]
                  ELSE account
    /\ UNCHANGED <<teams, provisioning, sessionVars, relationVars>>

(* ensure_federated_account, the reads of an attempt: is there a team, and  *)
(* is the account its first?                                                *)
ProvisionRead(a) ==
    /\ ~Exists(a) /\ provisioning[a].step # "insert" /\ provisioning[a].attempt < 2
    /\ provisioning' = [provisioning EXCEPT ![a] =
          [step |-> "insert", founds |-> TeamOf[a] \notin teams,
           role |-> IF TeamMembers(TeamOf[a]) = {} THEN "owner" ELSE "member",
           attempt |-> @.attempt + 1]]
    /\ UNCHANGED <<teams, account, registration, sessionVars, relationVars>>

(* A team row that is inserted as ON CONFLICT DO NOTHING. *)
TeamConflictIgnored(a) == FALSE

(* The primary key of teams: two transactions cannot both found a team. *)
TeamConflict(a) == provisioning[a].founds /\ TeamOf[a] \in teams

(* The inserts and the commit, or the IntegrityError after which the call   *)
(* tries once more and then reads the account or fails.                     *)
ProvisionInsert(a) ==
    /\ provisioning[a].step = "insert"
    /\ IF TeamConflict(a) \/ Exists(a)
       THEN /\ provisioning' = [provisioning EXCEPT ![a].step = "retry"]
            /\ UNCHANGED <<teams, account>>
       ELSE /\ teams' = teams \cup {TeamOf[a]}
            /\ account' = [account EXCEPT ![a] =
                  [role |-> provisioning[a].role, must_change |-> FALSE]]
            /\ provisioning' = [provisioning EXCEPT ![a] = NotProvisioning]
    /\ UNCHANGED <<registration, sessionVars, relationVars>>

ChangeInitialPassword(a) ==
    /\ Exists(a) /\ account[a].must_change
    /\ account' = [account EXCEPT ![a].must_change = FALSE]
    /\ UNCHANGED <<teams, registration, provisioning, sessionVars, relationVars>>

-----------------------------------------------------------------------------
(* Sessions *)

(* A token is renewed as long as it has not expired. *)
LiveUntilExpiry(k) == session[k].state \in {"live", "revoked"}

(* authenticate_session *)
Live(k) == session[k].state = "live"

(* A caller holds a token of the product, or is an OIDC subject. *)
Authenticated(a) == Exists(a) /\ ~account[a].must_change

Login(a, k) ==
    /\ Exists(a) /\ ~account[a].must_change
    /\ session[k].state = "unused"
    /\ session' = [session EXCEPT ![k] = [account |-> a, origin |-> k, state |-> "live"]]
    /\ UNCHANGED <<identityVars, revoking, relationVars>>

Logout(k) ==
    /\ Live(k)
    /\ session' = [session EXCEPT ![k].state = "revoked"]
    /\ UNCHANGED <<identityVars, revoking, relationVars>>

(* The old row is locked, revoked and replaced in one transaction. *)
Renew(k, n) ==
    /\ Live(k) /\ session[n].state = "unused"
    /\ session' = [session EXCEPT ![k].state = "revoked",
                      ![n] = [account |-> session[k].account,
                              origin |-> session[k].origin, state |-> "live"]]
    /\ UNCHANGED <<identityVars, revoking, relationVars>>

RevokeAllRead(a) ==
    /\ Authenticated(a) /\ revoking[a] = {}
    /\ revoking' = [revoking EXCEPT ![a] = {k \in Tokens : session[k].account = a /\ Live(k)}]
    /\ UNCHANGED <<identityVars, session, relationVars>>

(* A row locked meanwhile is read again before it is changed. *)
RevokeAll(a) ==
    /\ revoking[a] # {}
    /\ session' = [k \in Tokens |->
          IF k \in revoking[a] /\ Live(k)
          THEN [session[k] EXCEPT !.state = "revoked"] ELSE session[k]]
    /\ revoking' = [revoking EXCEPT ![a] = {}]
    /\ UNCHANGED <<identityVars, relationVars>>

SessionExpires(k) ==
    /\ Live(k)
    /\ session' = [session EXCEPT ![k].state = "expired"]
    /\ UNCHANGED <<identityVars, revoking, relationVars>>

-----------------------------------------------------------------------------
(* Relations between teams *)

Related(t, u) == {t, u} \in contacts

PendingBetween(t, u) ==
    {r \in Requests : relation[r].status = "pending" /\ {relation[r].from, relation[r].to} = {t, u}}

(* search_team_directory: what team t is shown of team u. *)
DirectoryEntry(t, u) ==
    CASE Related(t, u) -> "connected"
      [] ~Related(t, u) /\ (\E r \in PendingBetween(t, u) : relation[r].from = t) -> "pending_outgoing"
      [] ~Related(t, u) /\ (\E r \in PendingBetween(t, u) : relation[r].from = u) -> "pending_incoming"
      [] OTHER -> "available"

(* send_team_relation_request: neither row it looks for is locked. *)
SendRelationRead(r, by, u) ==
    /\ MayAdminister(by) /\ u \in teams \ {TeamOf[by]}
    /\ DirectoryEntry(TeamOf[by], u) = "available"
    /\ relation[r].status = "none" /\ sending[r].status = "none"
    /\ sending' = [sending EXCEPT ![r] = [status |-> "pending", from |-> TeamOf[by], to |-> u]]
    /\ UNCHANGED <<identityVars, sessionVars, relation, contacts>>

SendRelationInsert(r) ==
    /\ sending[r].status = "pending"
    /\ relation' = [relation EXCEPT ![r] = sending[r]]
    /\ sending' = [sending EXCEPT ![r] = NoRelation]
    /\ UNCHANGED <<identityVars, sessionVars, contacts>>

(* An accepted request for teams that are related already is no error. *)
ContactConflictIgnored(r) == FALSE

(* The primary key of contacts: the pair is inserted once. *)
ContactConflict(r) == {relation[r].from, relation[r].to} \in contacts

DecideRelation(r, by, accept) ==
    /\ MayAdminister(by) /\ relation[r].status = "pending" /\ relation[r].to = TeamOf[by]
    /\ accept => ~ContactConflict(r)
    /\ relation' = [relation EXCEPT ![r].status = IF accept THEN "accepted" ELSE "declined"]
    /\ contacts' = IF accept THEN contacts \cup {{relation[r].from, relation[r].to}} ELSE contacts
    /\ UNCHANGED <<identityVars, sessionVars, sending>>

-----------------------------------------------------------------------------
(* The routes of control_plane/product_routes.py and the callers they admit *)

(* Open to anyone: registering a team or an account, the first password,    *)
(* the login and what the bearer of a token may do with it.                 *)
PublicRoutes ==
    \/ \E a \in Accounts : RegisterTeam(a) \/ RequestRegistration(a) \/ ChangeInitialPassword(a)
    \/ \E a \in Accounts, k \in Tokens : Login(a, k)
    \/ \E k \in Tokens : Logout(k) \/ \E n \in Tokens : Renew(k, n)

(* For an authenticated account. *)
AccountRoutes ==
    \/ \E by \in Accounts, a \in Accounts, accept \in BOOLEAN :
          Authenticated(by) /\ DecideRegistration(by, a, accept)
    \/ \E a \in Accounts : RevokeAllRead(a)
    \/ \E by \in Accounts, r \in Requests :
          /\ Authenticated(by)
          /\ \/ \E u \in Teams : SendRelationRead(r, by, u)
             \/ \E accept \in BOOLEAN : DecideRelation(r, by, accept)

(* The second steps of calls under way, and time. *)
AccountSteps ==
    \/ \E a \in Accounts : ProvisionRead(a) \/ ProvisionInsert(a) \/ RevokeAll(a)
    \/ \E r \in Requests : SendRelationInsert(r)
    \/ \E k \in Tokens : SessionExpires(k)

AccountsNext == PublicRoutes \/ AccountRoutes \/ AccountSteps

AccountsSpec == AccountsInit /\ [][AccountsNext]_accountVars

-----------------------------------------------------------------------------
(* Properties *)

(* However many first requests arrive at once, through registration, the    *)
(* identity provider or both, a team that has accounts has exactly one      *)
(* owner: the loser of the race to found the team is made to count again    *)
(* (ensure_federated_account).                                              *)
FirstAccountOwns ==
    \A t \in Teams : TeamMembers(t) # {} =>
        Cardinality({a \in TeamMembers(t) : account[a].role = "owner"}) = 1

(* The renewals of one login form a chain: whatever the order of renewals,  *)
(* logouts and global logouts, at most one token of it is live              *)
(* (renew_session).                                                         *)
RenewalNeverForks ==
    \A j, k \in Tokens : Live(j) /\ Live(k) /\ session[j].origin = session[k].origin => j = k

(* Two teams that ask each other at the same time become related once: each *)
(* relation is backed by exactly one accepted request                       *)
(* (decide_team_relation_request).                                          *)
RelatedByOneRequest ==
    \A pair \in SUBSET Teams : Cardinality(pair) = 2 =>
        Cardinality({r \in Requests : relation[r].status = "accepted"
                                      /\ {relation[r].from, relation[r].to} = pair})
        = IF pair \in contacts THEN 1 ELSE 0

(* Teams, accounts, sessions and relations.                                 *)
AccountsTypeOK ==
    /\ teams \subseteq Teams
    /\ account \in [Accounts -> AccountRow]
    /\ registration \in [Accounts -> RegistrationStatus]
    /\ session \in [Tokens -> SessionRow]
    /\ revoking \in [Accounts -> SUBSET Tokens]
    /\ relation \in [Requests -> RelationRow]

(* The accounts agree through three races: founding a team, renewing a      *)
(* session, relating two teams.                                             *)
AccountsAgree ==
    /\ AccountsTypeOK
    /\ FirstAccountOwns /\ RenewalNeverForks /\ RelatedByOneRequest
=============================================================================
