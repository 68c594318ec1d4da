------------------------ MODULE CollaborationProofs ------------------------
(* Machine-checked proofs about what people and teams share: accounts and   *)
(* relations, the library, the terms of a task and its verification, the    *)
(* feed of a team, the boards and contracts of a program, the capacity      *)
(* teams reserve, and the readiness of tasks. Each part states an inductive *)
(* invariant and shows that every action keeps it.                          *)
EXTENDS Accounts, Library, TeamTasks, Verification, ProjectFeed, Contracts,
        Capabilities, Readiness, FiniteSetTheorems, SequenceTheorems,
        WellFoundedInduction, TLAPS

-----------------------------------------------------------------------------
(* Sets of numbers                                                          *)

(* A set of naturals that is not empty has a least member.                  *)
LEMMA SmallestExists ==
    ASSUME NEW T \in SUBSET Nat, T # {}
    PROVE  \E x \in T : \A y \in T : x <= y
  <1> DEFINE R == OpToRel(<, Nat)
  <1>1. IsWellFoundedOn(R, Nat) BY NatLessThanWellFounded
  <1>2. PICK x \in T : \A y \in T : ~(<<y, x>> \in R)
    <2> HIDE DEF R
    <2> QED BY <1>1, WFMin
  <1>3. ASSUME NEW y \in T PROVE x <= y
    <2>1. ~(<<y, x>> \in {ss \in Nat \X Nat : ss[1] < ss[2]}) BY <1>2 DEF OpToRel
    <2>2. <<y, x>> \in Nat \X Nat OBVIOUS
    <2>3. ~(y < x) BY <2>1, <2>2
    <2> QED BY <2>3
  <1> QED BY <1>3

(* A set of naturals that is bounded and not empty has a greatest member.   *)
LEMMA LargestExists ==
    ASSUME NEW n \in Nat, NEW T \in SUBSET (0 .. n), T # {}
    PROVE  \E x \in T : \A y \in T : y <= x
  <1> DEFINE U == {u \in Nat : \E t \in T : u = n - t}
  <1>0. \A t \in T : n - t \in Nat /\ t \in Nat
     <2> TAKE t \in T
     <2>1. t \in 0 .. n OBVIOUS
     <2> QED BY <2>1
  <1>1. U \in SUBSET Nat OBVIOUS
  <1>2. U # {} 
     <2> PICK t \in T : TRUE OBVIOUS
     <2> n - t \in U BY <1>0
     <2> QED OBVIOUS
  <1>3. PICK u \in U : \A v \in U : u <= v
    <2> HIDE DEF U
    <2> QED BY <1>1, <1>2, SmallestExists
  <1>4. PICK x \in T : u = n - x BY <1>3
  <1>5. ASSUME NEW y \in T PROVE y <= x
    <2>1. n - y \in U BY <1>0
    <2>2. u <= n - y BY <2>1, <1>3
    <2> QED BY <2>2, <1>4, <1>0
  <1> QED BY <1>5

-----------------------------------------------------------------------------
(* Accounts                                                                 *)

SendingRow == [status : {"none", "pending"}, from : Teams \cup {NoAccount}, to : Teams \cup {NoAccount}]

ProvisioningRow ==
    [step : {"none", "insert", "retry"}, founds : BOOLEAN, role : {"owner", "member"}, attempt : Nat]

AccountTypes ==
    /\ AccountsTypeOK
    /\ provisioning \in [Accounts -> ProvisioningRow]
    /\ sending \in [Requests -> SendingRow]

(* A team is there with its first account, and that account owns it; who is *)
(* about to be inserted founds the team or joins one that is there.         *)
TeamsAreOwned ==
    /\ \A a \in Accounts : Exists(a) => TeamOf[a] \in teams
    /\ \A t \in teams : \E a \in Accounts : TeamOf[a] = t /\ account[a].role = "owner"
    /\ \A a, b \in Accounts :
          account[a].role = "owner" /\ account[b].role = "owner" /\ TeamOf[a] = TeamOf[b] => a = b
    /\ \A a \in Accounts : registration[a] = "pending" => TeamOf[a] \in teams
    /\ \A a \in Accounts : provisioning[a].step = "insert" =>
          \/ provisioning[a].founds /\ provisioning[a].role = "owner"
          \/ ~provisioning[a].founds /\ provisioning[a].role = "member" /\ TeamOf[a] \in teams

(* The token of a login is used before any renewal of it.                   *)
OriginsAreUsed ==
    \A k \in Tokens : session[k].state # "unused" =>
        session[k].origin \in Tokens /\ session[session[k].origin].state # "unused"

Pair(r) == {relation[r].from, relation[r].to}

AcceptedRelations == {r \in Requests : relation[r].status = "accepted"}

(* Contacts and accepted requests are one to one; a request is inserted once. *)
ContactsAreAccepted ==
    /\ contacts = {Pair(r) : r \in AcceptedRelations}
    /\ \A q, r \in AcceptedRelations : Pair(q) = Pair(r) => q = r
    /\ \A r \in Requests : sending[r].status = "pending" => relation[r].status = "none"

AccountsInv ==
    AccountTypes /\ TeamsAreOwned /\ OriginsAreUsed /\ RenewalNeverForks /\ ContactsAreAccepted

(* No account, session or relation is there at first.                       *)
LEMMA AccountsInvInit == AccountsInit => AccountsInv
  <1> SUFFICES ASSUME AccountsInit PROVE AccountsInv OBVIOUS
  <1>1. NoSession \in SessionRow /\ NoRelation \in RelationRow /\ NoRelation \in SendingRow
    BY DEF NoSession, SessionRow, NoRelation, RelationRow, SendingRow
  <1>2. NotProvisioning \in ProvisioningRow BY DEF NotProvisioning, ProvisioningRow
  <1>3. AccountTypes
    BY <1>1, <1>2 DEF AccountsInit, AccountTypes, AccountsTypeOK, AccountRow, RegistrationStatus
  <1>4. TeamsAreOwned BY DEF AccountsInit, TeamsAreOwned, Exists, NotProvisioning
  <1>5. OriginsAreUsed /\ RenewalNeverForks
    BY DEF AccountsInit, OriginsAreUsed, RenewalNeverForks, Live, NoSession
  <1>6. AcceptedRelations = {}
    BY DEF AccountsInit, AcceptedRelations, NoRelation
  <1>7. ContactsAreAccepted
    BY <1>6 DEF AccountsInit, ContactsAreAccepted, NoRelation
  <1> QED BY <1>3, <1>4, <1>5, <1>7 DEF AccountsInv

(* A step that leaves the sessions alone keeps what is said of them.        *)
LEMMA SessionsStay ==
    ASSUME AccountsInv, UNCHANGED session
    PROVE  OriginsAreUsed' /\ RenewalNeverForks'
  BY DEF AccountsInv, OriginsAreUsed, RenewalNeverForks, Live

(* A step that leaves the relations alone keeps what is said of them.       *)
LEMMA RelationsStay ==
    ASSUME AccountsInv, UNCHANGED relationVars
    PROVE  ContactsAreAccepted'
  BY DEF AccountsInv, ContactsAreAccepted, AcceptedRelations, Pair, relationVars

(* A step that leaves accounts and teams alone keeps what is said of them.  *)
LEMMA IdentityStays ==
    ASSUME AccountsInv, UNCHANGED identityVars
    PROVE  TeamsAreOwned'
  BY DEF AccountsInv, TeamsAreOwned, Exists, identityVars

(* One account is inserted: the owner of a new team, or a member of one     *)
(* that is there.                                                           *)
LEMMA Inserted ==
    ASSUME AccountsInv, NEW a \in Accounts, NEW role \in {"owner", "member"},
           NEW must \in BOOLEAN, ~Exists(a),
           IF role = "owner" THEN TeamOf[a] \notin teams ELSE TeamOf[a] \in teams,
           teams' = teams \cup {TeamOf[a]},
           account' = [account EXCEPT ![a] = [role |-> role, must_change |-> must]],
           registration' \in [Accounts -> RegistrationStatus],
           \A b \in Accounts : registration'[b] = "pending" => registration[b] = "pending",
           \A b \in Accounts : provisioning'[b].step = "insert" => provisioning'[b] = provisioning[b]
    PROVE  /\ account' \in [Accounts -> AccountRow] /\ teams' \subseteq Teams
           /\ TeamsAreOwned'
  <1>1. /\ account \in [Accounts -> AccountRow] /\ teams \subseteq Teams /\ TeamsAreOwned
        /\ TeamOf[a] \in Teams
    BY AccountParameters DEF AccountsInv, AccountTypes, AccountsTypeOK
  <1>2. /\ account' \in [Accounts -> AccountRow] /\ teams' \subseteq Teams
        /\ account'[a].role = role
        /\ \A b \in Accounts : b # a => account'[b] = account[b]
    BY <1>1 DEF AccountRow
  <1>3. account[a].role = "none" BY DEF Exists
  <1>4. \A b \in Accounts : account'[b].role # "none" => TeamOf[b] \in teams'
    BY <1>1, <1>2 DEF TeamsAreOwned, Exists
  <1>5. \A t \in teams' : \E b \in Accounts : TeamOf[b] = t /\ account'[b].role = "owner"
    BY <1>1, <1>2, <1>3 DEF TeamsAreOwned
  <1>6. \A b, c \in Accounts :
          account'[b].role = "owner" /\ account'[c].role = "owner" /\ TeamOf[b] = TeamOf[c] => b = c
    BY <1>1, <1>2, <1>3 DEF TeamsAreOwned, Exists
  <1>7. \A b \in Accounts : registration'[b] = "pending" => TeamOf[b] \in teams'
    BY <1>1 DEF TeamsAreOwned
  <1>8. \A b \in Accounts : provisioning'[b].step = "insert" =>
          \/ provisioning'[b].founds /\ provisioning'[b].role = "owner"
          \/ ~provisioning'[b].founds /\ provisioning'[b].role = "member" /\ TeamOf[b] \in teams'
    BY <1>1 DEF TeamsAreOwned
  <1> QED BY <1>2, <1>4, <1>5, <1>6, <1>7, <1>8 DEF TeamsAreOwned, Exists

(* register_team: the account and its team, in one transaction.             *)
LEMMA RegisterTeamKeeps ==
    ASSUME AccountsInv, NEW a \in Accounts, RegisterTeam(a)
    PROVE  AccountsInv'
  <1>1. /\ registration' \in [Accounts -> RegistrationStatus]
        /\ \A b \in Accounts : registration'[b] = "pending" => registration[b] = "pending"
    BY DEF RegisterTeam, AccountsInv, AccountTypes, AccountsTypeOK, RegistrationStatus
  <1>2. /\ account' \in [Accounts -> AccountRow] /\ teams' \subseteq Teams /\ TeamsAreOwned'
    BY <1>1, Inserted DEF RegisterTeam
  <1>3. AccountTypes'
    BY <1>1, <1>2 DEF RegisterTeam, sessionVars, relationVars, AccountsInv, AccountTypes, AccountsTypeOK
  <1> QED BY <1>2, <1>3, SessionsStay, RelationsStay DEF RegisterTeam, sessionVars, AccountsInv

(* A registration is requested; no account is there yet.                    *)
LEMMA RequestRegistrationKeeps ==
    ASSUME AccountsInv, NEW a \in Accounts, RequestRegistration(a)
    PROVE  AccountsInv'
  <1>1. TeamsAreOwned'
    BY DEF RequestRegistration, AccountsInv, AccountTypes, AccountsTypeOK, TeamsAreOwned, Exists
  <1>2. AccountTypes'
    BY DEF RequestRegistration, sessionVars, relationVars, AccountsInv, AccountTypes, AccountsTypeOK,
           RegistrationStatus
  <1> QED BY <1>1, <1>2, SessionsStay, RelationsStay DEF RequestRegistration, sessionVars, AccountsInv

(* A registration is decided.                                               *)
LEMMA DecideRegistrationKeeps ==
    ASSUME AccountsInv, NEW by \in Accounts, NEW a \in Accounts, NEW accept \in BOOLEAN,
           DecideRegistration(by, a, accept)
    PROVE  AccountsInv'
  <1>1. /\ registration' \in [Accounts -> RegistrationStatus]
        /\ \A b \in Accounts : registration'[b] = "pending" => registration[b] = "pending"
    BY DEF DecideRegistration, AccountsInv, AccountTypes, AccountsTypeOK, RegistrationStatus
  <1>2. TeamOf[a] \in teams BY DEF DecideRegistration, AccountsInv, TeamsAreOwned
  <1>3. account' \in [Accounts -> AccountRow] /\ TeamsAreOwned'
    <2>1. CASE accept
      <3>1. /\ ~Exists(a) /\ teams' = teams \cup {TeamOf[a]} /\ provisioning' = provisioning
            /\ account' = [account EXCEPT ![a] = [role |-> "member", must_change |-> FALSE]]
        BY <1>2, <2>1 DEF DecideRegistration
      <3> QED BY <3>1, <1>1, <1>2, Inserted
    <2>2. CASE ~accept
      BY <1>1, <2>2 DEF DecideRegistration, AccountsInv, AccountTypes, AccountsTypeOK, TeamsAreOwned, Exists
    <2> QED BY <2>1, <2>2
  <1>4. AccountTypes'
    BY <1>1, <1>3 DEF DecideRegistration, sessionVars, relationVars, AccountsInv, AccountTypes, AccountsTypeOK
  <1> QED BY <1>3, <1>4, SessionsStay, RelationsStay DEF DecideRegistration, sessionVars, AccountsInv

(* provision reads the team and its members and decides on the role.        *)
LEMMA ProvisionReadKeeps ==
    ASSUME AccountsInv, NEW a \in Accounts, ProvisionRead(a)
    PROVE  AccountsInv'
  <1> DEFINE row == [step |-> "insert", founds |-> TeamOf[a] \notin teams,
                     role |-> IF TeamMembers(TeamOf[a]) = {} THEN "owner" ELSE "member",
                     attempt |-> provisioning[a].attempt + 1]
  <1>1. provisioning' = [provisioning EXCEPT ![a] = row] /\ UNCHANGED <<teams, account, registration>>
    BY DEF ProvisionRead
  <1>2. row \in ProvisioningRow
    BY DEF AccountsInv, AccountTypes, ProvisioningRow
  <1>3. TeamOf[a] \in teams <=> TeamMembers(TeamOf[a]) # {}
    BY DEF AccountsInv, TeamsAreOwned, TeamMembers, Exists
  <1>4. provisioning' \in [Accounts -> ProvisioningRow]
    BY <1>1, <1>2 DEF AccountsInv, AccountTypes
  <1>5. /\ provisioning'[a].founds = (TeamOf[a] \notin teams)
        /\ provisioning'[a].role = IF TeamMembers(TeamOf[a]) = {} THEN "owner" ELSE "member"
        /\ \A b \in Accounts : b # a => provisioning'[b] = provisioning[b]
    BY <1>1 DEF AccountsInv, AccountTypes
  <1>6. TeamsAreOwned'
    <2>1. TeamsAreOwned BY DEF AccountsInv
    <2>2. \A b \in Accounts : provisioning'[b].step = "insert" =>
            \/ provisioning'[b].founds /\ provisioning'[b].role = "owner"
            \/ ~provisioning'[b].founds /\ provisioning'[b].role = "member" /\ TeamOf[b] \in teams
      BY <2>1, <1>3, <1>5 DEF TeamsAreOwned
    <2> QED BY <1>1, <2>1, <2>2 DEF TeamsAreOwned, Exists
  <1>7. AccountTypes'
    BY <1>4 DEF ProvisionRead, sessionVars, relationVars, AccountsInv, AccountTypes, AccountsTypeOK
  <1> QED BY <1>6, <1>7, SessionsStay, RelationsStay DEF ProvisionRead, sessionVars, AccountsInv

(* provision inserts; the unique key refuses the second owner.              *)
LEMMA ProvisionInsertKeeps ==
    ASSUME AccountsInv, NEW a \in Accounts, ProvisionInsert(a)
    PROVE  AccountsInv'
  <1> DEFINE retry == [provisioning[a] EXCEPT !.step = "retry"]
  <1>a. provisioning[a] \in ProvisioningRow BY DEF AccountsInv, AccountTypes
  <1>b. /\ retry \in ProvisioningRow /\ NotProvisioning \in ProvisioningRow
        /\ retry.step # "insert" /\ NotProvisioning.step # "insert"
    BY <1>a DEF ProvisioningRow, NotProvisioning
  <1>c. \/ provisioning' = [provisioning EXCEPT ![a] = retry]
        \/ provisioning' = [provisioning EXCEPT ![a] = NotProvisioning]
    BY DEF ProvisionInsert
  <1> HIDE DEF retry
  <1>1. provisioning' \in [Accounts -> ProvisioningRow]
    BY <1>b, <1>c DEF AccountsInv, AccountTypes
  <1>2. \A b \in Accounts : provisioning'[b].step = "insert" => provisioning'[b] = provisioning[b]
    BY <1>b, <1>c DEF AccountsInv, AccountTypes
  <1>3. account' \in [Accounts -> AccountRow] /\ teams' \subseteq Teams /\ TeamsAreOwned'
    <2>1. CASE TeamConflict(a) \/ Exists(a)
      BY <1>2, <2>1 DEF ProvisionInsert, AccountsInv, AccountTypes, AccountsTypeOK, TeamsAreOwned, Exists
    <2>2. CASE ~(TeamConflict(a) \/ Exists(a))
      <3>1. /\ provisioning[a].role \in {"owner", "member"}
            /\ IF provisioning[a].role = "owner" THEN TeamOf[a] \notin teams ELSE TeamOf[a] \in teams
        BY <2>2 DEF ProvisionInsert, TeamConflict, AccountsInv, AccountTypes, ProvisioningRow, TeamsAreOwned
      <3>2. /\ teams' = teams \cup {TeamOf[a]} /\ registration' = registration
            /\ account' = [account EXCEPT ![a] = [role |-> provisioning[a].role, must_change |-> FALSE]]
        BY <2>2 DEF ProvisionInsert
      <3>3. registration' \in [Accounts -> RegistrationStatus]
        BY <3>2 DEF AccountsInv, AccountTypes, AccountsTypeOK
      <3> QED BY <1>2, <2>2, <3>1, <3>2, <3>3, Inserted
    <2> QED BY <2>1, <2>2
  <1>4. AccountTypes'
    BY <1>1, <1>3 DEF ProvisionInsert, sessionVars, relationVars, AccountsInv, AccountTypes, AccountsTypeOK
  <1> QED BY <1>3, <1>4, SessionsStay, RelationsStay DEF ProvisionInsert, sessionVars, AccountsInv

(* The first password is changed: a flag of the account.                    *)
LEMMA ChangePasswordKeeps ==
    ASSUME AccountsInv, NEW a \in Accounts, ChangeInitialPassword(a)
    PROVE  AccountsInv'
  <1>1. /\ account' \in [Accounts -> AccountRow]
        /\ \A b \in Accounts : account'[b].role = account[b].role
    BY DEF ChangeInitialPassword, AccountsInv, AccountTypes, AccountsTypeOK, AccountRow
  <1>2. TeamsAreOwned' BY <1>1 DEF ChangeInitialPassword, AccountsInv, TeamsAreOwned, Exists
  <1>3. AccountTypes'
    BY <1>1 DEF ChangeInitialPassword, sessionVars, relationVars, AccountsInv, AccountTypes, AccountsTypeOK
  <1> QED BY <1>2, <1>3, SessionsStay, RelationsStay DEF ChangeInitialPassword, sessionVars, AccountsInv

(* Tokens are used, renewed and ended: a token that becomes live is new,    *)
(* and replaces the one it renews.                                          *)
LEMMA SessionStepKeeps ==
    ASSUME AccountsInv, UNCHANGED <<identityVars, relationVars>>,
           session' \in [Tokens -> SessionRow], revoking' \in [Accounts -> SUBSET Tokens],
           OriginsAreUsed', RenewalNeverForks'
    PROVE  AccountsInv'
  <1>1. AccountTypes'
    BY DEF identityVars, relationVars, AccountsInv, AccountTypes, AccountsTypeOK
  <1> QED BY <1>1, IdentityStays, RelationsStay DEF AccountsInv

(* A login begins a session of its own.                                     *)
LEMMA LoginKeeps ==
    ASSUME AccountsInv, NEW a \in Accounts, NEW k \in Tokens, Login(a, k)
    PROVE  AccountsInv'
  <1>1. session \in [Tokens -> SessionRow] BY DEF AccountsInv, AccountTypes, AccountsTypeOK
  <1> DEFINE row == [account |-> a, origin |-> k, state |-> "live"]
  <1>2. row \in SessionRow BY DEF SessionRow
  <1>3. session' = [session EXCEPT ![k] = row] BY DEF Login
  <1>4. /\ session' \in [Tokens -> SessionRow] /\ session'[k] = row
        /\ \A j \in Tokens : j # k => session'[j] = session[j]
    BY <1>1, <1>2, <1>3
  <1>5. OriginsAreUsed' BY <1>1, <1>4 DEF AccountsInv, OriginsAreUsed
  <1>6. \A j \in Tokens : session[j].state # "unused" => session[j].origin # k
    BY DEF Login, AccountsInv, OriginsAreUsed
  <1>7. RenewalNeverForks'
    BY <1>4, <1>6 DEF AccountsInv, RenewalNeverForks, Live
  <1>8. UNCHANGED <<identityVars, relationVars>> /\ revoking' \in [Accounts -> SUBSET Tokens]
    BY DEF Login, AccountsInv, AccountTypes, AccountsTypeOK
  <1> QED BY <1>4, <1>5, <1>7, <1>8, SessionStepKeeps

(* A renewal replaces one live session by one.                              *)
LEMMA RenewKeeps ==
    ASSUME AccountsInv, NEW k \in Tokens, NEW n \in Tokens, Renew(k, n)
    PROVE  AccountsInv'
  <1>1. /\ session \in [Tokens -> SessionRow] /\ k # n
        /\ session[k].state = "live" /\ session[n].state = "unused"
    BY DEF AccountsInv, AccountTypes, AccountsTypeOK, Renew, Live
  <1> DEFINE old == [session[k] EXCEPT !.state = "revoked"]
             new == [account |-> session[k].account, origin |-> session[k].origin, state |-> "live"]
  <1>2. /\ old \in SessionRow /\ new \in SessionRow
        /\ old.origin = session[k].origin /\ old.state = "revoked"
    BY <1>1 DEF SessionRow
  <1>3. session' = [session EXCEPT ![k] = old, ![n] = new] BY <1>1 DEF Renew
  <1>4. /\ session' \in [Tokens -> SessionRow] /\ session'[k] = old /\ session'[n] = new
        /\ \A j \in Tokens \ {k, n} : session'[j] = session[j]
    <2> HIDE DEF old, new
    <2> QED BY <1>1, <1>2, <1>3
  <1>5. OriginsAreUsed'
    <2>1. \A j \in Tokens : session[j].state # "unused" => session'[j].state # "unused"
      BY <1>1, <1>2, <1>4
    <2>2. \A j \in Tokens \ {n} : session'[j].origin = session[j].origin
      BY <1>2, <1>4
    <2>3. session'[n].origin = session[k].origin BY <1>4
    <2>4. \A j \in Tokens \ {n} : session'[j].state # "unused" => session[j].state # "unused"
      BY <1>1, <1>4
    <2> QED BY <1>1, <2>1, <2>2, <2>3, <2>4 DEF AccountsInv, OriginsAreUsed
  <1>6. RenewalNeverForks'
    <2> SUFFICES ASSUME NEW i \in Tokens, NEW j \in Tokens, session'[i].state = "live",
                        session'[j].state = "live", session'[i].origin = session'[j].origin, i # j
                 PROVE  FALSE
      BY DEF RenewalNeverForks, Live
    <2>1. i # k /\ j # k BY <1>2, <1>4
    <2> DEFINE before(x) == IF x = n THEN k ELSE x
    <2>2. \A x \in Tokens \ {k} : session'[x].state = "live" =>
            /\ session[before(x)].state = "live" /\ session[before(x)].origin = session'[x].origin
      BY <1>1, <1>4
    <2>3. before(i) # before(j) /\ before(i) \in Tokens /\ before(j) \in Tokens BY <2>1
    <2> HIDE DEF before
    <2> QED BY <2>1, <2>2, <2>3 DEF AccountsInv, RenewalNeverForks, Live
  <1>7. UNCHANGED <<identityVars, relationVars>> /\ revoking' \in [Accounts -> SUBSET Tokens]
    BY DEF Renew, AccountsInv, AccountTypes, AccountsTypeOK
  <1> QED BY <1>4, <1>5, <1>6, <1>7, SessionStepKeeps

(* A logout, a global one or time ends sessions and begins none.            *)
LEMMA EndingKeeps ==
    ASSUME AccountsInv, UNCHANGED <<identityVars, relationVars>>,
           session' \in [Tokens -> SessionRow], revoking' \in [Accounts -> SUBSET Tokens],
           \A j \in Tokens : \/ session'[j] = session[j]
                             \/ /\ session[j].state = "live" /\ session'[j].origin = session[j].origin
                                /\ session'[j].state \in {"revoked", "expired"}
    PROVE  AccountsInv'
  <1>1. OriginsAreUsed'
    <2>1. \A j \in Tokens : /\ session'[j].origin = session[j].origin
                            /\ session'[j].state = "unused" <=> session[j].state = "unused"
      OBVIOUS
    <2> QED BY <2>1 DEF AccountsInv, OriginsAreUsed
  <1>2. RenewalNeverForks' BY DEF AccountsInv, RenewalNeverForks, Live
  <1> QED BY <1>1, <1>2, SessionStepKeeps

(* Logging out, expiring and revoking end sessions and begin none.          *)
LEMMA SessionsEnd ==
    ASSUME AccountsInv,
           \/ \E k \in Tokens : Logout(k) \/ SessionExpires(k)
           \/ \E a \in Accounts : RevokeAllRead(a) \/ RevokeAll(a)
    PROVE  AccountsInv'
  <1>1. session \in [Tokens -> SessionRow] /\ revoking \in [Accounts -> SUBSET Tokens]
    BY DEF AccountsInv, AccountTypes, AccountsTypeOK
  <1>2. \A k \in Tokens, state \in {"revoked", "expired"} :
          /\ [session[k] EXCEPT !.state = state] \in SessionRow
          /\ [session[k] EXCEPT !.state = state].state = state
          /\ [session[k] EXCEPT !.state = state].origin = session[k].origin
    BY <1>1 DEF SessionRow
  <1>3. ASSUME NEW k \in Tokens, NEW state \in {"revoked", "expired"}, Live(k),
               session' = [session EXCEPT ![k].state = state],
               UNCHANGED <<identityVars, revoking, relationVars>>
        PROVE  AccountsInv'
    <2> DEFINE row == [session[k] EXCEPT !.state = state]
    <2>1. session' = [session EXCEPT ![k] = row] BY <1>3
    <2>2. row \in SessionRow /\ row.state = state /\ row.origin = session[k].origin BY <1>2
    <2> HIDE DEF row
    <2> QED BY <1>1, <1>3, <2>1, <2>2, EndingKeeps DEF Live
  <1>4. ASSUME NEW a \in Accounts, RevokeAllRead(a) PROVE AccountsInv'
    BY <1>1, <1>4, EndingKeeps DEF RevokeAllRead
  <1>5. ASSUME NEW a \in Accounts, RevokeAll(a) PROVE AccountsInv'
    <2>1. \A j \in Tokens : session'[j] = IF j \in revoking[a] /\ Live(j)
                                          THEN [session[j] EXCEPT !.state = "revoked"] ELSE session[j]
      BY <1>5 DEF RevokeAll
    <2>2. session' \in [Tokens -> SessionRow]
      BY <1>1, <1>2, <1>5 DEF RevokeAll
    <2>3. \A j \in Tokens : \/ session'[j] = session[j]
                            \/ /\ session[j].state = "live" /\ session'[j].origin = session[j].origin
                               /\ session'[j].state \in {"revoked", "expired"}
      BY <1>2, <2>1 DEF Live
    <2>4. UNCHANGED <<identityVars, relationVars>> /\ revoking' \in [Accounts -> SUBSET Tokens]
      BY <1>1, <1>5 DEF RevokeAll
    <2> QED BY <2>2, <2>3, <2>4, EndingKeeps
  <1> QED BY <1>3, <1>4, <1>5 DEF Logout, SessionExpires

(* A step of the relations keeps the invariant if it keeps their part of    *)
(* it.                                                                      *)
LEMMA RelationStepKeeps ==
    ASSUME AccountsInv, UNCHANGED <<identityVars, sessionVars>>,
           relation' \in [Requests -> RelationRow], sending' \in [Requests -> SendingRow],
           ContactsAreAccepted'
    PROVE  AccountsInv'
  <1>1. AccountTypes'
    BY DEF identityVars, sessionVars, AccountsInv, AccountTypes, AccountsTypeOK
  <1> QED BY <1>1, IdentityStays, SessionsStay DEF AccountsInv, sessionVars

(* The routes of relations between teams.                                   *)
LEMMA RelationsKeep ==
    ASSUME AccountsInv, NEW r \in Requests,
           \/ \E by \in Accounts, u \in Teams : SendRelationRead(r, by, u)
           \/ SendRelationInsert(r)
           \/ \E by \in Accounts, accept \in BOOLEAN : DecideRelation(r, by, accept)
    PROVE  AccountsInv'
  <1>1. relation \in [Requests -> RelationRow] /\ sending \in [Requests -> SendingRow]
    BY DEF AccountsInv, AccountTypes, AccountsTypeOK
  <1>2. NoRelation \in SendingRow /\ SendingRow \subseteq RelationRow
    BY DEF NoRelation, SendingRow, RelationRow
  <1>3. ASSUME NEW by \in Accounts, NEW u \in Teams, SendRelationRead(r, by, u) PROVE AccountsInv'
    <2>1. [status |-> "pending", from |-> TeamOf[by], to |-> u] \in SendingRow
      BY AccountParameters DEF SendingRow
    <2>2. sending' \in [Requests -> SendingRow] /\ UNCHANGED <<identityVars, sessionVars, relation, contacts>>
      BY <1>1, <1>3, <2>1 DEF SendRelationRead
    <2>3. \A q \in Requests : sending'[q].status = "pending" => relation[q].status = "none"
      BY <1>1, <1>3 DEF SendRelationRead, AccountsInv, ContactsAreAccepted
    <2>4. ContactsAreAccepted'
      BY <2>2, <2>3 DEF AccountsInv, ContactsAreAccepted, AcceptedRelations, Pair
    <2> QED BY <1>1, <2>2, <2>4, RelationStepKeeps
  <1>4. ASSUME SendRelationInsert(r) PROVE AccountsInv'
    <2>1. /\ relation' = [relation EXCEPT ![r] = sending[r]]
          /\ sending' = [sending EXCEPT ![r] = NoRelation]
          /\ UNCHANGED <<identityVars, sessionVars, contacts>>
          /\ sending[r].status = "pending"
      BY <1>4 DEF SendRelationInsert
    <2>2. relation[r].status = "none" BY <2>1 DEF AccountsInv, ContactsAreAccepted
    <2>3. relation' \in [Requests -> RelationRow] /\ sending' \in [Requests -> SendingRow]
      BY <1>1, <1>2, <2>1
    <2>4. AcceptedRelations' = AcceptedRelations
      BY <1>1, <2>1, <2>2 DEF AcceptedRelations
    <2>5. \A q \in AcceptedRelations : relation'[q] = relation[q]
      BY <1>1, <2>1, <2>2 DEF AcceptedRelations
    <2>6. \A q \in Requests : sending'[q].status = "pending" => relation'[q].status = "none"
      BY <1>1, <2>1 DEF AccountsInv, ContactsAreAccepted, NoRelation
    <2>7. \A q \in AcceptedRelations : Pair(q)' = Pair(q) BY <2>5 DEF Pair
    <2>8. contacts' = {Pair(q)' : q \in AcceptedRelations'}
      BY <2>1, <2>4, <2>7 DEF AccountsInv, ContactsAreAccepted
    <2>9. \A p, q \in AcceptedRelations' : Pair(p)' = Pair(q)' => p = q
      BY <2>4, <2>7 DEF AccountsInv, ContactsAreAccepted
    <2>10. ContactsAreAccepted' BY <2>6, <2>8, <2>9 DEF ContactsAreAccepted
    <2> QED BY <2>1, <2>3, <2>10, RelationStepKeeps
  <1>5. ASSUME NEW by \in Accounts, NEW accept \in BOOLEAN, DecideRelation(r, by, accept)
        PROVE  AccountsInv'
    <2> DEFINE status == IF accept THEN "accepted" ELSE "declined"
               row == [relation[r] EXCEPT !.status = status]
    <2>1. /\ relation' = [relation EXCEPT ![r] = row]
          /\ UNCHANGED <<identityVars, sessionVars, sending>>
          /\ relation[r].status = "pending"
          /\ contacts' = IF accept THEN contacts \cup {Pair(r)} ELSE contacts
          /\ accept => Pair(r) \notin contacts
      BY <1>5 DEF DecideRelation, Pair, ContactConflict
    <2>2. /\ row \in RelationRow /\ row.status = status
          /\ row.from = relation[r].from /\ row.to = relation[r].to
      BY <1>1 DEF RelationRow
    <2> HIDE DEF row
    <2>3. /\ relation' \in [Requests -> RelationRow] /\ relation'[r] = row
          /\ \A q \in Requests : q # r => relation'[q] = relation[q]
      BY <1>1, <2>1, <2>2
    <2>4. AcceptedRelations' = AcceptedRelations \cup IF accept THEN {r} ELSE {}
      BY <2>1, <2>2, <2>3 DEF AcceptedRelations
    <2>5. \A q \in Requests : Pair(q)' = Pair(q)
      BY <2>2, <2>3 DEF Pair
    <2>6. AcceptedRelations \subseteq Requests BY DEF AcceptedRelations
    <2>7. contacts' = {Pair(q)' : q \in AcceptedRelations'}
      BY <2>1, <2>4, <2>5, <2>6 DEF AccountsInv, ContactsAreAccepted
    <2>8. \A p, q \in AcceptedRelations' : Pair(p)' = Pair(q)' => p = q
      BY <2>1, <2>4, <2>5, <2>6 DEF AccountsInv, ContactsAreAccepted
    <2>9. \A q \in Requests : sending'[q].status = "pending" => relation'[q].status = "none"
      BY <2>1, <2>3 DEF AccountsInv, ContactsAreAccepted
    <2>10. ContactsAreAccepted' BY <2>7, <2>8, <2>9 DEF ContactsAreAccepted
    <2> QED BY <1>1, <2>1, <2>3, <2>10, RelationStepKeeps
  <1> QED BY <1>3, <1>4, <1>5

(* Every step keeps the invariant.                                          *)
LEMMA AccountsStepKeeps ==
    ASSUME AccountsInv, AccountsNext
    PROVE  AccountsInv'
  <1>1. CASE PublicRoutes
    BY <1>1, RegisterTeamKeeps, RequestRegistrationKeeps, ChangePasswordKeeps, LoginKeeps,
       RenewKeeps, SessionsEnd DEF PublicRoutes
  <1>2. CASE AccountRoutes
    BY <1>2, DecideRegistrationKeeps, SessionsEnd, RelationsKeep DEF AccountRoutes
  <1>3. CASE AccountSteps
    BY <1>3, ProvisionReadKeeps, ProvisionInsertKeeps, SessionsEnd, RelationsKeep DEF AccountSteps
  <1> QED BY <1>1, <1>2, <1>3 DEF AccountsNext

(* A stuttering step keeps the invariant.                                   *)
LEMMA AccountsStutter ==
    ASSUME AccountsInv, UNCHANGED accountVars
    PROVE  AccountsInv'
  <1>1. UNCHANGED <<identityVars, sessionVars, relationVars>>
    BY DEF accountVars, identityVars, sessionVars, relationVars
  <1>2. AccountTypes'
    BY <1>1 DEF identityVars, sessionVars, relationVars, AccountsInv, AccountTypes, AccountsTypeOK
  <1> QED BY <1>1, <1>2, IdentityStays, SessionsStay, RelationsStay DEF AccountsInv, sessionVars

(* The invariant says what the run checks: the sets are empty or            *)
(* singletons.                                                              *)
LEMMA AccountsInvImplies == AccountsInv => AccountsAgree
  <1> SUFFICES ASSUME AccountsInv PROVE AccountsAgree OBVIOUS
  <1>1. FirstAccountOwns
    <2> SUFFICES ASSUME NEW t \in Teams, TeamMembers(t) # {}
                 PROVE  Cardinality({a \in TeamMembers(t) : account[a].role = "owner"}) = 1
      BY DEF FirstAccountOwns
    <2>1. t \in teams BY DEF AccountsInv, TeamsAreOwned, TeamMembers
    <2>2. PICK a \in Accounts : TeamOf[a] = t /\ account[a].role = "owner"
      BY <2>1 DEF AccountsInv, TeamsAreOwned
    <2>3. {b \in TeamMembers(t) : account[b].role = "owner"} = {a}
      BY <2>2 DEF AccountsInv, TeamsAreOwned, TeamMembers, Exists
    <2> QED BY <2>3, FS_Singleton
  <1>2. RelatedByOneRequest
    <2> SUFFICES ASSUME NEW pair \in SUBSET Teams
                 PROVE  Cardinality({r \in Requests : relation[r].status = "accepted"
                                          /\ {relation[r].from, relation[r].to} = pair})
                        = IF pair \in contacts THEN 1 ELSE 0
      BY DEF RelatedByOneRequest
    <2> DEFINE S == {r \in Requests : relation[r].status = "accepted"
                                          /\ {relation[r].from, relation[r].to} = pair}
    <2>1. S = {r \in AcceptedRelations : Pair(r) = pair} BY DEF AcceptedRelations, Pair
    <2> HIDE DEF S
    <2>2. CASE pair \in contacts
      <3>1. PICK r \in AcceptedRelations : Pair(r) = pair
        BY <2>2 DEF AccountsInv, ContactsAreAccepted
      <3>2. S = {r} BY <2>1, <3>1 DEF AccountsInv, ContactsAreAccepted
      <3> QED BY <2>2, <3>2, FS_Singleton DEF S
    <2>3. CASE pair \notin contacts
      <3>1. S = {} BY <2>1, <2>3 DEF AccountsInv, ContactsAreAccepted
      <3> QED BY <2>3, <3>1, FS_EmptySet DEF S
    <2> QED BY <2>2, <2>3
  <1> QED BY <1>1, <1>2 DEF AccountsAgree, AccountsInv, AccountTypes

(* Founding a team, renewing a session and relating two teams each race     *)
(* with themselves (register, provision, renew, request_contact): whatever  *)
(* the interleaving, the first account owns its team, a renewal never forks *)
(* a session, and two teams are related by one request.                     *)
THEOREM AccountsAlwaysAgree == AccountsSpec => []AccountsAgree
  <1>1. AccountsInv /\ [AccountsNext]_accountVars => AccountsInv'
    BY AccountsStepKeeps, AccountsStutter
  <1> QED BY <1>1, AccountsInvInit, AccountsInvImplies, PTL DEF AccountsSpec

-----------------------------------------------------------------------------
(* Library                                                                  *)

(* A command under way: an upload whose bytes are stored, or a command       *)
(* whose authorisation still holds of what cannot be taken back.             *)
CommandSound(a, c) ==
    \/ c = Idle
    \/ \E r \in Resources, x \in Contents :
          c = [kind |-> "bind", resource |-> r, content |-> x] /\ stored[r] = x
    \/ \E r \in Resources :
          /\ c = [kind |-> "save", resource |-> r, arg |-> Nothing]
          /\ Published(r) /\ (UserTeam[a] # resource[r].owner => r \in announced)
    \/ \E r \in Resources, t \in UserTeams : c = [kind |-> "share", resource |-> r, arg |-> t]
    \/ \E r \in Resources, p \in {"team_private", "project_readonly"} :
          c = [kind |-> "restrict", resource |-> r, arg |-> p] /\ Published(r)

PortableIsAnnounced ==
    \A r \in Resources : Published(r) /\ resource[r].propagation = "portable" => r \in announced

CopiesAreSound ==
    \A e \in library : /\ e[1] \in Users /\ e[2] \in Resources /\ Published(e[2])
                       /\ UserTeam[e[1]] # resource[e[2]].owner => e[2] \in announced

ContentIsStored ==
    \A r \in Resources : Published(r) => resource[r].content = stored[r] /\ stored[r] # Nothing

LibraryInv ==
    /\ LibraryTypeOK /\ ContentIsStored /\ PortableIsAnnounced /\ CopiesAreSound
    /\ copyCommand = [a \in Users |-> copyCommand[a]]
    /\ \A a \in Users : CommandSound(a, copyCommand[a])

(* What no step takes back: stored bytes, the owner of a published           *)
(* resource, an announcement.                                                *)
LibraryGrows ==
    /\ \A r \in Resources : /\ stored[r] # Nothing => stored'[r] = stored[r]
                            /\ Published(r) => Published(r)' /\ resource'[r].owner = resource[r].owner
    /\ announced \subseteq announced'

(* The command of another account stays sound: what it was authorised by is *)
(* never undone.                                                            *)
LEMMA CommandKept ==
    ASSUME LibraryInv, LibraryGrows, NEW a, NEW c, CommandSound(a, c)
    PROVE  CommandSound(a, c)'
  <1>1. CASE c = Idle BY <1>1 DEF CommandSound
  <1>2. ASSUME NEW r \in Resources, NEW x \in Contents,
               c = [kind |-> "bind", resource |-> r, content |-> x], stored[r] = x
        PROVE  CommandSound(a, c)'
    <2>1. stored'[r] = x BY <1>2, LibraryParameters DEF LibraryGrows
    <2> QED BY <1>2, <2>1 DEF CommandSound
  <1>3. ASSUME NEW r \in Resources, c = [kind |-> "save", resource |-> r, arg |-> Nothing],
               Published(r), UserTeam[a] # resource[r].owner => r \in announced
        PROVE  CommandSound(a, c)'
    <2>1. Published(r)' /\ (UserTeam[a] # resource'[r].owner => r \in announced')
      BY <1>3 DEF LibraryGrows
    <2> QED BY <1>3, <2>1 DEF CommandSound
  <1>4. ASSUME NEW r \in Resources, NEW t \in UserTeams,
               c = [kind |-> "share", resource |-> r, arg |-> t]
        PROVE  CommandSound(a, c)'
    BY <1>4 DEF CommandSound
  <1>5. ASSUME NEW r \in Resources, NEW p \in {"team_private", "project_readonly"},
               c = [kind |-> "restrict", resource |-> r, arg |-> p], Published(r)
        PROVE  CommandSound(a, c)'
    <2>1. Published(r)' BY <1>5 DEF LibraryGrows
    <2> QED BY <1>5, <2>1 DEF CommandSound
  <1> QED BY <1>1, <1>2, <1>3, <1>4, <1>5 DEF CommandSound

(* The fields of a command are told apart by its kind.                      *)
LEMMA CommandKinds ==
    ASSUME NEW a, NEW c, CommandSound(a, c)
    PROVE  /\ c.kind = "bind" => \E r \in Resources, x \in Contents :
                c = [kind |-> "bind", resource |-> r, content |-> x] /\ stored[r] = x
           /\ c.kind = "save" => \E r \in Resources :
                /\ c = [kind |-> "save", resource |-> r, arg |-> Nothing]
                /\ Published(r) /\ (UserTeam[a] # resource[r].owner => r \in announced)
           /\ c.kind = "share" => \E r \in Resources, t \in UserTeams :
                c = [kind |-> "share", resource |-> r, arg |-> t]
           /\ c.kind = "restrict" => \E r \in Resources, p \in {"team_private", "project_readonly"} :
                c = [kind |-> "restrict", resource |-> r, arg |-> p] /\ Published(r)
  <1>1. CASE c = Idle
    <2>1. c.kind = "none" BY <1>1 DEF Idle
    <2> QED BY <2>1
  <1>2. CASE \E r \in Resources, x \in Contents :
               c = [kind |-> "bind", resource |-> r, content |-> x] /\ stored[r] = x
    <2>1. c.kind = "bind" BY <1>2
    <2> QED BY <1>2, <2>1
  <1>3. CASE \E r \in Resources :
               /\ c = [kind |-> "save", resource |-> r, arg |-> Nothing]
               /\ Published(r) /\ (UserTeam[a] # resource[r].owner => r \in announced)
    <2>1. c.kind = "save" BY <1>3
    <2> QED BY <1>3, <2>1
  <1>4. CASE \E r \in Resources, t \in UserTeams : c = [kind |-> "share", resource |-> r, arg |-> t]
    <2>1. c.kind = "share" BY <1>4
    <2> QED BY <1>4, <2>1
  <1>5. CASE \E r \in Resources, p \in {"team_private", "project_readonly"} :
               c = [kind |-> "restrict", resource |-> r, arg |-> p] /\ Published(r)
    <2>1. c.kind = "restrict" BY <1>5
    <2> QED BY <1>5, <2>1
  <1> QED BY <1>1, <1>2, <1>3, <1>4, <1>5 DEF CommandSound

(* One account's command moves on, the others keep theirs.                   *)
LEMMA CommandsMove ==
    ASSUME LibraryInv, LibraryGrows, NEW a \in Users, NEW c, CommandSound(a, c)',
           copyCommand' = [copyCommand EXCEPT ![a] = c]
    PROVE  /\ copyCommand' = [b \in Users |-> copyCommand'[b]]
           /\ \A b \in Users : CommandSound(b, copyCommand[b])'
  <1>1. \A b \in Users : copyCommand'[b] = IF b = a THEN c ELSE copyCommand[b]
    BY DEF LibraryInv
  <1>2. \A b \in Users : CommandSound(b, copyCommand[b]) BY DEF LibraryInv
  <1>3. ASSUME NEW b \in Users PROVE CommandSound(b, copyCommand[b])'
    <2>1. CASE b = a
      <3>1. copyCommand'[b] = c BY <1>1, <2>1
      <3> QED BY <2>1, <3>1 DEF CommandSound, Published
    <2>2. CASE b # a
      <3>1. PICK d : d = copyCommand[b] OBVIOUS
      <3>2. CommandSound(b, d)' BY <1>2, <3>1, CommandKept
      <3>3. copyCommand'[b] = d BY <1>1, <2>2, <3>1
      <3> QED BY <3>2, <3>3 DEF CommandSound, Published
    <2> QED BY <2>1, <2>2
  <1>4. copyCommand' = [b \in Users |-> copyCommand'[b]] BY <1>1 DEF LibraryInv
  <1> QED BY <1>3, <1>4

(* A step that leaves resources, bytes and announcements alone undoes none. *)
LEMMA ResourcesGrow ==
    ASSUME UNCHANGED <<stored, resource, announced>> PROVE LibraryGrows
  BY DEF LibraryGrows, Published

(* An account without a command has nothing to justify.                     *)
LEMMA IdleIsSound == \A a : CommandSound(a, Idle) /\ CommandSound(a, Idle)'
  BY DEF CommandSound

(* No resource, project or command is there at first.                       *)
LEMMA LibraryInvInit == LibraryInit => LibraryInv
  BY DEF LibraryInit, LibraryInv, LibraryTypeOK, ProjectRow, ResourceRow, NoResource, Propagations,
     ContentIsStored, PortableIsAnnounced, CopiesAreSound, Published, CommandSound, Idle

(* A project is created or joined.                                          *)
LEMMA ProjectKeeps ==
    ASSUME LibraryInv, ProjectRoutes PROVE LibraryInv'
  <1>1. UNCHANGED <<stored, resource, announced, shares, library, copyCommand>>
    BY DEF ProjectRoutes, CreateProject, AddTeam
  <1>2. project' \in ProjectRow
    <2>1. ASSUME NEW a \in Users, CreateProject(a) PROVE project' \in ProjectRow
      BY <2>1 DEF CreateProject, ProjectRow, UserTeams
    <2>2. ASSUME NEW a \in Users, NEW t \in UserTeams, AddTeam(a, t) PROVE project' \in ProjectRow
      BY <2>2 DEF AddTeam, ProjectRow, LibraryInv, LibraryTypeOK
    <2> QED BY <2>1, <2>2 DEF ProjectRoutes
  <1>3. \A a \in Users : CommandSound(a, copyCommand[a])'
    BY <1>1 DEF LibraryInv, CommandSound, Published
  <1> QED
    BY <1>1, <1>2, <1>3 DEF LibraryInv, LibraryTypeOK, ContentIsStored, PortableIsAnnounced,
       CopiesAreSound, Published

(* The steps of an upload.                                                  *)
LEMMA UploadKeeps ==
    ASSUME LibraryInv, UploadRoutes PROVE LibraryInv'
  <1> PICK a \in Users :
        \/ \E r \in Resources, c \in Contents : StoreContent(a, r, c)
        \/ \E p \in Propagations : BindContent(a, p)
        \/ Interrupted(a)
    BY DEF UploadRoutes
  <1>0. LibraryTypeOK /\ ContentIsStored /\ PortableIsAnnounced /\ CopiesAreSound
    BY DEF LibraryInv
  <1>1. ASSUME NEW r \in Resources, NEW c \in Contents, StoreContent(a, r, c) PROVE LibraryInv'
    <2> DEFINE new == [kind |-> "bind", resource |-> r, content |-> c]
    <2>1. /\ stored' = [stored EXCEPT ![r] = c] /\ stored[r] \in {Nothing, c}
          /\ copyCommand' = [copyCommand EXCEPT ![a] = new]
          /\ UNCHANGED <<project, resource, announced, shares, library>>
      BY <1>1 DEF StoreContent, FreshKey
    <2>2. \A s \in Resources : stored'[s] = IF s = r THEN c ELSE stored[s]
      BY <1>0, <2>1 DEF LibraryTypeOK
    <2>3. LibraryGrows BY <2>1, <2>2 DEF LibraryGrows, Published
    <2>4. CommandSound(a, new)' BY <2>2 DEF CommandSound
    <2> HIDE DEF new
    <2>5. /\ copyCommand' = [b \in Users |-> copyCommand'[b]]
          /\ \A b \in Users : CommandSound(b, copyCommand[b])'
      BY <2>1, <2>3, <2>4, CommandsMove
    <2>6. ContentIsStored' BY <1>0, <2>1, <2>2 DEF ContentIsStored, Published
    <2>7. LibraryTypeOK' BY <1>0, <2>1 DEF LibraryTypeOK
    <2>8. PortableIsAnnounced' /\ CopiesAreSound'
      BY <1>0, <2>1 DEF PortableIsAnnounced, CopiesAreSound, Published
    <2> QED BY <2>5, <2>6, <2>7, <2>8 DEF LibraryInv
  <1>2. ASSUME NEW p \in Propagations, BindContent(a, p) PROVE LibraryInv'
    <2>0. PICK r \in Resources, c \in Contents :
            copyCommand[a] = [kind |-> "bind", resource |-> r, content |-> c] /\ stored[r] = c
      <3>1. CommandSound(a, copyCommand[a]) /\ copyCommand[a].kind = "bind"
        BY <1>2 DEF LibraryInv, BindContent
      <3> QED BY <3>1, CommandKinds
    <2> DEFINE row == [owner |-> UserTeam[a], by |-> a, content |-> c, propagation |-> p]
    <2>1. /\ copyCommand' = [copyCommand EXCEPT ![a] = Idle]
          /\ UNCHANGED <<project, stored, shares, library>>
          /\ IF Published(r) \/ ~Participates(a)
             THEN UNCHANGED <<resource, announced>>
             ELSE /\ resource' = [resource EXCEPT ![r] = row]
                  /\ announced' = IF p = "team_private" THEN announced ELSE announced \cup {r}
      BY <1>2, <2>0 DEF BindContent
    <2>2. CASE Published(r) \/ ~Participates(a)
      <3>1. UNCHANGED <<project, stored, shares, library, resource, announced>> BY <2>1, <2>2
      <3>2. /\ copyCommand' = [b \in Users |-> copyCommand'[b]]
            /\ \A b \in Users : CommandSound(b, copyCommand[b])'
        BY <2>1, <3>1, ResourcesGrow, IdleIsSound, CommandsMove
      <3> QED
        BY <1>0, <3>1, <3>2 DEF LibraryInv, LibraryTypeOK, ContentIsStored, PortableIsAnnounced,
           CopiesAreSound, Published
    <2>3. CASE ~(Published(r) \/ ~Participates(a))
      <3>1. /\ resource' = [resource EXCEPT ![r] = row]
            /\ announced' = IF p = "team_private" THEN announced ELSE announced \cup {r}
            /\ ~Published(r)
        BY <2>1, <2>3
      <3>2. row \in ResourceRow /\ row.owner # Nothing /\ UserTeam[a] \in UserTeams
        BY LibraryParameters DEF ResourceRow, UserTeams
      <3>3. \A s \in Resources : resource'[s] = IF s = r THEN row ELSE resource[s]
        BY <1>0, <3>1 DEF LibraryTypeOK
      <3>4. row.content = c /\ row.propagation = p OBVIOUS
      <3> HIDE DEF row
      <3>5. LibraryGrows BY <2>1, <3>1, <3>2, <3>3 DEF LibraryGrows, Published
      <3>6. /\ copyCommand' = [b \in Users |-> copyCommand'[b]]
            /\ \A b \in Users : CommandSound(b, copyCommand[b])'
        BY <2>1, <3>5, IdleIsSound, CommandsMove
      <3>7. LibraryTypeOK' BY <1>0, <2>1, <3>1, <3>2 DEF LibraryTypeOK
      <3>8. ContentIsStored'
        BY <1>0, <2>0, <2>1, <3>3, <3>4, LibraryParameters DEF ContentIsStored, Published
      <3>9. PortableIsAnnounced'
        BY <1>0, <3>1, <3>3, <3>4 DEF PortableIsAnnounced, Published
      <3>10. CopiesAreSound'
        BY <1>0, <2>1, <3>1, <3>2, <3>3 DEF CopiesAreSound, Published
      <3> QED BY <3>6, <3>7, <3>8, <3>9, <3>10 DEF LibraryInv
    <2> QED BY <2>2, <2>3
  <1>3. CASE Interrupted(a)
    <2>1. /\ copyCommand' = [copyCommand EXCEPT ![a] = Idle]
          /\ UNCHANGED <<project, stored, resource, announced, shares, library>>
      BY <1>3 DEF Interrupted
    <2>2. /\ copyCommand' = [b \in Users |-> copyCommand'[b]]
          /\ \A b \in Users : CommandSound(b, copyCommand[b])'
      BY <2>1, ResourcesGrow, IdleIsSound, CommandsMove
    <2> QED
      BY <1>0, <2>1, <2>2 DEF LibraryInv, LibraryTypeOK, ContentIsStored, PortableIsAnnounced,
         CopiesAreSound, Published
  <1> QED BY <1>1, <1>2, <1>3

(* A command begins or ends and leaves the resources alone.                 *)
LEMMA CommandKeeps ==
    ASSUME LibraryInv, NEW a \in Users, NEW c, CommandSound(a, c),
           copyCommand' = [copyCommand EXCEPT ![a] = c],
           UNCHANGED <<project, stored, resource, announced, shares, library>>
    PROVE  LibraryInv'
  <1>1. LibraryGrows BY ResourcesGrow
  <1>2. CommandSound(a, c)' BY <1>1, CommandKept
  <1>3. /\ copyCommand' = [b \in Users |-> copyCommand'[b]]
        /\ \A b \in Users : CommandSound(b, copyCommand[b])'
    BY <1>1, <1>2, CommandsMove
  <1> QED
    BY <1>3 DEF LibraryInv, LibraryTypeOK, ContentIsStored, PortableIsAnnounced, CopiesAreSound, Published

(* The steps of a command about a resource.                                 *)
LEMMA ResourceKeeps ==
    ASSUME LibraryInv, ResourceRoutes PROVE LibraryInv'
  <1> PICK a \in Users :
        \/ \E r \in Resources :
              \/ AuthoriseSave(a, r)
              \/ \E t \in UserTeams \ {UserTeam[a]} : AuthoriseShare(a, r, t)
              \/ \E p \in Propagations : ReadPropagation(a, r, p)
        \/ SaveToLibrary(a) \/ ShareWithTeam(a) \/ UpdatePropagation(a)
    BY DEF ResourceRoutes
  <1>0. /\ LibraryTypeOK /\ ContentIsStored /\ PortableIsAnnounced /\ CopiesAreSound
        /\ CommandSound(a, copyCommand[a])
    BY DEF LibraryInv
  <1>1. ASSUME NEW r \in Resources, AuthoriseSave(a, r) PROVE LibraryInv'
    <2> DEFINE c == [kind |-> "save", resource |-> r, arg |-> Nothing]
    <2>1. /\ copyCommand' = [copyCommand EXCEPT ![a] = c] /\ Allowed(a, r, "save", TRUE)
          /\ UNCHANGED <<project, stored, resource, announced, shares, library>>
      BY <1>1 DEF AuthoriseSave, Authorise
    <2>2. Published(r) /\ (UserTeam[a] # resource[r].owner => r \in announced)
      BY <1>0, <2>1 DEF Allowed, PortableIsAnnounced
    <2>3. CommandSound(a, c) BY <2>2 DEF CommandSound
    <2> HIDE DEF c
    <2> QED BY <2>1, <2>3, CommandKeeps
  <1>2. ASSUME NEW r \in Resources, NEW t \in UserTeams, AuthoriseShare(a, r, t) PROVE LibraryInv'
    <2> DEFINE c == [kind |-> "share", resource |-> r, arg |-> t]
    <2>1. /\ copyCommand' = [copyCommand EXCEPT ![a] = c]
          /\ UNCHANGED <<project, stored, resource, announced, shares, library>>
      BY <1>2 DEF AuthoriseShare, Authorise
    <2>2. CommandSound(a, c) BY DEF CommandSound
    <2> HIDE DEF c
    <2> QED BY <2>1, <2>2, CommandKeeps
  <1>3. ASSUME NEW r \in Resources, NEW p \in Propagations, ReadPropagation(a, r, p)
        PROVE  LibraryInv'
    <2> DEFINE c == [kind |-> "restrict", resource |-> r, arg |-> p]
    <2>1. /\ copyCommand' = [copyCommand EXCEPT ![a] = c]
          /\ UNCHANGED <<project, stored, resource, announced, shares, library>>
          /\ Published(r) /\ p \in {"team_private", "project_readonly"}
      BY <1>3 DEF ReadPropagation, Authorise
    <2>2. CommandSound(a, c) BY <2>1 DEF CommandSound
    <2> HIDE DEF c
    <2> QED BY <2>1, <2>2, CommandKeeps
  <1>4. CASE SaveToLibrary(a)
    <2>1. PICK r \in Resources :
            /\ copyCommand[a] = [kind |-> "save", resource |-> r, arg |-> Nothing]
            /\ Published(r) /\ (UserTeam[a] # resource[r].owner => r \in announced)
      BY <1>0, <1>4, CommandKinds DEF SaveToLibrary
    <2>2. /\ library' = library \cup {<<a, r>>} /\ copyCommand' = [copyCommand EXCEPT ![a] = Idle]
          /\ UNCHANGED <<project, stored, resource, announced, shares>>
      BY <1>4, <2>1 DEF SaveToLibrary
    <2>3. CopiesAreSound' BY <1>0, <2>1, <2>2 DEF CopiesAreSound, Published
    <2>4. /\ copyCommand' = [b \in Users |-> copyCommand'[b]]
          /\ \A b \in Users : CommandSound(b, copyCommand[b])'
      BY <2>2, ResourcesGrow, IdleIsSound, CommandsMove
    <2> QED
      BY <1>0, <2>2, <2>3, <2>4 DEF LibraryInv, LibraryTypeOK, ContentIsStored, PortableIsAnnounced,
         Published
  <1>5. CASE ShareWithTeam(a)
    <2>1. PICK r \in Resources, t \in UserTeams :
            copyCommand[a] = [kind |-> "share", resource |-> r, arg |-> t]
      BY <1>0, <1>5, CommandKinds DEF ShareWithTeam
    <2>2. /\ shares' \subseteq shares \cup {<<r, t>>} /\ copyCommand' = [copyCommand EXCEPT ![a] = Idle]
          /\ UNCHANGED <<project, stored, resource, announced, library>>
      BY <1>5, <2>1 DEF ShareWithTeam
    <2>3. shares' \subseteq Resources \X UserTeams BY <1>0, <2>2 DEF LibraryTypeOK
    <2>4. /\ copyCommand' = [b \in Users |-> copyCommand'[b]]
          /\ \A b \in Users : CommandSound(b, copyCommand[b])'
      BY <2>2, ResourcesGrow, IdleIsSound, CommandsMove
    <2> QED
      BY <1>0, <2>2, <2>3, <2>4 DEF LibraryInv, LibraryTypeOK, ContentIsStored, PortableIsAnnounced,
         CopiesAreSound, Published
  <1>6. CASE UpdatePropagation(a)
    <2>1. PICK r \in Resources, p \in {"team_private", "project_readonly"} :
            copyCommand[a] = [kind |-> "restrict", resource |-> r, arg |-> p] /\ Published(r)
      BY <1>0, <1>6, CommandKinds DEF UpdatePropagation
    <2>2. /\ resource' = [resource EXCEPT ![r].propagation = p]
          /\ copyCommand' = [copyCommand EXCEPT ![a] = Idle]
          /\ UNCHANGED <<project, stored, announced, shares, library>>
      BY <1>6, <2>1 DEF UpdatePropagation
    <2>3. /\ resource' \in [Resources -> ResourceRow]
          /\ \A s \in Resources : /\ resource'[s].owner = resource[s].owner
                                  /\ resource'[s].content = resource[s].content
                                  /\ resource'[s].propagation = IF s = r THEN p ELSE resource[s].propagation
      BY <1>0, <2>2 DEF LibraryTypeOK, ResourceRow, Propagations
    <2>4. LibraryGrows BY <2>2, <2>3 DEF LibraryGrows, Published
    <2>5. /\ copyCommand' = [b \in Users |-> copyCommand'[b]]
          /\ \A b \in Users : CommandSound(b, copyCommand[b])'
      BY <2>2, <2>4, IdleIsSound, CommandsMove
    <2>6. ContentIsStored' /\ PortableIsAnnounced' /\ CopiesAreSound'
      BY <1>0, <2>2, <2>3 DEF ContentIsStored, PortableIsAnnounced, CopiesAreSound, Published
    <2> QED BY <1>0, <2>2, <2>3, <2>5, <2>6 DEF LibraryInv, LibraryTypeOK
  <1> QED BY <1>1, <1>2, <1>3, <1>4, <1>5, <1>6

(* Every step keeps the invariant.                                          *)
LEMMA LibraryInvNext == LibraryInv /\ [LibraryNext]_libraryVars => LibraryInv'
  <1> SUFFICES ASSUME LibraryInv, [LibraryNext]_libraryVars PROVE LibraryInv' OBVIOUS
  <1>1. CASE UNCHANGED libraryVars
    BY <1>1 DEF libraryVars, LibraryInv, LibraryTypeOK, ContentIsStored, PortableIsAnnounced,
       CopiesAreSound, CommandSound, Published
  <1> QED BY <1>1, ProjectKeeps, UploadKeeps, ResourceKeeps DEF LibraryNext

(* The invariant says what the run checks.                                  *)
LEMMA LibraryInvImplies == LibraryInv => LibraryIsFaithful
  BY DEF LibraryInv, LibraryIsFaithful, ContentIsStored, ResourceKeepsItsContent, CopiesAreSound,
     ForeignCopyWasAnnounced, AgentsUseWhatIsVisible, AgentContext, Visible, Allowed

(* An upload that is cut off and repeated keeps its content, and nothing is *)
(* copied that was not announced or shared, for any number of accounts,     *)
(* teams, resources and projects.                                           *)
THEOREM LibraryStaysFaithful == LibrarySpec => []LibraryIsFaithful
  <1>1. LibrarySpec => []LibraryInv BY LibraryInvInit, LibraryInvNext, PTL DEF LibrarySpec
  <1> QED BY <1>1, LibraryInvImplies, PTL

-----------------------------------------------------------------------------
(* TeamTasks                                                                *)

SnapshotRow == [status : TaskStatus \ TaskTerminal, due : Due, version : Nat]

TaskTypes ==
    /\ TaskTypeOK
    /\ task.version > 0
    /\ proposal \in [Proposals -> ProposalRow]
    /\ snapshot \in SnapshotRow \cup {NoSnapshot}

(* A row that was read is an older version of the task, or its deadline.    *)
SnapshotAgrees ==
    /\ snapshot.version <= task.version
    /\ snapshot # NoSnapshot /\ snapshot.version = task.version => snapshot.due = task.due

(* A pending proposal replaces the deadline of the version it was made against. *)
ProposalsAgree ==
    \A p \in PendingProposals :
        /\ proposal[p].base <= task.version
        /\ proposal[p].base = task.version => proposal[p].old = task.due

TaskInv == TaskTypes /\ SnapshotAgrees /\ ProposalsAgree /\ ReminderIsCurrent /\ AcceptedContractHolds

(* The task has its first terms and no proposal at first.                   *)
LEMMA TaskInvInit == TaskInit => TaskInv
  <1> SUFFICES ASSUME TaskInit PROVE TaskInv OBVIOUS
  <1>1. 0 \in Due /\ "source" \in Parties BY TeamTaskParameters DEF Due, Parties
  <1>2. NoReminder \in ReminderRow /\ NoProposal \in ProposalRow
    BY <1>1 DEF NoReminder, ReminderRow, NoProposal, ProposalRow
  <1>3. TaskTypes
    BY <1>1, <1>2 DEF TaskInit, TaskTypes, TaskTypeOK, TeamTaskRow, TaskStatus
  <1>4. SnapshotAgrees BY DEF TaskInit, SnapshotAgrees, NoSnapshot
  <1>5. ProposalsAgree BY DEF TaskInit, ProposalsAgree, PendingProposals, NoProposal
  <1>6. ReminderIsCurrent BY DEF TaskInit, ReminderIsCurrent, NoReminder
  <1>7. AcceptedContractHolds BY DEF TaskInit, AcceptedContractHolds
  <1> QED BY <1>3, <1>4, <1>5, <1>6, <1>7 DEF TaskInv

(* A refresh leaves in the inbox only reminders of the deadline it was given, *)
(* and none of a task that is over.                                         *)
LEMMA RefreshedIsCurrent ==
    ASSUME reminder \in [ReminderCategories -> ReminderRow],
           NEW row, row.due \in Due
    PROVE  /\ Refreshed(row) \in [ReminderCategories -> ReminderRow]
           /\ \A c \in ReminderCategories :
                 Refreshed(row)[c].state \in {"unread", "read"} =>
                    /\ row.status # "verified"
                    /\ Refreshed(row)[c].due = row.due /\ row.due # 0
  <1>1. 0 \in Due BY TeamTaskParameters DEF Due
  <1>2. ASSUME NEW c \in ReminderCategories
        PROVE  /\ Upserted(reminder[c], row.due) \in ReminderRow
               /\ Upserted(reminder[c], row.due).due = row.due
    BY <1>1 DEF Upserted, ReminderRow
  <1>3. ASSUME NEW c \in ReminderCategories
        PROVE  /\ Deleted(reminder[c]) \in ReminderRow
               /\ Deleted(reminder[c]).state \notin {"unread", "read"}
    BY <1>1 DEF Deleted, NoReminder, ReminderRow
  <1>4. \A c \in Wanted(row) : row.status # "verified" /\ row.due # 0
    BY DEF Wanted, Overdue, DueSoon, TaskTerminal
  <1> QED BY <1>2, <1>3, <1>4 DEF Refreshed

(* The task moves, its schedule and its reminders stay.                     *)
LEMMA TaskMoves ==
    ASSUME TaskInv, UNCHANGED <<proposal, muted, snapshot, clock>>,
           task' \in TeamTaskRow, task'.due = task.due, task'.version = task.version,
           \/ UNCHANGED reminder /\ (task'.status = "verified" => task.due = 0)
           \/ reminder' = Refreshed(task'),
           AcceptedContractHolds'
    PROVE  TaskInv'
  <1>1. task.due \in Due BY DEF TaskInv, TaskTypes, TaskTypeOK, TeamTaskRow
  <1>2. TaskTypes'
    BY <1>1, RefreshedIsCurrent DEF TaskInv, TaskTypes, TaskTypeOK
  <1>3. SnapshotAgrees' BY DEF TaskInv, SnapshotAgrees
  <1>4. ProposalsAgree' BY DEF TaskInv, ProposalsAgree, PendingProposals
  <1>5. ReminderIsCurrent'
    <2>1. CASE UNCHANGED reminder /\ (task'.status = "verified" => task.due = 0)
      BY <2>1 DEF TaskInv, ReminderIsCurrent
    <2>2. CASE reminder' = Refreshed(task')
      BY <2>2, <1>1, RefreshedIsCurrent DEF TaskInv, TaskTypes, TaskTypeOK, ReminderIsCurrent
    <2> QED BY <2>1, <2>2
  <1> QED BY <1>2, <1>3, <1>4, <1>5 DEF TaskInv

(* The routes that change the task.                                         *)
LEMMA TaskRoutesKeep ==
    ASSUME TaskInv, TaskRoutes
    PROVE  TaskInv'
  <1>1. task \in TeamTaskRow BY DEF TaskInv, TaskTypes, TaskTypeOK
  <1>2. AcceptedContractHolds BY DEF TaskInv
  <1>3. ASSUME NEW accept \in BOOLEAN, RespondTask(accept) PROVE TaskInv'
    BY <1>1, <1>3, TaskMoves DEF RespondTask, TeamTaskRow, TaskStatus, AcceptedContractHolds
  <1>4. ASSUME NEW accept \in BOOLEAN, ReviewTask(accept) PROVE TaskInv'
    BY <1>1, <1>2, <1>4, TaskMoves
    DEF ReviewTask, TaskTransition, TeamTaskRow, TaskStatus, AcceptedContractHolds
  <1>5. ASSUME NEW pass \in BOOLEAN, VerifyTask(pass) PROVE TaskInv'
    BY <1>1, <1>2, <1>5, TaskMoves
    DEF VerifyTask, TaskTransition, TeamTaskRow, TaskStatus, AcceptedContractHolds
  <1>6. ASSUME AssignInternal PROVE TaskInv'
    <2>1. task.status = "verified" => \A c \in ReminderCategories :
            ~(reminder[c].state \in {"unread", "read"} /\ ~reminder[c].restored)
      BY DEF TaskInv, ReminderIsCurrent
    <2>2. TaskTypes'
      BY <1>1, <1>6 DEF AssignInternal, TaskInv, TaskTypes, TaskTypeOK, TeamTaskRow
    <2>3. /\ task'.due = task.due /\ task'.status = task.status /\ task'.version = task.version
          /\ task'.accepted = task.accepted /\ task'.contract = task.contract
          /\ UNCHANGED <<proposal, reminder, muted, snapshot, clock>>
      BY <1>1, <1>6 DEF AssignInternal, TeamTaskRow
    <2>4. SnapshotAgrees' BY <2>3 DEF TaskInv, SnapshotAgrees
    <2>5. ProposalsAgree' BY <2>3 DEF TaskInv, ProposalsAgree, PendingProposals
    <2>6. ReminderIsCurrent' BY <2>3 DEF TaskInv, ReminderIsCurrent
    <2>7. AcceptedContractHolds' BY <2>3, <1>2 DEF AcceptedContractHolds
    <2> QED BY <2>2, <2>4, <2>5, <2>6, <2>7 DEF TaskInv
  <1>7. ASSUME StartTask PROVE TaskInv'
    BY <1>1, <1>2, <1>7, TaskMoves
    DEF StartTask, TaskTransition, TeamTaskRow, TaskStatus, AcceptedContractHolds
  <1>8. ASSUME SubmitTask PROVE TaskInv'
    BY <1>1, <1>2, <1>8, TaskMoves DEF SubmitTask, TeamTaskRow, TaskStatus, AcceptedContractHolds
  <1>9. ASSUME ProposeContract PROVE TaskInv'
    <2>1. task.contract + 1 \in Nat BY <1>1 DEF TeamTaskRow
    <2>2. task' = [task EXCEPT !.contract = task.contract + 1, !.accepted = 0, !.status = "proposed"]
      BY <1>9 DEF ProposeContract
    <2>3. task' \in TeamTaskRow BY <1>1, <2>1, <2>2 DEF TeamTaskRow, TaskStatus
    <2>4. task'.due = task.due /\ task'.version = task.version /\ task'.status = "proposed"
      BY <1>1, <2>2 DEF TeamTaskRow
    <2> QED BY <1>9, <2>3, <2>4, TaskMoves DEF ProposeContract, AcceptedContractHolds
  <1> QED BY <1>3, <1>4, <1>5, <1>6, <1>7, <1>8, <1>9 DEF TaskRoutes

(* A new deadline is a new version: what was read and proposed before is old. *)
LEMMA RescheduledKeeps ==
    ASSUME TaskInv, NEW due \in Due, task' = Rescheduled(due), reminder' = Refreshed(task'),
           UNCHANGED <<muted, snapshot, clock>>, proposal' \in [Proposals -> ProposalRow],
           \A p \in Proposals : proposal'[p].status = "pending" => proposal'[p] = proposal[p]
    PROVE  TaskInv'
  <1>1. /\ task \in TeamTaskRow /\ task' \in TeamTaskRow
        /\ task'.due = due /\ task'.version = task.version + 1 /\ task.version \in Nat
        /\ task'.status = task.status /\ task'.accepted = task.accepted
        /\ task'.contract = task.contract
    <2>1. task \in TeamTaskRow BY DEF TaskInv, TaskTypes, TaskTypeOK
    <2>2. task.version \in Nat /\ task.version + 1 \in Nat BY <2>1 DEF TeamTaskRow
    <2>3. task' = [task EXCEPT !.due = due, !.version = task.version + 1] BY DEF Rescheduled
    <2>4. task' \in TeamTaskRow BY <2>1, <2>2, <2>3 DEF TeamTaskRow
    <2> QED BY <2>1, <2>2, <2>3, <2>4 DEF TeamTaskRow
  <1>2. TaskTypes'
    BY <1>1, RefreshedIsCurrent DEF TaskInv, TaskTypes, TaskTypeOK
  <1>3. SnapshotAgrees'
    <2>1. snapshot.version \in Nat
      BY DEF TaskInv, TaskTypes, SnapshotRow, NoSnapshot
    <2> QED BY <2>1, <1>1 DEF TaskInv, SnapshotAgrees
  <1>4. ProposalsAgree'
    <2>1. \A p \in Proposals : proposal[p].base \in Nat
      BY DEF TaskInv, TaskTypes, ProposalRow
    <2> QED BY <2>1, <1>1 DEF TaskInv, ProposalsAgree, PendingProposals
  <1>5. ReminderIsCurrent'
    BY <1>1, RefreshedIsCurrent DEF TaskInv, TaskTypes, TaskTypeOK, ReminderIsCurrent
  <1>6. AcceptedContractHolds' BY <1>1 DEF TaskInv, AcceptedContractHolds
  <1> QED BY <1>2, <1>3, <1>4, <1>5, <1>6 DEF TaskInv

(* Everything but the proposals, the reminders or the reader stays.         *)
LEMMA TaskStays ==
    ASSUME TaskInv, UNCHANGED task, TaskTypes', SnapshotAgrees', ProposalsAgree', ReminderIsCurrent'
    PROVE  TaskInv'
  BY DEF TaskInv, AcceptedContractHolds

(* The routes of schedule proposals.                                        *)
LEMMA ScheduleRoutesKeep ==
    ASSUME TaskInv, ScheduleRoutes
    PROVE  TaskInv'
  <1>1. ASSUME NEW due \in Due, EditSchedule(due) PROVE TaskInv'
    BY <1>1, RescheduledKeeps DEF EditSchedule, TaskInv, TaskTypes
  <1>2. ASSUME NEW by \in Parties, NEW due \in Due, NEW p \in Proposals, ProposeSchedule(by, due, p)
        PROVE  TaskInv'
    <2> DEFINE new == [status |-> "pending", by |-> by, old |-> task.due, due |-> due,
                       base |-> task.version]
    <2>1. new \in ProposalRow
      BY DEF TaskInv, TaskTypes, TaskTypeOK, TeamTaskRow, ProposalRow
    <2>2. UNCHANGED <<task, reminder, muted, snapshot, clock>> BY <1>2 DEF ProposeSchedule
    <2>3. ASSUME NEW q \in Proposals
          PROVE  /\ proposal'[q] \in ProposalRow
                 /\ proposal'[q].status = "pending" => q = p /\ proposal'[q] = new
      BY <2>1, <2>3, <1>2 DEF ProposeSchedule, TaskInv, TaskTypes, ProposalRow, PendingProposals
    <2>4. proposal' \in [Proposals -> ProposalRow] BY <2>3, <1>2 DEF ProposeSchedule
    <2>5. TaskTypes' BY <2>2, <2>4 DEF TaskInv, TaskTypes, TaskTypeOK
    <2>6. SnapshotAgrees' /\ ReminderIsCurrent'
      BY <2>2 DEF TaskInv, SnapshotAgrees, ReminderIsCurrent
    <2>7. task.version \in Nat BY DEF TaskInv, TaskTypes, TaskTypeOK, TeamTaskRow
    <2>8. ProposalsAgree' BY <2>2, <2>3, <2>7 DEF ProposalsAgree, PendingProposals
    <2> QED BY <2>2, <2>5, <2>6, <2>8, TaskStays
  <1>3. ASSUME NEW by \in Parties, NEW p \in Proposals, NEW accept \in BOOLEAN,
               DecideProposal(p, by, accept)
        PROVE  TaskInv'
    <2>1. /\ proposal[p].due \in Due
          /\ proposal' \in [Proposals -> ProposalRow]
          /\ \A q \in Proposals : proposal'[q].status = "pending" => proposal'[q] = proposal[q]
      BY <1>3 DEF DecideProposal, TaskInv, TaskTypes, ProposalRow
    <2>2. CASE accept
      BY <1>3, <2>1, <2>2, RescheduledKeeps DEF DecideProposal
    <2>3. CASE ~accept
      <3>1. UNCHANGED <<task, reminder, muted, snapshot, clock>> BY <1>3, <2>3 DEF DecideProposal
      <3>2. TaskTypes' BY <2>1, <3>1 DEF TaskInv, TaskTypes, TaskTypeOK
      <3>3. SnapshotAgrees' /\ ReminderIsCurrent' /\ ProposalsAgree'
        BY <2>1, <3>1 DEF TaskInv, SnapshotAgrees, ReminderIsCurrent, ProposalsAgree, PendingProposals
      <3> QED BY <3>1, <3>2, <3>3, TaskStays
    <2> QED BY <2>2, <2>3
  <1> QED BY <1>1, <1>2, <1>3 DEF ScheduleRoutes

(* The reminders, from the row read to the row written, and the clock.      *)
LEMMA NotificationRoutesKeep ==
    ASSUME TaskInv, NotificationRoutes \/ Tick
    PROVE  TaskInv'
  <1>1. task \in TeamTaskRow /\ reminder \in [ReminderCategories -> ReminderRow]
    BY DEF TaskInv, TaskTypes, TaskTypeOK
  <1>2. ASSUME ReadOpenTask PROVE TaskInv'
    <2>1. UNCHANGED <<task, proposal, reminder, muted, clock>> BY <1>2 DEF ReadOpenTask
    <2>2. snapshot' \in SnapshotRow
      BY <1>1, <1>2 DEF ReadOpenTask, SnapshotRow, TeamTaskRow
    <2>3. SnapshotAgrees'
      BY <1>1, <1>2 DEF ReadOpenTask, SnapshotAgrees, TeamTaskRow
    <2>4. TaskTypes' BY <2>1, <2>2 DEF TaskInv, TaskTypes, TaskTypeOK
    <2>5. ProposalsAgree' /\ ReminderIsCurrent'
      BY <2>1 DEF TaskInv, ProposalsAgree, PendingProposals, ReminderIsCurrent
    <2> QED BY <2>1, <2>3, <2>4, <2>5, TaskStays
  <1>3. ASSUME UNCHANGED <<task, proposal, muted, clock>>,
               reminder' \in [ReminderCategories -> ReminderRow], ReminderIsCurrent',
               snapshot' \in {snapshot, NoSnapshot}
        PROVE  TaskInv'
    <2>1. TaskTypes' BY <1>3 DEF TaskInv, TaskTypes, TaskTypeOK
    <2>2. NoSnapshot.version <= task.version
      BY <1>1 DEF NoSnapshot, TeamTaskRow
    <2>3. SnapshotAgrees' BY <1>3, <2>2 DEF TaskInv, SnapshotAgrees
    <2>4. ProposalsAgree' BY <1>3 DEF TaskInv, ProposalsAgree, PendingProposals
    <2> QED BY <1>3, <2>1, <2>3, <2>4, TaskStays
  <1>4. ASSUME RefreshOnRead PROVE TaskInv'
    <2>1. CASE SnapshotCurrent
      <3>1. snapshot.due = task.due /\ task.due \in Due /\ snapshot.status = task.status
        BY <1>1, <1>4, <2>1 DEF RefreshOnRead, SnapshotCurrent, TaskInv, SnapshotAgrees, TeamTaskRow
      <3>2. /\ reminder' \in [ReminderCategories -> ReminderRow]
            /\ ReminderIsCurrent'
        BY <1>1, <1>4, <2>1, <3>1, RefreshedIsCurrent DEF RefreshOnRead, ReminderIsCurrent
      <3> QED BY <1>3, <1>4, <3>2 DEF RefreshOnRead
    <2>2. CASE ~SnapshotCurrent
      BY <1>1, <1>3, <1>4, <2>2 DEF RefreshOnRead, TaskInv, ReminderIsCurrent
    <2> QED BY <2>1, <2>2
  <1>5. ASSUME NEW c \in ReminderCategories, MarkRead(c) \/ Archive(c) \/ Restore(c)
        PROVE  TaskInv'
    <2>1. reminder' \in [ReminderCategories -> ReminderRow]
      BY <1>1, <1>5 DEF MarkRead, Archive, Restore, ReminderRow
    <2>2. ReminderIsCurrent'
      BY <1>1, <1>5 DEF MarkRead, Archive, Restore, ReminderRow, TaskInv, ReminderIsCurrent
    <2> QED BY <1>3, <1>5, <2>1, <2>2 DEF MarkRead, Archive, Restore
  <1>6. ASSUME NEW off \in SUBSET {"due_soon"}, PutPreferences(off) PROVE TaskInv'
    <2>1. UNCHANGED <<task, proposal, reminder, snapshot, clock>> /\ muted' \subseteq ReminderCategories
      BY <1>6 DEF PutPreferences, ReminderCategories
    <2>2. TaskTypes' BY <2>1 DEF TaskInv, TaskTypes, TaskTypeOK
    <2> QED BY <2>1, <2>2, TaskStays
        DEF TaskInv, SnapshotAgrees, ReminderIsCurrent, ProposalsAgree, PendingProposals
  <1>7. ASSUME Tick PROVE TaskInv'
    <2>1. UNCHANGED <<task, proposal, reminder, snapshot, muted>> /\ clock' \in Nat
      BY <1>7 DEF Tick, TaskInv, TaskTypes, TaskTypeOK
    <2>2. TaskTypes' BY <2>1 DEF TaskInv, TaskTypes, TaskTypeOK
    <2> QED BY <2>1, <2>2, TaskStays
        DEF TaskInv, SnapshotAgrees, ReminderIsCurrent, ProposalsAgree, PendingProposals
  <1> QED BY <1>2, <1>4, <1>5, <1>6, <1>7 DEF NotificationRoutes

(* A stuttering step keeps the invariant.                                   *)
LEMMA TaskStutters ==
    ASSUME TaskInv, UNCHANGED teamTaskVars
    PROVE  TaskInv'
  BY DEF teamTaskVars, TaskInv, TaskTypes, TaskTypeOK, SnapshotAgrees, ProposalsAgree,
         PendingProposals, ReminderIsCurrent, AcceptedContractHolds

(* Only a decision accepts a proposal.                                      *)
LEMMA AcceptingStep ==
    ASSUME TaskInv, TaskNext, NEW p \in Proposals,
           proposal[p].status = "pending", proposal'[p].status = "accepted"
    PROVE  proposal[p].old = task.due /\ task'.due = proposal[p].due
  <1>1. proposal' # proposal OBVIOUS
  <1>2. ~TaskRoutes
    BY <1>1 DEF TaskRoutes, RespondTask, ReviewTask, VerifyTask, AssignInternal, StartTask,
        SubmitTask, ProposeContract, TaskTransition
  <1>3. ~NotificationRoutes /\ ~Tick
    BY <1>1 DEF NotificationRoutes, ReadOpenTask, RefreshOnRead, MarkRead, Archive, Restore,
        PutPreferences, Tick
  <1>4. \A due \in Due : ~EditSchedule(due) BY <1>1 DEF EditSchedule
  <1>5. ASSUME NEW by \in Parties, NEW due \in Due, NEW q \in Proposals, ProposeSchedule(by, due, q)
        PROVE  FALSE
    BY <1>5 DEF ProposeSchedule, TaskInv, TaskTypes, ProposalRow, PendingProposals
  <1>6. PICK by \in Parties, q \in Proposals, accept \in BOOLEAN : DecideProposal(q, by, accept)
    BY <1>2, <1>3, <1>4, <1>5 DEF TaskNext, ScheduleRoutes
  <1>7. p = q /\ accept
    BY <1>6 DEF DecideProposal, TaskInv, TaskTypes, ProposalRow
  <1>8. StillCurrent(p) /\ task' = Rescheduled(proposal[p].due) BY <1>6, <1>7 DEF DecideProposal
  <1> QED BY <1>8 DEF StillCurrent, Rescheduled, TaskInv, TaskTypes, TaskTypeOK, TeamTaskRow,
          ProposalsAgree, PendingProposals

(* The reminders, the contract and the deadline of a task hold through      *)
(* delayed readers, edits and proposals; a proposal is accepted only        *)
(* against the task it was made for.                                        *)
THEOREM TermsHold == TaskSpec => TaskTermsHold
  <1>1. TaskInv /\ [TaskNext]_teamTaskVars => TaskInv'
    BY TaskRoutesKeep, ScheduleRoutesKeep, NotificationRoutesKeep, TaskStutters DEF TaskNext
  <1>2. TaskSpec => []TaskInv
    BY <1>1, TaskInvInit, PTL DEF TaskSpec
  <1>3. TaskInv => TaskTypeOK /\ ReminderIsCurrent /\ AcceptedContractHolds
    BY DEF TaskInv, TaskTypes
  <1>4. TaskInv /\ [TaskNext]_teamTaskVars =>
          [\A p \in Proposals :
              proposal[p].status = "pending" /\ proposal'[p].status = "accepted"
                  => proposal[p].old = task.due /\ task'.due = proposal[p].due]_teamTaskVars
    BY AcceptingStep
  <1> QED BY <1>2, <1>3, <1>4, PTL DEF TaskSpec, TaskTermsHold, AcceptedAgainstItsBase

-----------------------------------------------------------------------------
(* Verification                                                             *)

Runs == {"none", "queued", "running", "passed", "failed", "useless", "cancelled"}

ReviewRow ==
    [status : {"none", "QUEUED", "PASS", "FAIL", "UNAVAILABLE", "STALE"},
     run : Runs, settled : BOOLEAN]

HumanStates == {"none", "OPEN", "ACCEPTED", "REJECTED", "STALE"}

Jobs == {"none", "queued", "passed", "failed", "unusable"}

VerificationTypes ==
    /\ taskRow \in [status : {"accepted", "in_progress", "submitted", "changes_requested", "verified"},
                    of : 0 .. RunLimit]
    /\ latestRun \in 0 .. RunLimit
    /\ taskRow.status \in {"in_progress", "verified"} => latestRun \in Submissions
    /\ evidence \in [Submissions ->
                       [status : {"none", "submitted", "PENDING", "PASS", "FAIL", "STALE"},
                        attempt : 0 .. ToolAttempts]]
    /\ checkJob \in [Submissions -> [1..ToolAttempts -> Jobs]]
    /\ humanReview \in [Submissions -> HumanStates]

(* The reviews of a submission follow each other, and a run that has not    *)
(* begun belongs to a review that waits for it.                             *)
ReviewsInOrder(rows) ==
    /\ rows \in [1..ReviewAttempts -> ReviewRow]
    /\ \A n \in 1..ReviewAttempts : rows[n].run = "queued" => rows[n].status = "QUEUED"
    /\ \A m, n \in 1..ReviewAttempts : n < m /\ rows[m].status # "none" => rows[n].status # "QUEUED"

VerificationInv ==
    /\ VerificationTypes
    /\ agentReview \in [Submissions -> [1..ReviewAttempts -> ReviewRow]]
    /\ \A s \in Submissions : ReviewsInOrder(agentReview[s])
    /\ VerificationIsSound

(* Nothing is submitted and no review is asked for at first.                *)
LEMMA VerificationInvInit == VerificationInit => VerificationInv
  <1> SUFFICES ASSUME VerificationInit PROVE VerificationInv OBVIOUS
  <1>1. NoAgentReview \in ReviewRow BY DEF NoAgentReview, ReviewRow, Runs
  <1>2. [n \in 1..ReviewAttempts |-> NoAgentReview] \in [1..ReviewAttempts -> ReviewRow]
    BY <1>1
  <1>3. VerificationTypes
    BY VerificationAssumption
    DEF VerificationInit, VerificationTypes, NoEvidence, Jobs, HumanStates
  <1>4. \A s \in Submissions : ReviewsInOrder(agentReview[s])
    BY <1>2 DEF VerificationInit, ReviewsInOrder, NoAgentReview
  <1>5. agentReview \in [Submissions -> [1..ReviewAttempts -> ReviewRow]]
    BY <1>2 DEF VerificationInit
  <1>6. VerificationIsSound
    BY DEF VerificationInit, VerificationIsSound, VerifiedOnEvidence,
           ReviewsEndWithTheirVerification, NoEvidence, NoAgentReview
  <1> QED BY <1>3, <1>4, <1>5, <1>6 DEF VerificationInv

(* What projecting a terminal run makes of an attempt of the agent's        *)
(* review.                                                                  *)
LEMMA ProjectedRow ==
    ASSUME NEW r \in ReviewRow, NEW current \in BOOLEAN,
           r.run = "queued" => r.status = "QUEUED"
    PROVE  /\ Projected(r, current) \in ReviewRow
           /\ Projected(r, current).run = "queued" => Projected(r, current).status = "QUEUED" /\ current
           /\ Projected(r, current).status = "QUEUED" => r.status = "QUEUED"
           /\ Projected(r, current).status = "none" <=> r.status = "none"
           /\ r.status # "QUEUED" => Projected(r, current) = r
  BY DEF Projected, ReviewRow, Runs, RunOver, ReviewResult

(* The newest attempt is the largest number launched.                       *)
LEMMA NewestLaunched ==
    ASSUME NEW rows, Launched(rows) # {}
    PROVE  /\ Newest(rows) \in Launched(rows) /\ Newest(rows) \in 1..ReviewAttempts
           /\ \A m \in Launched(rows) : m <= Newest(rows)
  <1>1. Launched(rows) \in SUBSET (0 .. ReviewAttempts) /\ ReviewAttempts \in Nat
    BY VerificationAssumption DEF Launched
  <1>2. \E n \in Launched(rows) : \A m \in Launched(rows) : m <= n
    BY <1>1, LargestExists
  <1> QED BY <1>2 DEF Newest, Launched

(* Projecting keeps the attempts in order.                                  *)
LEMMA ProjectedInOrder ==
    ASSUME NEW rows, ReviewsInOrder(rows), NEW current \in BOOLEAN
    PROVE  ReviewsInOrder([n \in 1..ReviewAttempts |-> Projected(rows[n], current)])
  BY ProjectedRow DEF ReviewsInOrder

(* Launching another attempt of the review keeps the attempts in order.     *)
LEMMA ReviewedInOrder ==
    ASSUME NEW s \in Submissions, ReviewsInOrder(agentReview[s]),
           NEW retry \in BOOLEAN, NEW funded \in BOOLEAN,
           NextReview(ProjectedReviews(s), retry) <= ReviewAttempts
    PROVE  ReviewsInOrder(Reviewed(s, retry, funded))
  <1> DEFINE rows == ProjectedReviews(s)
             next == NextReview(rows, retry)
             new == [status |-> "QUEUED", run |-> "queued", settled |-> FALSE]
  <1>1. ReviewsInOrder(rows) BY ProjectedInOrder DEF ProjectedReviews
  <1>2. CASE ~(next # 0 /\ funded) BY <1>1, <1>2 DEF Reviewed
  <1>3. CASE next # 0 /\ funded
    <2>1. Reviewed(s, retry, funded) = [rows EXCEPT ![next] = new] BY <1>3 DEF Reviewed
    <2>2. new \in ReviewRow BY DEF ReviewRow, Runs
    <2>3. next \in 1..ReviewAttempts /\ \A n \in 1..ReviewAttempts :
             /\ n < next => rows[n].status # "QUEUED"
             /\ next < n => rows[n].status = "none"
      <3>1. CASE Launched(rows) = {}
        BY <1>3, <3>1, VerificationAssumption DEF NextReview, Launched
      <3>2. CASE Launched(rows) # {}
        <4>1. /\ Newest(rows) \in 1..ReviewAttempts /\ next = Newest(rows) + 1
              /\ rows[Newest(rows)].status = "UNAVAILABLE"
              /\ \A m \in 1..ReviewAttempts : rows[m].status # "none" => m <= Newest(rows)
          BY <1>3, <3>2, NewestLaunched DEF NextReview, Launched
        <4>2. \A n \in 1..ReviewAttempts : n < Newest(rows) => rows[n].status # "QUEUED"
          BY <1>1, <4>1 DEF ReviewsInOrder
        <4> QED BY <4>1, <4>2, VerificationAssumption
      <3> QED BY <3>1, <3>2
    <2> HIDE DEF next, rows
    <2> QED BY <1>1, <2>1, <2>2, <2>3 DEF ReviewsInOrder
  <1> QED BY <1>2, <1>3

(* What an examination may leave behind for a submission.                   *)
Acceptable(o) ==
    /\ o \in [tool : [attempt : 0 .. ToolAttempts, jobs : [1..ToolAttempts -> Jobs],
                      status : {"PENDING", "PASS", "FAIL", "STALE"}],
               rows : [1..ReviewAttempts -> ReviewRow], human : HumanStates,
               status : {"PENDING", "PASS", "FAIL", "STALE"}]
    /\ ReviewsInOrder(o.rows)

Proven(o) ==
    o.status = "PASS" =>
        /\ \E a \in 1..ToolAttempts : o.tool.jobs[a] = "passed"
        /\ \E n \in 1..ReviewAttempts : o.rows[n].status = "PASS"
        /\ o.human = "ACCEPTED"
        /\ \A n \in 1..ReviewAttempts : o.rows[n].run # "queued"

(* The check by a tool passes only on a job of its own that passed.         *)
LEMMA ToolCheckSound ==
    ASSUME VerificationTypes, NEW s \in Submissions, NEW v, NEW retry \in BOOLEAN,
           Retries(s, retry) => PinnedAttempt(s) < ToolAttempts
    PROVE  /\ ToolCheck(s, v, retry).attempt \in 0 .. ToolAttempts
           /\ ToolCheck(s, v, retry).jobs \in [1..ToolAttempts -> Jobs]
           /\ ToolCheck(s, v, retry).status \in {"PASS", "FAIL", "PENDING"}
           /\ ToolCheck(s, v, retry).status = "PASS" =>
                \E a \in 1..ToolAttempts : ToolCheck(s, v, retry).jobs[a] = "passed"
  <1> DEFINE a == PinnedAttempt(s) + IF Retries(s, retry) THEN 1 ELSE 0
  <1>1. checkJob[s] \in [1..ToolAttempts -> Jobs] BY DEF VerificationTypes
  <1>2. a \in 1..ToolAttempts
    BY VerificationAssumption DEF PinnedAttempt, VerificationTypes
  <1>3. CASE Baseline(v) # "PASS"
    BY <1>1, <1>3, VerificationAssumption DEF ToolCheck, NoToolCheck
  <1>4. CASE Baseline(v) = "PASS"
    <2>1. ToolCheck(s, v, retry) = ToolCheckAt(s, a) BY <1>4 DEF ToolCheck
    <2> HIDE DEF a
    <2>2. checkJob[s][a] \in Jobs BY <1>1, <1>2
    <2> QED BY <1>1, <1>2, <2>1, <2>2 DEF ToolCheckAt, Enqueued, JobVerdict, Jobs
  <1> QED BY <1>3, <1>4

(* The outcome of a verification passes only on the checks and reviews of   *)
(* this run.                                                                *)
LEMMA OutcomeSound ==
    ASSUME VerificationInv, NEW s \in Submissions, NEW v, NEW retryTools \in BOOLEAN,
           NEW retryReviews \in BOOLEAN, NEW funded \in BOOLEAN, NEW h \in HumanStates,
           Retries(s, retryTools) => PinnedAttempt(s) < ToolAttempts,
           NextReview(ProjectedReviews(s), retryReviews) <= ReviewAttempts
    PROVE  LET o == Outcome(s, v, retryTools, retryReviews, funded, h)
           IN  Acceptable(o) /\ Proven(o) /\ o.status # "STALE"
  <1> DEFINE tool == ToolCheck(s, v, retryTools)
             first == Verdict({Baseline(v), tool.status})
             rows == IF first = "PASS" THEN Reviewed(s, retryReviews, funded) ELSE agentReview[s]
             second == IF first = "PASS" THEN ReviewVerdict(rows) ELSE first
             human == IF second = "PASS" /\ h = "none" THEN "OPEN" ELSE h
             o == Outcome(s, v, retryTools, retryReviews, funded, h)
  <1>1. o = [tool |-> tool, rows |-> rows, human |-> human,
             status |-> IF second = "PASS" THEN HumanVerdict(human) ELSE second]
    BY DEF Outcome
  <1>2. /\ tool.attempt \in 0 .. ToolAttempts
        /\ tool.jobs \in [1..ToolAttempts -> Jobs]
        /\ tool.status \in {"PASS", "FAIL", "PENDING"}
        /\ tool.status = "PASS" => \E a \in 1..ToolAttempts : tool.jobs[a] = "passed"
    BY ToolCheckSound DEF VerificationInv
  <1>3. ReviewsInOrder(rows) BY ReviewedInOrder DEF VerificationInv
  <1>4. /\ first \in {"PASS", "FAIL", "PENDING"}
        /\ first = "PASS" => tool.status = "PASS"
    BY <1>2 DEF Verdict, Baseline
  <1>5. human \in HumanStates BY DEF HumanStates
  <1> HIDE DEF tool, rows, first
  <1>6. second \in {"PASS", "FAIL", "PENDING"} BY <1>4 DEF ReviewVerdict
  <1>7. second = "PASS" =>
          /\ first = "PASS"
          /\ \E n \in 1..ReviewAttempts : rows[n].status = "PASS"
          /\ \A n \in 1..ReviewAttempts : rows[n].run # "queued"
    <2> SUFFICES ASSUME second = "PASS"
                 PROVE  /\ first = "PASS"
                        /\ \E n \in 1..ReviewAttempts : rows[n].status = "PASS"
                        /\ \A n \in 1..ReviewAttempts : rows[n].run # "queued"
      OBVIOUS
    <2>1. first = "PASS" /\ ReviewVerdict(rows) = "PASS" BY <1>4
    <2>2. Launched(rows) # {} /\ rows[Newest(rows)].status = "PASS"
      BY <2>1 DEF ReviewVerdict
    <2>3. /\ Newest(rows) \in 1..ReviewAttempts
          /\ \A m \in 1..ReviewAttempts : rows[m].status # "none" => m <= Newest(rows)
      BY <2>2, NewestLaunched DEF Launched
    <2>4. \A n \in 1..ReviewAttempts : rows[n].status # "QUEUED"
      BY <1>3, <2>2, <2>3 DEF ReviewsInOrder
    <2> QED BY <1>3, <2>1, <2>2, <2>3, <2>4 DEF ReviewsInOrder
  <1> HIDE DEF second, human
  <1>8. /\ HumanVerdict(human) \in {"PASS", "FAIL", "PENDING"}
        /\ HumanVerdict(human) = "PASS" => human = "ACCEPTED"
    BY DEF HumanVerdict
  <1>9. /\ o.tool = tool /\ o.rows = rows /\ o.human = human
        /\ o.status = IF second = "PASS" THEN HumanVerdict(human) ELSE second
    BY <1>1
  <1> HIDE DEF o
  <1>10. Acceptable(o)
    <2>1. tool \in [attempt : 0 .. ToolAttempts, jobs : [1..ToolAttempts -> Jobs],
                    status : {"PENDING", "PASS", "FAIL", "STALE"}]
      <3>1. tool \in [attempt : {tool.attempt}, jobs : {tool.jobs}, status : {tool.status}]
        BY DEF tool, ToolCheck, NoToolCheck, ToolCheckAt
      <3> QED BY <3>1, <1>2
    <2>2. rows \in [1..ReviewAttempts -> ReviewRow] BY <1>3 DEF ReviewsInOrder
    <2>3. o = [tool |-> tool, rows |-> rows, human |-> human,
               status |-> IF second = "PASS" THEN HumanVerdict(human) ELSE second]
      BY <1>1 DEF o
    <2> QED BY <2>1, <2>2, <2>3, <1>3, <1>5, <1>6, <1>8 DEF Acceptable
  <1>11. Proven(o) BY <1>2, <1>4, <1>6, <1>7, <1>8, <1>9 DEF Proven
  <1>12. o.status # "STALE" BY <1>6, <1>8, <1>9
  <1> QED BY <1>10, <1>11, <1>12 DEF o

(* A verification that ends before its checks passes nothing.               *)
LEMMA ExaminedSound ==
    ASSUME VerificationInv, NEW s \in Submissions, NEW v, NEW retryTools \in BOOLEAN,
           NEW retryReviews \in BOOLEAN, NEW funded \in BOOLEAN, NEW h \in HumanStates,
           Retries(s, retryTools) => PinnedAttempt(s) < ToolAttempts,
           NextReview(ProjectedReviews(s), retryReviews) <= ReviewAttempts
    PROVE  LET o == Examined(s, v, retryTools, retryReviews, funded, h)
           IN  Acceptable(o) /\ Proven(o)
  <1> DEFINE kept(status, attempt) ==
               [tool |-> [attempt |-> attempt, jobs |-> checkJob[s], status |-> status],
                rows |-> agentReview[s], human |-> h, status |-> status]
  <1>1. ASSUME NEW status \in {"STALE", "FAIL"}
        PROVE  Acceptable(kept(status, 0)) /\ Proven(kept(status, 0))
    <2>1. checkJob[s] \in [1..ToolAttempts -> Jobs] BY DEF VerificationInv, VerificationTypes
    <2>2. agentReview[s] \in [1..ReviewAttempts -> ReviewRow] /\ ReviewsInOrder(agentReview[s])
      BY DEF VerificationInv
    <2> QED BY <1>1, <2>1, <2>2, VerificationAssumption DEF Acceptable, Proven
  <1>2. CASE ~SubmissionIsCurrent(s) BY <1>1, <1>2 DEF Examined
  <1>3. CASE SubmissionIsCurrent(s) /\ ~shared BY <1>1, <1>3 DEF Examined
  <1>4. CASE SubmissionIsCurrent(s) /\ shared
    BY <1>4, OutcomeSound DEF Examined
  <1> QED BY <1>2, <1>3, <1>4

(* A verdict leaves nothing to be answered.                                 *)
Finished(o) ==
    o.status \in {"PASS", "FAIL", "STALE"} =>
        o.human # "OPEN" /\ \A n \in 1..ReviewAttempts : o.rows[n].run # "queued"

(* Closing a verification answers or cancels every review of it.            *)
LEMMA ClosedSound ==
    ASSUME NEW o, Acceptable(o), Proven(o)
    PROVE  Acceptable(Closed(o)) /\ Proven(Closed(o)) /\ Finished(Closed(o))
  <1>1. CASE o.status \in {"PASS", "PENDING"}
    BY <1>1 DEF Closed, Proven, Finished
  <1>2. CASE o.status \notin {"PASS", "PENDING"}
    <2> DEFINE rows == [n \in 1..ReviewAttempts |-> Projected(o.rows[n], FALSE)]
               human == IF o.human = "OPEN" THEN "STALE" ELSE o.human
    <2>1. Closed(o) = [o EXCEPT !.rows = rows, !.human = human] BY <1>2 DEF Closed
    <2>2. ReviewsInOrder(rows) /\ \A n \in 1..ReviewAttempts : rows[n].run # "queued"
      BY ProjectedInOrder, ProjectedRow DEF Acceptable, ReviewsInOrder
    <2>3. human \in HumanStates /\ human # "OPEN" BY DEF Acceptable, HumanStates
    <2>4. rows \in [1..ReviewAttempts -> ReviewRow] BY <2>2 DEF ReviewsInOrder
    <2> HIDE DEF rows, human
    <2> QED BY <1>2, <2>1, <2>2, <2>3, <2>4 DEF Acceptable, Proven, Finished
  <1> QED BY <1>1, <1>2

(* Recording an outcome writes the evidence and the reviews together.       *)
LEMMA RecordKeeps ==
    ASSUME VerificationInv, NEW s \in Submissions, NEW o, Acceptable(o), Proven(o), Finished(o),
           Verifiable(s), Record(s, o)
    PROVE  VerificationInv'
  <1>1. o \in [tool : [attempt : 0 .. ToolAttempts, jobs : [1..ToolAttempts -> Jobs],
                      status : {"PENDING", "PASS", "FAIL", "STALE"}],
               rows : [1..ReviewAttempts -> ReviewRow], human : HumanStates,
               status : {"PENDING", "PASS", "FAIL", "STALE"}]
    BY DEF Acceptable
  <1>2. /\ latestRun' = latestRun
        /\ taskRow' = taskRow \/
             /\ SubmissionIsCurrent(s) /\ taskRow'.of = 0
             /\ \/ o.status = "PASS" /\ taskRow'.status = "verified"
                \/ o.status = "FAIL" /\ taskRow'.status = "changes_requested"
             /\ taskRow' \in [status : {"verified", "changes_requested"}, of : {0}]
    BY DEF Record
  <1>3. VerificationTypes'
    <2>1. taskRow' \in [status : {"accepted", "in_progress", "submitted", "changes_requested",
                                  "verified"}, of : 0 .. RunLimit]
      BY <1>2, VerificationAssumption DEF VerificationInv, VerificationTypes
    <2>2. taskRow'.status \in {"in_progress", "verified"} => latestRun' \in Submissions
      BY <1>2 DEF VerificationInv, VerificationTypes, SubmissionIsCurrent
    <2> QED BY <1>1, <1>2, <2>1, <2>2 DEF Record, VerificationInv, VerificationTypes
  <1>4. /\ agentReview' \in [Submissions -> [1..ReviewAttempts -> ReviewRow]]
        /\ \A t \in Submissions : ReviewsInOrder(agentReview'[t])
    BY <1>1 DEF Record, VerificationInv, Acceptable
  <1>5. VerifiedOnEvidence'
    <2>1. SUFFICES ASSUME taskRow'.status = "verified"
                   PROVE  /\ evidence'[latestRun].status = "PASS"
                          /\ \E a \in 1..ToolAttempts : checkJob'[latestRun][a] = "passed"
                          /\ \E n \in 1..ReviewAttempts : agentReview'[latestRun][n].status = "PASS"
                          /\ humanReview'[latestRun] = "ACCEPTED"
      BY <1>2 DEF VerifiedOnEvidence
    <2>2. CASE taskRow' = taskRow
      <3>1. latestRun \in Submissions /\ evidence[latestRun].status = "PASS"
        BY <2>1, <2>2 DEF VerificationInv, VerificationTypes, VerificationIsSound, VerifiedOnEvidence
      <3>2. latestRun # s BY <3>1 DEF Verifiable
      <3> QED BY <2>1, <2>2, <3>1, <3>2
          DEF Record, VerificationInv, VerificationTypes, VerificationIsSound, VerifiedOnEvidence
    <2>3. CASE taskRow' # taskRow
      <3>1. latestRun = s /\ o.status = "PASS" BY <1>2, <2>1, <2>3 DEF SubmissionIsCurrent
      <3>2. /\ evidence'[s].status = o.status /\ checkJob'[s] = o.tool.jobs
            /\ agentReview'[s] = o.rows /\ humanReview'[s] = o.human
        BY DEF Record, VerificationInv, VerificationTypes
      <3> QED BY <3>1, <3>2 DEF Proven
    <2> QED BY <2>2, <2>3
  <1>6. ReviewsEndWithTheirVerification'
    <2>1. ASSUME NEW t \in Submissions, t # s
          PROVE  /\ evidence'[t] = evidence[t] /\ humanReview'[t] = humanReview[t]
                 /\ agentReview'[t] = agentReview[t]
      BY <2>1 DEF Record, VerificationInv, VerificationTypes
    <2>2. evidence'[s].status = o.status /\ agentReview'[s] = o.rows /\ humanReview'[s] = o.human
      BY DEF Record, VerificationInv, VerificationTypes
    <2> QED BY <2>1, <2>2
        DEF Finished, ReviewsEndWithTheirVerification, VerificationInv, VerificationIsSound
  <1> QED BY <1>3, <1>4, <1>5, <1>6 DEF VerificationInv, VerificationIsSound

(* A verification of the latest run.                                        *)
LEMMA VerifyRunKeeps ==
    ASSUME VerificationInv, NEW s \in Submissions, NEW v \in VerifierProcesses,
           NEW retryTools \in BOOLEAN, NEW retryReviews \in BOOLEAN, NEW funded \in BOOLEAN,
           VerifyRun(s, v, retryTools, retryReviews, funded)
    PROVE  VerificationInv'
  <1> DEFINE o == Examined(s, v, retryTools, retryReviews, funded, humanReview[s])
  <1>1. humanReview[s] \in HumanStates BY DEF VerificationInv, VerificationTypes
  <1>2. Acceptable(o) /\ Proven(o) BY <1>1, ExaminedSound DEF VerifyRun
  <1>3. Verifiable(s) /\ Record(s, Closed(o)) BY DEF VerifyRun
  <1> HIDE DEF o
  <1> QED BY <1>2, <1>3, ClosedSound, RecordKeeps

(* The decision of a reviewer runs the verification again.                  *)
LEMMA DecideKeeps ==
    ASSUME VerificationInv, NEW s \in Submissions, NEW accept \in BOOLEAN, NEW funded \in BOOLEAN,
           DecideHumanReview(s, accept, funded)
    PROVE  VerificationInv'
  <1> DEFINE h == IF accept THEN "ACCEPTED" ELSE "REJECTED"
             o == Examined(s, ControlPlane, FALSE, FALSE, funded, h)
  <1>1. h \in HumanStates BY DEF HumanStates
  <1>2. ~Retries(s, FALSE) /\ NextReview(ProjectedReviews(s), FALSE) <= ReviewAttempts
    BY VerificationAssumption DEF Retries, NextReview
  <1>3. Acceptable(o) /\ Proven(o) BY <1>1, <1>2, ExaminedSound
  <1>4. Verifiable(s) /\ Record(s, Closed(o)) BY DEF DecideHumanReview, Verifiable
  <1> HIDE DEF o
  <1> QED BY <1>3, <1>4, ClosedSound, RecordKeeps

(* A review run moves on: what it decided stays.                            *)
LEMMA ReviewMoves ==
    ASSUME VerificationInv, NEW s \in Submissions, NEW n \in 1..ReviewAttempts, NEW row \in ReviewRow,
           agentReview' = [agentReview EXCEPT ![s][n] = row],
           row.run # "queued" \/ row = agentReview[s][n],
           row.status = "QUEUED" => agentReview[s][n].status = "QUEUED",
           row.status = "none" <=> agentReview[s][n].status = "none",
           agentReview[s][n].status = "PASS" => row.status = "PASS",
           UNCHANGED <<taskRow, latestRun, evidence, checkJob, humanReview>>
    PROVE  VerificationInv'
  <1>1. /\ agentReview[s] \in [1..ReviewAttempts -> ReviewRow]
        /\ agentReview'[s] = [agentReview[s] EXCEPT ![n] = row]
        /\ \A t \in Submissions : t # s => agentReview'[t] = agentReview[t]
        /\ agentReview' \in [Submissions -> [1..ReviewAttempts -> ReviewRow]]
        /\ \A t \in Submissions : ReviewsInOrder(agentReview[t])
    BY DEF VerificationInv
  <1>2. /\ agentReview'[s] \in [1..ReviewAttempts -> ReviewRow]
        /\ agentReview'[s][n] = row
        /\ \A m \in 1..ReviewAttempts : m # n => agentReview'[s][m] = agentReview[s][m]
    BY <1>1
  <1>3. \A t \in Submissions : ReviewsInOrder(agentReview'[t])
    <2> DEFINE old == agentReview[s]
               new == agentReview'[s]
    <2>1. ReviewsInOrder(old) BY <1>1
    <2>2. \A m \in 1..ReviewAttempts :
            /\ new[m].run = "queued" => new[m] = old[m]
            /\ new[m].status = "QUEUED" => old[m].status = "QUEUED"
            /\ new[m].status = "none" <=> old[m].status = "none"
      BY <1>2
    <2>3. new \in [1..ReviewAttempts -> ReviewRow] BY <1>2
    <2> HIDE DEF old, new
    <2>4. ReviewsInOrder(new) BY <2>1, <2>2, <2>3 DEF ReviewsInOrder
    <2> QED BY <1>1, <2>4 DEF new
  <1>4. VerificationTypes' BY DEF VerificationInv, VerificationTypes
  <1>5. VerifiedOnEvidence'
    <2>1. \A t \in Submissions, m \in 1..ReviewAttempts :
            agentReview[t][m].status = "PASS" => agentReview'[t][m].status = "PASS"
      BY <1>1, <1>2
    <2> QED BY <2>1 DEF VerificationInv, VerificationTypes, VerificationIsSound, VerifiedOnEvidence
  <1>6. ReviewsEndWithTheirVerification'
    <2>1. \A t \in Submissions, m \in 1..ReviewAttempts :
            agentReview[t][m].run # "queued" => agentReview'[t][m].run # "queued"
      BY <1>1, <1>2
    <2> QED BY <2>1 DEF VerificationInv, VerificationIsSound, ReviewsEndWithTheirVerification
  <1> QED BY <1>1, <1>3, <1>4, <1>5, <1>6 DEF VerificationInv, VerificationIsSound

(* A terminal run is projected onto the review.                             *)
LEMMA ProjectTerminalKeeps ==
    ASSUME VerificationInv, NEW s \in Submissions, NEW n \in 1..ReviewAttempts, ProjectTerminal(s, n)
    PROVE  VerificationInv'
  <1>1. PICK current \in BOOLEAN :
          /\ Projected(agentReview[s][n], current) # agentReview[s][n]
          /\ agentReview' = [agentReview EXCEPT ![s][n] = Projected(agentReview[s][n], current)]
          /\ agentReview[s][n].status = "QUEUED"
          /\ UNCHANGED <<taskRow, latestRun, shared, intact, evidence, checkJob, humanReview>>
    <2>1. (evidence[s].status = "PENDING" /\ SubmissionIsCurrent(s) /\ shared) \in BOOLEAN
      OBVIOUS
    <2> QED BY <2>1 DEF ProjectTerminal
  <1>2. agentReview[s][n] \in ReviewRow /\ ReviewsInOrder(agentReview[s]) BY DEF VerificationInv
  <1>a. agentReview[s][n].status = "QUEUED" BY <1>1
  <1>3. Projected(agentReview[s][n], current).run # "queued"
    BY <1>1, <1>2 DEF Projected, ReviewRow, RunOver
  <1>4. /\ Projected(agentReview[s][n], current) \in ReviewRow
        /\ Projected(agentReview[s][n], current).status # "none"
    BY <1>1, <1>2, ProjectedRow DEF ReviewsInOrder
  <1>5. agentReview[s][n].status = "QUEUED" BY <1>1
  <1> QED BY <1>1, <1>3, <1>4, <1>5, ReviewMoves

(* The agent's review of a submission is under way or ends.                 *)
LEMMA StepReviewKeeps ==
    ASSUME VerificationInv, NEW s \in Submissions, NEW n \in 1..ReviewAttempts, StepReviewRun(s, n)
    PROVE  VerificationInv'
  <1>1. PICK run \in {"running", "passed", "failed", "useless"} :
          /\ agentReview' = [agentReview EXCEPT ![s][n].run = run]
          /\ UNCHANGED <<taskRow, latestRun, shared, intact, evidence, checkJob, humanReview>>
    BY DEF StepReviewRun
  <1> DEFINE row == [agentReview[s][n] EXCEPT !.run = run]
  <1>2. agentReview[s][n] \in ReviewRow BY DEF VerificationInv
  <1>3. /\ row \in ReviewRow /\ row.run # "queued"
        /\ row.status = agentReview[s][n].status
    BY <1>2 DEF ReviewRow, Runs
  <1>4. agentReview' = [agentReview EXCEPT ![s][n] = row]
    BY <1>1, <1>2 DEF VerificationInv
  <1>5. /\ row.status = "QUEUED" => agentReview[s][n].status = "QUEUED"
        /\ row.status = "none" <=> agentReview[s][n].status = "none"
        /\ agentReview[s][n].status = "PASS" => row.status = "PASS"
        /\ UNCHANGED <<taskRow, latestRun, evidence, checkJob, humanReview>>
    BY <1>1, <1>3
  <1> HIDE DEF row
  <1> QED BY <1>3, <1>4, <1>5, ReviewMoves

(* Reviews and people's decisions stay, and a job that passed as well.      *)
LEMMA AroundKeeps ==
    ASSUME VerificationInv, UNCHANGED <<agentReview, humanReview>>, VerificationTypes',
           \A t \in Submissions, a \in 1..ToolAttempts :
               checkJob[t][a] = "passed" => checkJob'[t][a] = "passed",
           \A t \in Submissions : evidence'[t].status \in {evidence[t].status, "submitted"},
           taskRow'.status = "verified" =>
               taskRow.status = "verified" /\ latestRun' = latestRun /\ evidence' = evidence
    PROVE  VerificationInv'
  <1>1. VerifiedOnEvidence'
    BY DEF VerificationInv, VerificationTypes, VerificationIsSound, VerifiedOnEvidence
  <1>2. ReviewsEndWithTheirVerification'
    BY DEF VerificationInv, VerificationIsSound, ReviewsEndWithTheirVerification
  <1>3. (\A s \in Submissions : ReviewsInOrder(agentReview[s]))' BY DEF VerificationInv
  <1> QED BY <1>1, <1>2, <1>3 DEF VerificationInv, VerificationIsSound

(* Every step keeps the invariant.                                          *)
LEMMA VerificationStepKeeps ==
    ASSUME VerificationInv, VerificationNext
    PROVE  VerificationInv'
  <1> USE VerificationAssumption
  <1>1. VerificationTypes BY DEF VerificationInv
  <1>2. ASSUME NEW s \in Submissions, NEW a \in 1..ToolAttempts, FinishJob(s, a)
        PROVE  VerificationInv'
    <2>1. PICK result \in {"passed", "failed", "unusable"} :
            checkJob' = [checkJob EXCEPT ![s][a] = result]
      BY <1>2 DEF FinishJob
    <2>2. checkJob' \in [Submissions -> [1..ToolAttempts -> Jobs]]
      BY <1>1, <2>1 DEF VerificationTypes, Jobs
    <2>3. VerificationTypes' BY <1>1, <1>2, <2>2 DEF FinishJob, VerificationTypes
    <2>4. \A t \in Submissions, b \in 1..ToolAttempts :
            checkJob[t][b] = "passed" => checkJob'[t][b] = "passed"
      BY <1>1, <1>2, <2>1 DEF FinishJob, VerificationTypes
    <2> QED BY <1>2, <2>3, <2>4, AroundKeeps DEF FinishJob
  <1>3. ASSUME StartExecution PROVE VerificationInv'
    <2>1. VerificationTypes' BY <1>1, <1>3 DEF StartExecution, VerificationTypes, Submissions
    <2> QED BY <1>3, <2>1, AroundKeeps DEF StartExecution
  <1>4. ASSUME SubmitResult PROVE VerificationInv'
    <2>1. latestRun \in Submissions BY <1>1, <1>4 DEF SubmitResult, VerificationTypes
    <2>2. \/ evidence' = evidence
          \/ evidence' = [evidence EXCEPT ![latestRun] = [evidence[latestRun] EXCEPT !.status = "submitted"]]
      BY <1>4 DEF SubmitResult
    <2>3. /\ evidence' \in [Submissions ->
                [status : {"none", "submitted", "PENDING", "PASS", "FAIL", "STALE"},
                 attempt : 0 .. ToolAttempts]]
          /\ \A t \in Submissions : evidence'[t].status \in {evidence[t].status, "submitted"}
      <3> DEFINE row == [evidence[latestRun] EXCEPT !.status = "submitted"]
                 Row == [status : {"none", "submitted", "PENDING", "PASS", "FAIL", "STALE"},
                         attempt : 0 .. ToolAttempts]
      <3>1. evidence \in [Submissions -> Row] BY <1>1 DEF VerificationTypes
      <3>2. row \in Row /\ row.status = "submitted" BY <3>1, <2>1
      <3> HIDE DEF row, Row
      <3>3. evidence' \in [Submissions -> Row] BY <3>1, <3>2, <2>1, <2>2 DEF row
      <3>4. \A t \in Submissions : evidence'[t] \in {evidence[t], row}
        BY <3>1, <2>1, <2>2 DEF row
      <3> QED BY <3>2, <3>3, <3>4 DEF Row
    <2>4. taskRow' \in [status : {"submitted", "changes_requested"}, of : 0 .. RunLimit]
      BY <1>1, <1>4, <2>1 DEF SubmitResult, VerificationTypes
    <2>5. VerificationTypes' BY <1>1, <1>4, <2>3, <2>4 DEF SubmitResult, VerificationTypes
    <2> QED BY <1>4, <2>3, <2>4, <2>5, AroundKeeps DEF SubmitResult
  <1>5. ASSUME ChangeTask PROVE VerificationInv'
    <2>1. VerificationTypes' BY <1>1, <1>5 DEF ChangeTask, VerificationTypes
    <2>2. taskRow'.status = "verified" => taskRow.status = "verified"
      BY <1>1, <1>5 DEF ChangeTask, VerificationTypes
    <2> QED BY <1>5, <2>1, <2>2, AroundKeeps DEF ChangeTask
  <1>6. ASSUME WithdrawResource \/ LoseContent PROVE VerificationInv'
    <2>1. VerificationTypes' BY <1>1, <1>6 DEF WithdrawResource, LoseContent, VerificationTypes
    <2> QED BY <1>6, <2>1, AroundKeeps DEF WithdrawResource, LoseContent
  <1> QED BY <1>2, <1>3, <1>4, <1>5, <1>6, VerifyRunKeeps, DecideKeeps, ProjectTerminalKeeps,
             StepReviewKeeps DEF VerificationNext

(* A stuttering step keeps the invariant.                                   *)
LEMMA VerificationStutters ==
    ASSUME VerificationInv, UNCHANGED verificationVars
    PROVE  VerificationInv'
  BY AroundKeeps DEF verificationVars, VerificationInv, VerificationTypes

(* A task is verified only on evidence about its latest run, and a          *)
(* verification that is over leaves no review to be answered, for any       *)
(* number of submissions, attempts and reviewers.                           *)
THEOREM VerifiedTasksAreProven == VerificationSpec => []VerificationIsSound
  <1>1. VerificationInv /\ [VerificationNext]_verificationVars => VerificationInv'
    BY VerificationStepKeeps, VerificationStutters
  <1>2. VerificationInv => VerificationIsSound BY DEF VerificationInv
  <1> QED BY <1>1, <1>2, VerificationInvInit, PTL DEF VerificationSpec

-----------------------------------------------------------------------------
(* ProjectFeed                                                              *)

WriteKinds == {"none", "message", "topic", "contribute", "decide", "import", "execute", "reject"}

(* A row that is checked, locked and written in one open transaction is as  *)
(* it was when it was checked.                                              *)
WriteSound(w) ==
    /\ w.kind \in WriteKinds
    /\ w.kind # "none" =>
          /\ w.sequence \in 1 .. drawn
          /\ \A e \in feed : e.sequence # w.sequence
    /\ w.kind = "topic" => w.on = "new_topic" /\ topic.status = "none"
    /\ w.kind \in {"contribute", "decide"} => w.on = "topic" /\ topic.status = "open"
    /\ w.kind = "import" => w.on \in Drafts /\ draft[w.on].status = "none"
    /\ w.kind \in {"execute", "reject"} => w.on \in Drafts /\ draft[w.on].status = "pending"

(* Two open transactions have drawn two numbers, and locked two rows.       *)
Apart(v, w) ==
    v.kind # "none" /\ w.kind # "none" =>
        /\ v.sequence # w.sequence
        /\ v.kind # "message" /\ w.kind # "message" => v.on # w.on

(* FeedTypeOK and the outcome of a draft are not inductive alone: a commit  *)
(* writes what was checked when its transaction began.                      *)
FeedInv ==
    /\ drawn \in Nat /\ FeedTypeOK /\ DraftHasOneOutcome
    /\ subjects = [d \in Drafts |-> subjects[d]]
    /\ writing = [a \in FeedMembers |-> writing[a]]
    /\ \A a \in FeedMembers : WriteSound(writing[a])
    /\ \A a, b \in FeedMembers : a # b => Apart(writing[a], writing[b])

(* No row is there and no transaction open at first.                        *)
LEMMA FeedInvInit == FeedInit => FeedInv
  BY DEF FeedInit, FeedInv, FeedTypeOK, DraftHasOneOutcome, TopicRow, DraftRow, WriteSound,
         WriteKinds, Apart, NoWrite

(* A transaction begins with an activity of its own.                        *)
LEMMA AppendKeepsFeed ==
    ASSUME FeedInv, NEW a \in FeedMembers, NEW kind \in WriteKinds \ {"none"}, NEW row,
           AppendActivity(a, kind, row), kind # "message" => Unlocked(row),
           kind = "topic" => row = "new_topic" /\ topic.status = "none",
           kind \in {"contribute", "decide"} => row = "topic" /\ topic.status = "open",
           kind = "import" => row \in Drafts /\ draft[row].status = "none",
           kind \in {"execute", "reject"} => row \in Drafts /\ draft[row].status = "pending"
    PROVE  FeedInv' /\ topic' = topic
  <1> PICK w : w = [kind |-> kind, on |-> row, sequence |-> drawn + 1] OBVIOUS
  <1>1. w.kind = kind /\ w.on = row /\ w.sequence = drawn + 1 OBVIOUS
  <1>2. /\ drawn' = drawn + 1 /\ writing' = [writing EXCEPT ![a] = w] /\ drawn \in Nat
        /\ UNCHANGED <<feed, topic, draft, subjects, cursor>>
    BY DEF AppendActivity, FeedInv
  <1> HIDE <1>1
  <1>3. drawn' \in Nat /\ FeedTypeOK' /\ DraftHasOneOutcome'
    <2>1. \A e \in feed : e.sequence \in Nat BY DEF FeedInv, FeedTypeOK, ActivityRow
    <2>2. \A b \in FeedMembers : cursor[b] \in 0 .. drawn'
      BY <1>2 DEF FeedInv, FeedTypeOK
    <2> QED BY <1>2, <2>1, <2>2 DEF FeedInv, FeedTypeOK, DraftHasOneOutcome
  <1>4. \A b \in FeedMembers : b # a => writing'[b] = writing[b] BY <1>2 DEF FeedInv
  <1>5. writing'[a] = w BY <1>2 DEF FeedInv
  <1>6. \A e \in feed : e.sequence # drawn + 1
    BY <1>2 DEF FeedInv, FeedTypeOK, ActivityRow
  <1>7. WriteSound(w)'
    BY <1>1, <1>2, <1>6 DEF WriteSound
  <1>8. \A b \in FeedMembers : b # a => WriteSound(writing[b])'
    BY <1>2, <1>4 DEF FeedInv, WriteSound
  <1>9. \A b \in FeedMembers : b # a => Apart(writing[b], w) /\ Apart(w, writing[b])
    <2> SUFFICES ASSUME NEW b \in FeedMembers, b # a, writing[b].kind # "none"
                 PROVE  /\ writing[b].sequence # w.sequence
                        /\ writing[b].kind # "message" /\ w.kind # "message" => writing[b].on # w.on
      BY DEF Apart
    <2>1. writing[b].sequence \in 1 .. drawn BY DEF FeedInv, WriteSound
    <2> QED BY <1>1, <1>2, <2>1 DEF Unlocked
  <1>10. \A b, c \in FeedMembers : b # c => Apart(writing'[b], writing'[c])
    BY <1>4, <1>5, <1>9 DEF FeedInv
  <1>11. writing' = [b \in FeedMembers |-> writing'[b]] BY <1>2 DEF FeedInv
  <1> QED BY <1>2, <1>3, <1>5, <1>7, <1>8, <1>10, <1>11 DEF FeedInv, Apart

(* A transaction ends: the others keep their rows, which it did not lock.   *)
LEMMA OthersKeep ==
    ASSUME FeedInv, NEW a \in FeedMembers, writing' = [writing EXCEPT ![a] = NoWrite],
           drawn' = drawn, NEW w, w = writing[a], w.kind # "none",
           feed' \subseteq feed \cup {[sequence |-> w.sequence, actor |-> a]},
           topic' = topic \/ w.kind \in {"topic", "contribute", "decide"},
           \A d \in Drafts : \/ draft'[d].status = draft[d].status
                             \/ d = w.on /\ w.kind \in {"import", "execute", "reject"}
    PROVE  /\ writing' = [b \in FeedMembers |-> writing'[b]]
           /\ \A b \in FeedMembers : WriteSound(writing[b])'
           /\ \A b, c \in FeedMembers : b # c => Apart(writing'[b], writing'[c])
  <1>1. \A b \in FeedMembers : b # a => writing'[b] = writing[b] BY DEF FeedInv
  <1>2. writing'[a] = NoWrite BY DEF FeedInv
  <1>3. WriteSound(NoWrite)' /\ \A v : Apart(v, NoWrite) /\ Apart(NoWrite, v)
    BY DEF WriteSound, WriteKinds, NoWrite, Apart
  <1>4. \A b \in FeedMembers : b # a => WriteSound(writing[b])'
    <2> SUFFICES ASSUME NEW b \in FeedMembers, b # a PROVE WriteSound(writing[b])' OBVIOUS
    <2> PICK v : v = writing[b] OBVIOUS
    <2>1. WriteSound(v) /\ WriteSound(w) /\ Apart(v, w) BY DEF FeedInv
    <2>2. CASE v.kind = "none" BY <2>1, <2>2 DEF WriteSound
    <2>3. CASE v.kind # "none"
      <3>1. v.sequence # w.sequence BY <2>1, <2>3 DEF Apart
      <3>2. \A e \in feed' : e.sequence # v.sequence
        <4>1. [sequence |-> w.sequence, actor |-> a].sequence = w.sequence OBVIOUS
        <4> QED BY <2>1, <2>3, <3>1, <4>1 DEF WriteSound
      <3>3. v.kind = "topic" => topic'.status = "none"
        BY <2>1, <2>3 DEF WriteSound, Apart
      <3>4. v.kind \in {"contribute", "decide"} => topic'.status = "open"
        BY <2>1, <2>3 DEF WriteSound, Apart
      <3>5. v.kind \in {"import", "execute", "reject"} => draft'[v.on].status = draft[v.on].status
        BY <2>1, <2>3 DEF WriteSound, Apart
      <3> QED BY <2>1, <3>2, <3>3, <3>4, <3>5 DEF WriteSound
    <2> QED BY <2>2, <2>3
  <1>5. writing' = [b \in FeedMembers |-> writing'[b]] BY DEF FeedInv
  <1>6. \A b, c \in FeedMembers : b # c => Apart(writing'[b], writing'[c])
    BY <1>1, <1>2, <1>3 DEF FeedInv
  <1>7. \A b \in FeedMembers : WriteSound(writing[b])'
    BY <1>1, <1>2, <1>3, <1>4
  <1> QED BY <1>5, <1>6, <1>7

(* A transaction that fails leaves nothing but its number.                  *)
LEMMA RollbackKeeps ==
    ASSUME FeedInv, NEW a \in FeedMembers, Rollback(a)
    PROVE  FeedInv' /\ topic' = topic
  <1> PICK w : w = writing[a] OBVIOUS
  <1>1. /\ writing' = [writing EXCEPT ![a] = NoWrite] /\ w.kind # "none"
        /\ UNCHANGED <<feed, drawn, topic, draft, subjects, cursor>>
    BY DEF Rollback
  <1>2. /\ writing' = [b \in FeedMembers |-> writing'[b]]
        /\ \A b \in FeedMembers : WriteSound(writing[b])'
        /\ \A b, c \in FeedMembers : b # c => Apart(writing'[b], writing'[c])
    <2>1. feed' \subseteq feed \cup {[sequence |-> w.sequence, actor |-> a]} BY <1>1
    <2>2. \A d \in Drafts : draft'[d].status = draft[d].status BY <1>1
    <2>3. topic' = topic /\ drawn' = drawn BY <1>1
    <2> QED BY <1>1, <2>1, <2>2, <2>3, OthersKeep
  <1>3. FeedTypeOK' /\ DraftHasOneOutcome' /\ drawn' \in Nat
    BY <1>1 DEF FeedInv, FeedTypeOK, DraftHasOneOutcome
  <1> QED BY <1>1, <1>2, <1>3 DEF FeedInv, Apart

(* A commit writes to the rows it has locked, and they were as it had       *)
(* checked them.                                                            *)
LEMMA CommitWriteKeeps ==
    ASSUME FeedInv, NEW a \in FeedMembers, CommitWrite(a)
    PROVE  FeedInv' /\ (topic.status = "decided" => topic' = topic)
  <1> PICK w : w = writing[a] OBVIOUS
  <1> PICK row : row = [sequence |-> w.sequence, actor |-> a] OBVIOUS
  <1>0. row.sequence = w.sequence /\ row.actor = a /\ (w.sequence \in Nat => row \in ActivityRow)
    BY DEF ActivityRow
  <1>1. WriteSound(w) /\ w.kind # "none" /\ drawn \in Nat BY DEF FeedInv, CommitWrite
  <1>2. /\ feed' = feed \cup {row} /\ writing' = [writing EXCEPT ![a] = NoWrite]
        /\ drawn' = drawn /\ cursor' = cursor
    BY DEF CommitWrite
  <1>3. /\ topic' \in TopicRow /\ (topic.status = "decided" => topic' = topic)
        /\ topic' = topic \/ w.kind \in {"topic", "contribute", "decide"}
    <2>1. topic \in TopicRow BY DEF FeedInv, FeedTypeOK
    <2>2. CASE w.kind = "topic"
      <3>1. topic' = [topic EXCEPT !.status = "open"] BY <2>2 DEF CommitWrite
      <3> QED BY <1>1, <2>1, <2>2, <3>1 DEF WriteSound, TopicRow
    <2>3. CASE w.kind = "contribute"
      <3>1. topic' = [topic EXCEPT !.said = @ + 1] BY <2>3 DEF CommitWrite
      <3> QED BY <1>1, <2>1, <2>3, <3>1 DEF WriteSound, TopicRow
    <2>4. CASE w.kind = "decide"
      <3>1. topic' = [topic EXCEPT !.status = "decided"] BY <2>4 DEF CommitWrite
      <3> QED BY <1>1, <2>1, <2>4, <3>1 DEF WriteSound, TopicRow
    <2>5. CASE w.kind \notin {"topic", "contribute", "decide"}
      <3>1. topic' = topic BY <2>5 DEF CommitWrite
      <3> QED BY <2>1, <3>1
    <2> QED BY <2>2, <2>3, <2>4, <2>5
  <1>4. /\ draft' \in [Drafts -> DraftRow] /\ subjects' = [d \in Drafts |-> subjects'[d]]
        /\ \A d \in Drafts : \/ draft'[d].status = draft[d].status
                             \/ d = w.on /\ w.kind \in {"import", "execute", "reject"}
        /\ DraftHasOneOutcome'
    <2>1. draft \in [Drafts -> DraftRow] /\ subjects = [d \in Drafts |-> subjects[d]]
      BY DEF FeedInv, FeedTypeOK
    <2>2. CASE w.kind \in {"import", "execute", "reject"}
      <3>1. PICK to \in {"pending", "executed", "rejected"} :
               /\ draft' = [draft EXCEPT ![w.on].status = to]
               /\ to = "executed" <=> w.kind = "execute"
        BY <2>2 DEF CommitWrite
      <3>2. w.on \in Drafts /\ draft[w.on].status # "executed" BY <1>1, <2>2 DEF WriteSound
      <3>3. /\ draft' \in [Drafts -> DraftRow] /\ draft'[w.on].status = to
            /\ \A d \in Drafts : d # w.on => draft'[d] = draft[d]
        BY <2>1, <3>1, <3>2 DEF DraftRow
      <3>4. /\ subjects' = [d \in Drafts |-> subjects'[d]]
            /\ \A d \in Drafts : d # w.on => subjects'[d] = subjects[d]
            /\ subjects'[w.on] = IF w.kind = "execute" THEN subjects[w.on] + 1 ELSE subjects[w.on]
        BY <2>1, <3>2 DEF CommitWrite, Executed
      <3>5. subjects[w.on] = 0 BY <3>2 DEF FeedInv, DraftHasOneOutcome
      <3>6. DraftHasOneOutcome'
        BY <3>1, <3>3, <3>4, <3>5 DEF FeedInv, DraftHasOneOutcome
      <3> QED BY <2>2, <3>3, <3>4, <3>6
    <2>3. CASE w.kind \notin {"import", "execute", "reject"}
      <3>1. draft' = draft /\ subjects' = subjects BY <2>3 DEF CommitWrite
      <3>2. DraftHasOneOutcome BY DEF FeedInv
      <3>3. DraftHasOneOutcome' BY <3>1, <3>2 DEF DraftHasOneOutcome
      <3>4. subjects' = [d \in Drafts |-> subjects'[d]] BY <2>1, <3>1
      <3> QED BY <2>1, <3>1, <3>3, <3>4
    <2> QED BY <2>2, <2>3
  <1>5. /\ writing' = [b \in FeedMembers |-> writing'[b]]
        /\ \A b \in FeedMembers : WriteSound(writing[b])'
        /\ \A b, c \in FeedMembers : b # c => Apart(writing'[b], writing'[c])
    BY <1>1, <1>2, <1>3, <1>4, OthersKeep
  <1>6. FeedTypeOK'
    <2>1. w.sequence \in 1 .. drawn /\ \A e \in feed : e.sequence # w.sequence
      BY <1>1 DEF WriteSound
    <2>2. \A e \in feed' : e \in ActivityRow /\ e.sequence <= drawn
      BY <1>0, <1>1, <1>2, <2>1 DEF FeedInv, FeedTypeOK
    <2>3. \A e, f \in feed' : e.sequence = f.sequence => e = f
      BY <1>0, <1>2, <2>1 DEF FeedInv, FeedTypeOK
    <2> QED BY <1>2, <1>3, <1>4, <2>2, <2>3 DEF FeedInv, FeedTypeOK
  <1> QED BY <1>1, <1>2, <1>3, <1>4, <1>5, <1>6 DEF FeedInv, Apart

(* Reading marks activities that are there.                                 *)
LEMMA ReadKeeps ==
    ASSUME FeedInv, NEW a \in FeedMembers, MarkProjectRead(a)
    PROVE  FeedInv' /\ topic' = topic
  <1>1. Latest \in 0 .. drawn
    <2>1. CASE feed = {} BY <2>1 DEF Latest, FeedInv
    <2>2. CASE feed # {}
      <3> PICK T : T = {e.sequence : e \in feed} OBVIOUS
      <3>1. T \in SUBSET (0 .. drawn) /\ T # {}
        BY <2>2 DEF FeedInv, FeedTypeOK, ActivityRow
      <3>2. PICK n \in T : \A t \in T : t <= n BY <3>1, LargestExists DEF FeedInv
      <3>3. \A e \in feed : e.sequence <= n BY <3>2
      <3>4. Latest \in T BY <2>2, <3>2, <3>3 DEF Latest
      <3> QED BY <3>1, <3>4
    <2> QED BY <2>1, <2>2
  <1>2. /\ cursor' \in [FeedMembers -> 0 .. drawn]
        /\ UNCHANGED <<feed, drawn, writing, topic, draft, subjects>>
    BY <1>1 DEF MarkProjectRead, FeedInv, FeedTypeOK
  <1>3. FeedTypeOK' /\ DraftHasOneOutcome'
    BY <1>2 DEF FeedInv, FeedTypeOK, DraftHasOneOutcome
  <1> QED BY <1>2, <1>3 DEF FeedInv, WriteSound, Apart

(* An edit of a pending draft, or a step that writes none of these rows.    *)
LEMMA QuietKeeps ==
    ASSUME FeedInv, UNCHANGED <<feed, drawn, writing, topic, subjects, cursor>>,
           draft' \in [Drafts -> DraftRow], \A d \in Drafts : draft'[d].status = draft[d].status
    PROVE  FeedInv' /\ topic' = topic
  <1>1. FeedTypeOK' /\ DraftHasOneOutcome' BY DEF FeedInv, FeedTypeOK, DraftHasOneOutcome
  <1>2. \A a \in FeedMembers : WriteSound(writing[a])' BY DEF FeedInv, WriteSound
  <1> QED BY <1>1, <1>2 DEF FeedInv, Apart

(* Every step keeps the rows and never decides a draft twice.               *)
LEMMA FeedInvNext ==
    FeedInv /\ [FeedNext]_feedVars =>
        FeedInv' /\ (topic.status = "decided" => topic' = topic)
  <1> SUFFICES ASSUME FeedInv, [FeedNext]_feedVars
               PROVE  FeedInv' /\ (topic.status = "decided" => topic' = topic)
    OBVIOUS
  <1>0. draft \in [Drafts -> DraftRow] BY DEF FeedInv, FeedTypeOK
  <1>1. CASE MessageRoutes
    <2> PICK a \in FeedMembers : SendMessage(a) \/ MarkProjectRead(a) \/ ArchiveNotice(a)
      BY <1>1 DEF MessageRoutes
    <2>1. CASE SendMessage(a) BY <2>1, AppendKeepsFeed DEF SendMessage, WriteKinds
    <2>2. CASE MarkProjectRead(a) BY <2>2, ReadKeeps
    <2>3. CASE ArchiveNotice(a) BY <1>0, <2>3, QuietKeeps DEF ArchiveNotice
    <2> QED BY <2>1, <2>2, <2>3
  <1>2. CASE TopicRoutes
    <2> PICK a \in FeedMembers : CreateTopic(a) \/ ContributeTopic(a) \/ DecideTopic(a)
      BY <1>2 DEF TopicRoutes
    <2>1. CASE CreateTopic(a) BY <2>1, AppendKeepsFeed DEF CreateTopic, WriteKinds
    <2>2. CASE ContributeTopic(a)
      BY <2>2, AppendKeepsFeed DEF ContributeTopic, TopicLocked, WriteKinds
    <2>3. CASE DecideTopic(a) BY <2>3, AppendKeepsFeed DEF DecideTopic, TopicLocked, WriteKinds
    <2> QED BY <2>1, <2>2, <2>3
  <1>3. CASE DraftRoutes
    <2>1. CASE \E mode \in RunModes \ {"none"} : BindRun(mode)
      BY <1>0, <2>1, QuietKeeps DEF BindRun
    <2>2. CASE \E d \in Drafts : UpdateDraft(d)
      <3> PICK d \in Drafts : UpdateDraft(d) BY <2>2
      <3>1. /\ draft' = [draft EXCEPT ![d].version = @ + 1]
            /\ UNCHANGED <<feed, drawn, writing, topic, subjects, cursor>>
        BY DEF UpdateDraft
      <3>2. draft' \in [Drafts -> DraftRow] /\ \A e \in Drafts : draft'[e].status = draft[e].status
        BY <1>0, <3>1 DEF DraftRow
      <3> QED BY <3>1, <3>2, QuietKeeps
    <2>3. ASSUME NEW d \in Drafts, NEW a \in FeedMembers, ImportDraft(a, d)
          PROVE  FeedInv' /\ topic' = topic
      BY <2>3, AppendKeepsFeed DEF ImportDraft, WriteKinds
    <2>4. ASSUME NEW d \in Drafts, NEW a \in FeedMembers, NEW execute \in BOOLEAN,
                 FinishDraft(a, d, execute)
          PROVE  FeedInv' /\ topic' = topic
      <3> PICK kind \in {"execute", "reject"} : AppendActivity(a, kind, d)
        BY <2>4 DEF FinishDraft
      <3> QED BY <2>4, AppendKeepsFeed DEF FinishDraft, Undecided, WriteKinds
    <2> QED BY <1>3, <2>1, <2>2, <2>3, <2>4 DEF DraftRoutes
  <1>4. CASE \E a \in FeedMembers : CommitWrite(a) \/ Rollback(a)
    BY <1>4, CommitWriteKeeps, RollbackKeeps
  <1>5. CASE UNCHANGED feedVars BY <1>0, <1>5, QuietKeeps DEF feedVars
  <1> QED BY <1>1, <1>2, <1>3, <1>4, <1>5 DEF FeedNext

(* The rows of a team's feed agree whatever transactions are open at once   *)
(* and however many fail: a topic, an action draft and a task are settled   *)
(* once, by the transaction that locked them (confirm_action, decide,       *)
(* contribute).                                                             *)
THEOREM FeedSettles == FeedSpec => FeedIsSettled
  <1>1. FeedSpec => []FeedInv BY FeedInvInit, FeedInvNext, PTL DEF FeedSpec
  <1>2. FeedInv => FeedTypeOK /\ DraftHasOneOutcome BY DEF FeedInv
  <1>3. FeedInv /\ [FeedNext]_feedVars => [topic.status = "decided" => topic' = topic]_feedVars
    BY FeedInvNext
  <1>4. FeedSpec => DecisionEndsDiscussion
    BY <1>1, <1>3, PTL DEF FeedSpec, DecisionEndsDiscussion
  <1> QED BY <1>1, <1>2, <1>4, PTL DEF FeedIsSettled

-----------------------------------------------------------------------------
(* Governance and Contracts                                                 *)

BoardRow ==
    [version : Nat, role : [Principals -> Role], plan : Plan,
     items : [Items -> Item], asg : [Assignments -> Assignment]]

Settled(b) ==
    /\ b.plan.state = "absent" => b.plan.approvals = {}
    /\ b.plan.state = "approved" =>
          /\ b.plan.required \subseteq b.plan.approvals
          /\ \A i \in Items : ~(b.items[i].state = "open" /\ b.items[i].blocking)

(* What no operation of a board takes back.                                 *)
Remembers(b, c) ==
    /\ \A p \in Members(b) : c.role[p] = b.role[p]
    /\ b.plan.approvals \subseteq c.plan.approvals
    /\ \A i \in Items : /\ b.items[i].state # "absent" => c.items[i].state # "absent"
                        /\ b.items[i].state = "resolved" => c.items[i].state = "resolved"
    /\ \A a \in Assignments : b.asg[a].state = "verified" => c.asg[a].state = "verified"

Succeeds(b, c) == c \in BoardRow /\ Settled(c) /\ Remembers(b, c)

(* A command whose loaded version is still current writes a successor of    *)
(* the board; of the others nothing is said, for they will be refused.      *)
BoardInv ==
    /\ board \in BoardRow /\ Settled(board)
    /\ board.version = 0 => board = NoBoard
    /\ command = [k \in Commands |-> command[k]]
    /\ \A k \in Commands :
          /\ command[k].version \in Nat /\ command[k].version <= board.version
          /\ command[k].state = "open" /\ command[k].version = board.version
                => Succeeds(board, command[k].next)

(* add_member                                                               *)
LEMMA AddMemberSucceeds ==
    ASSUME NEW b \in BoardRow, Settled(b), NEW actor \in Principals, NEW c \in AddMember(b, actor)
    PROVE  Succeeds(b, c)
  <1>0. PICK x \in Principals \X (Role \ {"none"}) :
         c = [b EXCEPT !.role[x[1]] = x[2]] /\ b.role[x[1]] = "none"
    BY DEF AddMember
  <1> PICK p \in Principals, r \in (Role \ {"none"}) : p = x[1] /\ r = x[2]
    OBVIOUS
  <1>1. c \in BoardRow /\ c.plan = b.plan /\ c.items = b.items /\ c.asg = b.asg
    BY <1>0 DEF BoardRow, Role
  <1>2. \A q \in Principals : q # p => c.role[q] = b.role[q] BY <1>0 DEF BoardRow
  <1> QED BY <1>0, <1>1, <1>2 DEF Succeeds, Settled, Remembers, Members

(* create_plan                                                              *)
LEMMA CreatePlanSucceeds ==
    ASSUME NEW b \in BoardRow, Settled(b), NEW actor \in Principals, NEW c \in CreatePlan(b, actor)
    PROVE  Succeeds(b, c)
  <1>1. PICK x \in (SUBSET Members(b)) \X (SUBSET Tenants) :
         /\ c = [b EXCEPT !.plan = [state |-> "draft", required |-> x[1], approvals |-> {},
                                    visible |-> x[2]]]
         /\ b.plan.state = "absent"
    BY DEF CreatePlan
  <1> PICK plan : plan = [state |-> "draft", required |-> x[1], approvals |-> {}, visible |-> x[2]]
    OBVIOUS
  <1>2. plan \in Plan /\ plan.state = "draft" BY DEF Plan, Members
  <1>3. c = [b EXCEPT !.plan = plan] BY <1>1
  <1> HIDE <1>1
  <1>4. c \in BoardRow /\ c.plan = plan /\ c.role = b.role /\ c.items = b.items /\ c.asg = b.asg
    BY <1>2, <1>3 DEF BoardRow
  <1>5. b.plan.approvals = {} BY <1>1 DEF Settled
  <1> QED BY <1>2, <1>4, <1>5 DEF Succeeds, Settled, Remembers, Members

(* open_discussion                                                          *)
LEMMA OpenDiscussionSucceeds ==
    ASSUME NEW b \in BoardRow, Settled(b), NEW actor \in Principals, NEW c \in OpenDiscussion(b, actor)
    PROVE  Succeeds(b, c)
  <1>1. c = [b EXCEPT !.plan.state = "discussion"] /\ b.plan.state = "draft" BY DEF OpenDiscussion
  <1>2. /\ c \in BoardRow /\ c.plan.state = "discussion" /\ c.plan.approvals = b.plan.approvals
        /\ c.role = b.role /\ c.items = b.items /\ c.asg = b.asg
    BY <1>1 DEF BoardRow, Plan
  <1> QED BY <1>2 DEF Succeeds, Settled, Remembers, Members

(* add_discussion_item                                                      *)
LEMMA AddItemSucceeds ==
    ASSUME NEW b \in BoardRow, Settled(b), NEW actor \in Principals,
           NEW c \in AddDiscussionItem(b, actor)
    PROVE  Succeeds(b, c)
  <1>1. PICK x \in Items \X BOOLEAN :
         /\ c = [b EXCEPT !.items[x[1]] = [state |-> "open", blocking |-> x[2], author |-> actor]]
         /\ b.plan.state = "discussion" /\ b.items[x[1]].state = "absent"
    BY DEF AddDiscussionItem
  <1> PICK i \in Items : i = x[1] OBVIOUS
  <1> PICK item : item = [state |-> "open", blocking |-> x[2], author |-> actor] OBVIOUS
  <1>2. item \in Item /\ item.state = "open" BY DEF Item
  <1>3. c = [b EXCEPT !.items[i] = item] /\ b.items[i].state = "absent" BY <1>1
  <1>4. /\ c \in BoardRow /\ c.plan = b.plan /\ c.role = b.role /\ c.asg = b.asg
        /\ c.items[i] = item /\ \A j \in Items : j # i => c.items[j] = b.items[j]
    BY <1>2, <1>3 DEF BoardRow
  <1> QED BY <1>1, <1>2, <1>3, <1>4 DEF Succeeds, Settled, Remembers, Members

(* resolve_discussion_item                                                  *)
LEMMA ResolveItemSucceeds ==
    ASSUME NEW b \in BoardRow, Settled(b), NEW actor \in Principals,
           NEW c \in ResolveDiscussionItem(b, actor)
    PROVE  Succeeds(b, c)
  <1>1. PICK i \in Items : c = [b EXCEPT !.items[i].state = "resolved"]
    BY DEF ResolveDiscussionItem
  <1>2. b.items \in [Items -> Item] BY DEF BoardRow
  <1> PICK item : item = [b.items[i] EXCEPT !.state = "resolved"] OBVIOUS
  <1>3. item \in Item /\ item.state = "resolved" BY <1>2 DEF Item
  <1>4. c = [b EXCEPT !.items[i] = item] BY <1>1, <1>2 DEF BoardRow
  <1>5. /\ c \in BoardRow /\ c.plan = b.plan /\ c.role = b.role /\ c.asg = b.asg
        /\ c.items[i] = item /\ \A j \in Items : j # i => c.items[j] = b.items[j]
    BY <1>3, <1>4 DEF BoardRow
  <1> QED BY <1>3, <1>5 DEF Succeeds, Settled, Remembers, Members

(* approve_plan                                                             *)
LEMMA ApprovePlanSucceeds ==
    ASSUME NEW b \in BoardRow, Settled(b), NEW actor \in Principals, NEW c \in ApprovePlan(b, actor)
    PROVE  Succeeds(b, c)
  <1> PICK approvals : approvals = b.plan.approvals \cup {actor} OBVIOUS
  <1> PICK state : state = IF b.plan.required \subseteq approvals THEN "approved" ELSE b.plan.state
    OBVIOUS
  <1>0. b.plan \in Plan BY DEF BoardRow
  <1>1. /\ b.plan.state = "discussion" /\ Unresolved(b, actor) = {}
        /\ c \in {[b EXCEPT !.plan.approvals = approvals,
                          !.plan.state = IF b.plan.required \subseteq approvals
                                         THEN "approved" ELSE @]}
    BY DEF ApprovePlan
  <1> PICK plan : plan = [b.plan EXCEPT !.approvals = approvals, !.state = state] OBVIOUS
  <1>2. /\ plan \in Plan /\ plan.approvals = approvals /\ plan.required = b.plan.required
        /\ plan.state = state
    <2>1. approvals \in SUBSET Principals /\ state \in {"approved", "discussion"}
      BY <1>0, <1>1 DEF Plan
    <2> QED BY <1>0, <2>1 DEF Plan
  <1>3. c = [b EXCEPT !.plan = plan] BY <1>1, <1>0 DEF BoardRow, Plan
  <1>4. /\ c \in BoardRow /\ c.plan = plan /\ c.role = b.role /\ c.asg = b.asg /\ c.items = b.items
    BY <1>2, <1>3 DEF BoardRow
  <1>5. Settled(c)
    BY <1>1, <1>2, <1>4 DEF Settled, Unresolved
  <1> QED BY <1>2, <1>4, <1>5 DEF Succeeds, Remembers, Members

(* propose_assignment                                                       *)
LEMMA ProposeSucceeds ==
    ASSUME NEW b \in BoardRow, Settled(b), NEW actor \in Principals,
           NEW c \in ProposeAssignment(b, actor)
    PROVE  Succeeds(b, c)
  <1>1. PICK x \in Assignments \X Principals \X (SUBSET Assignments) \X (SUBSET Tenants) :
         /\ c = [b EXCEPT !.asg[x[1]] =
                   [state |-> "proposed", assignee |-> x[2], deps |-> x[3], visible |-> x[4]]]
         /\ b.asg[x[1]].state = "absent"
    BY DEF ProposeAssignment
  <1> PICK a, asg : a = x[1] /\ asg = [state |-> "proposed", assignee |-> x[2], deps |-> x[3],
                                       visible |-> x[4]]
    OBVIOUS
  <1>2. a \in Assignments /\ asg \in Assignment BY DEF Assignment
  <1>3. c = [b EXCEPT !.asg[a] = asg] /\ b.asg[a].state = "absent" BY <1>1
  <1>4. /\ c \in BoardRow /\ c.plan = b.plan /\ c.role = b.role /\ c.items = b.items
        /\ \A d \in Assignments : d # a => c.asg[d] = b.asg[d]
    BY <1>2, <1>3 DEF BoardRow
  <1> QED BY <1>3, <1>4 DEF Succeeds, Settled, Remembers, Members

(* An assignment that is not verified changes its state.                    *)
LEMMA AssignmentSucceeds ==
    ASSUME NEW b \in BoardRow, Settled(b), NEW a \in Assignments,
           NEW s \in {"accepted", "declined", "in_progress", "submitted", "verified"},
           b.asg[a].state # "verified", NEW c, c = [b EXCEPT !.asg[a].state = s]
    PROVE  Succeeds(b, c)
  <1>1. b.asg \in [Assignments -> Assignment] BY DEF BoardRow
  <1> PICK asg : asg = [b.asg[a] EXCEPT !.state = s] OBVIOUS
  <1>2. asg \in Assignment BY <1>1 DEF Assignment
  <1>3. c = [b EXCEPT !.asg[a] = asg] BY <1>1 DEF BoardRow
  <1>4. /\ c \in BoardRow /\ c.plan = b.plan /\ c.role = b.role /\ c.items = b.items
        /\ \A d \in Assignments : d # a => c.asg[d] = b.asg[d]
    BY <1>2, <1>3 DEF BoardRow
  <1> QED BY <1>4 DEF Succeeds, Settled, Remembers, Members

(* Every operation of a board leads to a successor.                         *)
LEMMA OperationsSucceed ==
    ASSUME NEW b \in BoardRow, Settled(b), NEW actor \in Principals, NEW c,
           \/ c \in AddMember(b, actor) \/ c \in CreatePlan(b, actor)
           \/ c \in OpenDiscussion(b, actor) \/ c \in AddDiscussionItem(b, actor)
           \/ c \in ResolveDiscussionItem(b, actor) \/ c \in ApprovePlan(b, actor)
           \/ c \in ProposeAssignment(b, actor) \/ c \in RespondToAssignment(b, actor)
           \/ c \in StartAssignment(b, actor) \/ c \in SubmitAssignment(b, actor)
           \/ c \in RequestChanges(b, actor)
           \/ \E a \in Assignments : c \in VerifyAssignment(b, actor, a)
    PROVE  Succeeds(b, c)
  <1>1. CASE c \in RespondToAssignment(b, actor)
    <2> PICK x \in Assignments \X {"accepted", "declined"} :
           c = [b EXCEPT !.asg[x[1]].state = x[2]] /\ b.asg[x[1]].state = "proposed"
      BY <1>1 DEF RespondToAssignment
    <2> QED BY AssignmentSucceeds
  <1>2. CASE c \in StartAssignment(b, actor) BY <1>2, AssignmentSucceeds DEF StartAssignment
  <1>3. CASE c \in SubmitAssignment(b, actor) BY <1>3, AssignmentSucceeds DEF SubmitAssignment
  <1>4. CASE c \in RequestChanges(b, actor)
    BY <1>4, AssignmentSucceeds DEF RequestChanges, CanReview
  <1>5. CASE \E a \in Assignments : c \in VerifyAssignment(b, actor, a)
    BY <1>5, AssignmentSucceeds DEF VerifyAssignment, CanReview
  <1> QED BY <1>1, <1>2, <1>3, <1>4, <1>5, AddMemberSucceeds, CreatePlanSucceeds,
             OpenDiscussionSucceeds, AddItemSucceeds, ResolveItemSucceeds, ApprovePlanSucceeds,
             ProposeSucceeds

(* No command under way writes a board that is not there.                   *)
LEMMA BoardInvInit == BoardInit => BoardInv
  <1> SUFFICES ASSUME BoardInit PROVE BoardInv OBVIOUS
  <1>1. NoPlan \in Plan /\ NoPlan.state = "absent" /\ NoPlan.approvals = {} BY DEF NoPlan, Plan
  <1>2. NoItem \in Item /\ NoAssignment \in Assignment
    BY DEF NoItem, Item, NoAssignment, Assignment
  <1>3. NoBoard \in BoardRow /\ NoBoard.plan = NoPlan /\ NoBoard.version = 0
    BY <1>1, <1>2 DEF NoBoard, BoardRow, Role
  <1>4. NoCommand.version = 0 /\ NoCommand.state = "unused" BY DEF NoCommand
  <1> QED BY <1>1, <1>3, <1>4 DEF BoardInit, BoardInv, Settled

(* A command runs its operation on the board it has loaded.                 *)
LEMMA LoadKeeps ==
    ASSUME BoardInv, NEW k \in Commands, NEW next, Succeeds(board, next), Load(k, next)
    PROVE  BoardInv' /\ board' = board
  <1> PICK row : row = [state |-> "open", version |-> board.version, next |-> next] OBVIOUS
  <1>1. row.version = board.version /\ row.next = next OBVIOUS
  <1>2. board' = board /\ command' = [command EXCEPT ![k] = row] BY DEF Load
  <1>3. board.version \in Nat BY DEF BoardInv, BoardRow
  <1>4. /\ command' = [j \in Commands |-> command'[j]] /\ command'[k] = row
        /\ \A j \in Commands : j # k => command'[j] = command[j]
    BY <1>2 DEF BoardInv
  <1> QED BY <1>1, <1>2, <1>3, <1>4 DEF BoardInv

(* A command ends without a write.                                          *)
LEMMA CommandEnds ==
    ASSUME BoardInv, NEW k \in Commands, command' = [command EXCEPT ![k] = NoCommand],
           board' = board
    PROVE  BoardInv'
  <1>1. NoCommand.version = 0 /\ NoCommand.state = "unused" BY DEF NoCommand
  <1>2. /\ command' = [j \in Commands |-> command'[j]] /\ command'[k] = NoCommand
        /\ \A j \in Commands : j # k => command'[j] = command[j]
    BY DEF BoardInv
  <1>3. board.version \in Nat BY DEF BoardInv, BoardRow
  <1> QED BY <1>1, <1>2, <1>3 DEF BoardInv

(* A write moves the version, so that all other loaded copies are refused.  *)
LEMMA SaveKeeps ==
    ASSUME BoardInv, NEW k \in Commands, Save(k)
    PROVE  BoardInv' /\ Remembers(board, board')
  <1> PICK next : next = command[k].next OBVIOUS
  <1>1. Succeeds(board, next) BY DEF BoardInv, Save, Current
  <1>2. board' = [next EXCEPT !.version = board.version + 1] BY DEF Save
  <1>3. board.version \in Nat BY DEF BoardInv, BoardRow
  <1>4. /\ board' \in BoardRow /\ board'.version = board.version + 1
        /\ board'.role = next.role /\ board'.plan = next.plan
        /\ board'.items = next.items /\ board'.asg = next.asg
    BY <1>1, <1>2, <1>3 DEF Succeeds, BoardRow
  <1>5. Settled(board)' BY <1>1, <1>4 DEF Succeeds, Settled
  <1>6. Remembers(board, board')
    BY <1>1, <1>4 DEF Succeeds, Remembers
  <1>7. NoCommand.version = 0 /\ NoCommand.state = "unused" BY DEF NoCommand
  <1>8. /\ command' = [j \in Commands |-> command'[j]] /\ command'[k] = NoCommand
        /\ \A j \in Commands : j # k => command'[j] = command[j]
    BY DEF BoardInv, Save
  <1>9. \A j \in Commands : command'[j].version \in Nat /\ command'[j].version < board'.version
    BY <1>3, <1>4, <1>7, <1>8 DEF BoardInv
  <1>10. \A j \in Commands : command'[j].version # board'.version
    BY <1>3, <1>4, <1>9
  <1> QED BY <1>3, <1>4, <1>5, <1>6, <1>8, <1>9, <1>10 DEF BoardInv

(* The program is created on an empty board.                                *)
LEMMA CreateProgramKeeps ==
    ASSUME BoardInv, NEW k \in Commands, CreateProgram(k)
    PROVE  BoardInv' /\ Remembers(board, board')
  <1>1. board = NoBoard /\ board.version = 0 BY DEF BoardInv, CreateProgram
  <1>2. board' = [board EXCEPT !.version = 1, !.role[Lead] = "lead"] /\ command' = command
    BY <1>1 DEF CreateProgram
  <1>3. /\ board' \in BoardRow /\ board'.version = 1 /\ board'.plan = board.plan
        /\ board'.items = board.items /\ board'.asg = board.asg
    BY <1>2 DEF BoardInv, BoardRow, Role
  <1>4. Members(board) = {} BY <1>1 DEF NoBoard, Members
  <1>5. Settled(board)' BY <1>3 DEF BoardInv, Settled
  <1>6. Remembers(board, board') BY <1>3, <1>4 DEF Remembers
  <1>7. \A j \in Commands : command'[j].version \in Nat /\ command'[j].version = 0
    BY <1>1, <1>2 DEF BoardInv
  <1> QED BY <1>2, <1>3, <1>5, <1>6, <1>7 DEF BoardInv

(* A step of the board keeps the invariant and forgets nothing.             *)
LEMMA BoardStepKeeps ==
    ASSUME BoardInv, BoardStep
    PROVE  BoardInv' /\ (board' = board \/ Remembers(board, board'))
  <1>0. board \in BoardRow /\ Settled(board) BY DEF BoardInv
  <1>1. ASSUME NEW k \in Commands, NEW actor \in Principals,
               \/ AddMemberCommand(k, actor) \/ CreatePlanCommand(k, actor)
               \/ OpenDiscussionCommand(k, actor) \/ AddItemCommand(k, actor)
               \/ ResolveItemCommand(k, actor) \/ ApprovePlanCommand(k, actor)
               \/ ProposeCommand(k, actor) \/ RespondCommand(k, actor)
               \/ StartCommand(k, actor) \/ SubmitCommand(k, actor)
               \/ ReviewCommand(k, actor)
        PROVE  BoardInv' /\ board' = board
    <2>1. \E next : Load(k, next) /\ Succeeds(board, next)
      BY <1>0, <1>1, OperationsSucceed
      DEF Execute, AddMemberCommand, CreatePlanCommand, OpenDiscussionCommand, AddItemCommand,
          ResolveItemCommand, ApprovePlanCommand, ProposeCommand, RespondCommand, StartCommand,
          SubmitCommand, ReviewCommand
    <2> QED BY <2>1, LoadKeeps
  <1>2. ASSUME NEW k \in Commands, Conflict(k) \/ Abort(k) PROVE BoardInv' /\ board' = board
    BY <1>2, CommandEnds DEF Conflict, Abort
  <1> QED BY <1>1, <1>2, SaveKeeps, CreateProgramKeeps DEF BoardStep

-----------------------------------------------------------------------------
(* An impact is newer than the baseline it would move, or is obsolete       *)
(* because the baseline has an impact of its own.                           *)
ContractsInv ==
    /\ ContractsTypeOK
    /\ \A v \in release.versions : v <= release.latest
    /\ \A d \in Dependencies :
          /\ dep[d].state = "absent" => dep[d].baseline = 0
          /\ dep[d].state = "declared" =>
                dep[d].baseline \in Version /\ dep[d].baseline <= release.latest
    /\ \A d \in Dependencies, v \in Version : impact[d][v].state # "absent" =>
          /\ dep[d].state = "declared" /\ v <= release.latest
          /\ v >= dep[d].baseline \/ impact[d][dep[d].baseline].state # "absent"

BaselinesStand == \A d \in Dependencies : dep'[d].baseline >= dep[d].baseline

(* Nothing is released, declared or raised at first.                        *)
LEMMA ContractsInvInit == ContractInit => ContractsInv
  <1> SUFFICES ASSUME ContractInit PROVE ContractsInv OBVIOUS
  <1>1. NoImpact \in Impact /\ NoImpact.state = "absent" BY DEF NoImpact, Impact
  <1>2. NoDependency \in Dependency /\ NoDependency.state = "absent" /\ NoDependency.baseline = 0
    BY ContractParameters DEF NoDependency, Dependency
  <1>3. release \in Release /\ release.versions = {} BY DEF ContractInit, Release
  <1> QED BY <1>1, <1>2, <1>3 DEF ContractInit, ContractsInv, ContractsTypeOK

(* A step that leaves the contracts alone keeps them.                       *)
LEMMA ContractsStutter ==
    ASSUME ContractsInv, UNCHANGED contractVars
    PROVE  ContractsInv' /\ BaselinesStand
  <1>1. \A d \in Dependencies : dep[d].baseline \in Nat
    BY DEF ContractsInv, ContractsTypeOK, Dependency
  <1>2. ContractsInv' BY DEF ContractsInv, ContractsTypeOK, contractVars
  <1>3. BaselinesStand BY <1>1 DEF BaselinesStand, contractVars
  <1> QED BY <1>2, <1>3

(* register_contract: the first version, without dependencies.              *)
LEMMA RegisterKeeps ==
    ASSUME ContractsInv, RegisterContract
    PROVE  ContractsInv' /\ BaselinesStand
  <1>1. /\ release' \in Release /\ release'.versions = release.versions
        /\ release'.latest = release.latest /\ dep' = dep /\ impact' = impact
    BY DEF RegisterContract, ContractsInv, ContractsTypeOK, Release
  <1>2. \A d \in Dependencies : dep[d].baseline \in Nat
    BY DEF ContractsInv, ContractsTypeOK, Dependency
  <1>3. ContractsInv' BY <1>1 DEF ContractsInv, ContractsTypeOK
  <1> QED BY <1>1, <1>2, <1>3 DEF BaselinesStand

(* A release is newer than every baseline.                                  *)
LEMMA ReleaseContractKeeps ==
    ASSUME ContractsInv, NEW v \in Version, NEW digest \in Digests,
           NEW c \in {"compatible", "unknown", "breaking"}, ReleaseContract(v, digest, c)
    PROVE  ContractsInv' /\ BaselinesStand
  <1>0. release \in Release /\ release.latest \in Nat /\ v \in Nat
    BY ContractParameters DEF ContractsInv, ContractsTypeOK, Release, Version
  <1>1. /\ release' \in Release /\ release'.versions = release.versions \cup {v}
        /\ release'.latest = v /\ dep' = dep /\ v > release.latest
    BY <1>0 DEF ReleaseContract, Release
  <1>2. \A d \in Dependencies : Severity(v, dep[d], Compatibility(v, digest, c)) \in
                                   {"notice", "action_required", "blocking"}
    BY DEF Severity
  <1>3. impact' = [d \in Dependencies |-> impact'[d]] BY DEF ReleaseContract
  <1>4. ASSUME NEW d \in Dependencies
        PROVE  /\ impact'[d] \in [Version -> Impact]
               /\ \A w \in Version : w # v => impact'[d][w] = impact[d][w]
               /\ impact'[d][v].state # "absent" =>
                     dep[d].state = "declared" \/ impact[d][v].state # "absent"
               /\ impact[d][v].state # "absent" => impact'[d][v].state # "absent"
    <2>0. impact[d] \in [Version -> Impact] BY DEF ContractsInv, ContractsTypeOK
    <2>1. PICK s \in {"notice", "action_required", "blocking"} :
             s = Severity(v, dep[d], Compatibility(v, digest, c))
      BY <1>2
    <2>2. CASE dep[d].state = "declared" /\ release.latest # 0 /\ digest # release.digest
      <3> PICK i : i = [state |-> "pending", severity |-> s] OBVIOUS
      <3>1. i \in Impact /\ i.state = "pending" BY DEF Impact
      <3>2. impact'[d] = [impact[d] EXCEPT ![v] = i] BY <2>1, <2>2 DEF ReleaseContract
      <3> QED BY <2>0, <2>2, <3>1, <3>2
    <2>3. CASE ~(dep[d].state = "declared" /\ release.latest # 0 /\ digest # release.digest)
      <3>1. impact'[d] = impact[d] BY <2>3 DEF ReleaseContract
      <3> QED BY <2>0, <3>1
    <2> QED BY <2>2, <2>3
  <1>5. ContractsTypeOK' BY <1>1, <1>3, <1>4 DEF ContractsInv, ContractsTypeOK
  <1>6. \A w \in release'.versions : w <= release'.latest
    <2>1. \A w \in release.versions : w \in Nat
      BY <1>0, ContractParameters DEF Release, Version
    <2> QED BY <1>0, <1>1, <2>1 DEF ContractsInv
  <1>7. \A d \in Dependencies : dep[d].state = "declared" =>
           dep[d].baseline \in Version /\ dep[d].baseline \in Nat /\ dep[d].baseline < v
    BY <1>0, <1>1, ContractParameters DEF ContractsInv, Version
  <1>8. \A d \in Dependencies, w \in Version : impact'[d][w].state # "absent" =>
           /\ dep[d].state = "declared" /\ w <= v
           /\ w >= dep[d].baseline \/ impact'[d][dep[d].baseline].state # "absent"
    <2> SUFFICES ASSUME NEW d \in Dependencies, NEW w \in Version, impact'[d][w].state # "absent"
                 PROVE  /\ dep[d].state = "declared" /\ w <= v
                        /\ w >= dep[d].baseline \/ impact'[d][dep[d].baseline].state # "absent"
      OBVIOUS
    <2>0. w \in Nat BY ContractParameters DEF Version
    <2>1. CASE w = v BY <1>0, <1>4, <1>7, <2>1 DEF ContractsInv
    <2>2. CASE w # v
      <3>1. impact[d][w].state # "absent" BY <1>4, <2>2
      <3>2. dep[d].state = "declared" /\ w <= release.latest BY <3>1 DEF ContractsInv
      <3>3. w >= dep[d].baseline \/ impact[d][dep[d].baseline].state # "absent"
        BY <3>1 DEF ContractsInv
      <3> QED BY <1>0, <1>1, <1>4, <1>7, <2>0, <3>2, <3>3
    <2> QED BY <2>1, <2>2
  <1>9. \A d \in Dependencies :
          /\ dep[d].state = "absent" => dep[d].baseline = 0
          /\ dep[d].state = "declared" => dep[d].baseline \in Version /\ dep[d].baseline <= v
    BY <1>0, <1>7 DEF ContractsInv
  <1>10. BaselinesStand
    BY <1>1 DEF BaselinesStand, ContractsInv, ContractsTypeOK, Dependency
  <1> QED BY <1>1, <1>5, <1>6, <1>8, <1>9, <1>10 DEF ContractsInv

(* A dependency begins at a released version, before any impact on it.      *)
LEMMA DeclareKeeps ==
    ASSUME ContractsInv, NEW d \in Dependencies, NEW a \in Assignments, NEW v \in Version,
           NEW f \in Version, NEW caret \in BOOLEAN, DeclareDependency(d, a, v, caret, f)
    PROVE  ContractsInv' /\ BaselinesStand
  <1> PICK x : x = [state |-> "declared", asg |-> a, baseline |-> v, caret |-> caret, floor |-> f]
    OBVIOUS
  <1>0. v \in Nat /\ f \in Nat BY ContractParameters DEF Version
  <1>1. x \in Dependency /\ x.state = "declared" /\ x.baseline = v BY <1>0 DEF Dependency
  <1>2. /\ dep' = [dep EXCEPT ![d] = x] /\ release' = release /\ impact' = impact
        /\ dep[d].state = "absent" /\ v <= release.latest
    BY DEF DeclareDependency, ContractsInv
  <1>3. /\ dep' \in [Dependencies -> Dependency] /\ dep'[d] = x
        /\ \A e \in Dependencies : e # d => dep'[e] = dep[e]
    BY <1>1, <1>2 DEF ContractsInv, ContractsTypeOK
  <1>4. \A w \in Version : impact[d][w].state = "absent" BY <1>2 DEF ContractsInv
  <1>5. ContractsTypeOK' BY <1>2, <1>3 DEF ContractsInv, ContractsTypeOK
  <1>6. \A e \in Dependencies, w \in Version : impact'[e][w].state # "absent" =>
          /\ dep'[e].state = "declared" /\ w <= release.latest
          /\ w >= dep'[e].baseline \/ impact'[e][dep'[e].baseline].state # "absent"
    BY <1>2, <1>3, <1>4 DEF ContractsInv
  <1>7. \A e \in Dependencies :
          /\ dep'[e].state = "absent" => dep'[e].baseline = 0
          /\ dep'[e].state = "declared" => dep'[e].baseline \in Version /\ dep'[e].baseline <= release.latest
    BY <1>1, <1>2, <1>3 DEF ContractsInv
  <1>8. BaselinesStand
    <2>1. \A e \in Dependencies : dep[e].baseline \in Nat
      BY DEF ContractsInv, ContractsTypeOK, Dependency
    <2>2. dep[d].baseline = 0 BY <1>2 DEF ContractsInv
    <2> QED BY <1>0, <1>1, <1>3, <2>1, <2>2 DEF BaselinesStand
  <1> QED BY <1>2, <1>5, <1>6, <1>7, <1>8 DEF ContractsInv

(* An impact that was raised moves to another state.                        *)
LEMMA TransitionMoves ==
    ASSUME ContractsInv, NEW d \in Dependencies, NEW v \in Version,
           NEW allowed \in SUBSET {"pending", "acknowledged", "blocked", "remediation_proposed"},
           NEW target \in {"acknowledged", "blocked", "remediation_proposed", "accepted"},
           Transition(d, v, allowed, target)
    PROVE  /\ impact' \in [Dependencies -> [Version -> Impact]] /\ release' = release
           /\ impact[d][v].state # "absent"
           /\ \A e \in Dependencies, w \in Version :
                 impact'[e][w].state # "absent" <=> impact[e][w].state # "absent"
  <1>1. impact \in [Dependencies -> [Version -> Impact]] BY DEF ContractsInv, ContractsTypeOK
  <1> PICK i : i = [impact[d][v] EXCEPT !.state = target] OBVIOUS
  <1>2. i \in Impact /\ i.state = target BY <1>1 DEF Impact
  <1>3. impact' = [impact EXCEPT ![d][v] = i] BY <1>1 DEF Transition
  <1>4. impact[d][v].state # "absent" /\ release' = release BY DEF Transition
  <1>5. /\ impact' \in [Dependencies -> [Version -> Impact]] /\ impact'[d][v] = i
        /\ \A e \in Dependencies, w \in Version : e # d \/ w # v => impact'[e][w] = impact[e][w]
    BY <1>1, <1>2, <1>3
  <1> QED BY <1>2, <1>4, <1>5, ZenonT(30)

(* A response to an impact that is not an acceptance.                       *)
LEMMA ResponseKeeps ==
    ASSUME ContractsInv, NEW d \in Dependencies, NEW v \in Version,
           \/ \E block \in BOOLEAN : RespondToImpact(d, v, block)
           \/ ProposeRemediation(d, v)
    PROVE  ContractsInv' /\ BaselinesStand
  <1>1. PICK allowed \in SUBSET {"pending", "acknowledged", "blocked", "remediation_proposed"},
             target \in {"acknowledged", "blocked", "remediation_proposed", "accepted"} :
           Transition(d, v, allowed, target)
    BY DEF RespondToImpact, ProposeRemediation
  <1>2. dep' = dep BY DEF RespondToImpact, ProposeRemediation
  <1>3. /\ impact' \in [Dependencies -> [Version -> Impact]] /\ release' = release
        /\ \A e \in Dependencies, w \in Version :
              impact'[e][w].state # "absent" <=> impact[e][w].state # "absent"
    BY <1>1, TransitionMoves
  <1>4. BaselinesStand BY <1>2 DEF BaselinesStand, ContractsInv, ContractsTypeOK, Dependency
  <1>5. ContractsTypeOK' BY <1>2, <1>3 DEF ContractsInv, ContractsTypeOK
  <1> QED BY <1>2, <1>3, <1>4, <1>5 DEF ContractsInv

(* accept_impact: an impact below the baseline would be obsolete.           *)
LEMMA AcceptImpactKeeps ==
    ASSUME ContractsInv, NEW d \in Dependencies, NEW v \in Version, AcceptImpact(d, v)
    PROVE  ContractsInv' /\ BaselinesStand
  <1>0. /\ v \in Nat /\ \A e \in Dependencies : dep[e].baseline \in Nat
        /\ dep \in [Dependencies -> Dependency]
    BY ContractParameters DEF Version, ContractsInv, ContractsTypeOK, Dependency
  <1>1. /\ impact' \in [Dependencies -> [Version -> Impact]] /\ release' = release
        /\ impact[d][v].state # "absent"
        /\ \A e \in Dependencies, w \in Version :
              impact'[e][w].state # "absent" <=> impact[e][w].state # "absent"
    BY TransitionMoves DEF AcceptImpact
  <1>x. PICK x : x = [dep[d] EXCEPT !.baseline = v] OBVIOUS
  <1>2. x \in Dependency /\ x.baseline = v /\ x.state = dep[d].state BY <1>0, <1>x DEF Dependency
  <1>3. /\ dep' \in [Dependencies -> Dependency] /\ dep'[d] = x
        /\ \A e \in Dependencies : e # d => dep'[e] = dep[e]
    BY <1>0, <1>2, <1>x DEF AcceptImpact
  <1>4. dep[d].state = "declared" /\ v <= release.latest BY <1>1 DEF ContractsInv
  <1>5. v >= dep[d].baseline
    BY <1>0, <1>1, <1>4 DEF ContractsInv, AcceptImpact, Obsolete
  <1>6. BaselinesStand BY <1>0, <1>2, <1>3, <1>5 DEF BaselinesStand
  <1>7. ContractsTypeOK' BY <1>1, <1>3 DEF ContractsInv, ContractsTypeOK
  <1>8. \A e \in Dependencies, w \in Version : impact'[e][w].state # "absent" =>
          /\ dep'[e].state = "declared" /\ w <= release.latest
          /\ w >= dep'[e].baseline \/ impact'[e][dep'[e].baseline].state # "absent"
    BY <1>1, <1>2, <1>3, <1>4 DEF ContractsInv
  <1>9. \A e \in Dependencies :
          /\ dep'[e].state = "absent" => dep'[e].baseline = 0
          /\ dep'[e].state = "declared" => dep'[e].baseline \in Version /\ dep'[e].baseline <= release.latest
    BY <1>2, <1>3, <1>4 DEF ContractsInv
  <1> QED BY <1>1, <1>6, <1>7, <1>8, <1>9 DEF ContractsInv

(* Every step keeps what is said of the board and of the contract.          *)
LEMMA AgreementsNext ==
    ASSUME BoardInv, ContractsInv, [CollaborationNext]_collaborationVars
    PROVE  /\ BoardInv' /\ (board' = board \/ Remembers(board, board'))
           /\ ContractsInv' /\ BaselinesStand
  <1>0. UNCHANGED boardVars => BoardInv' /\ board' = board
    BY DEF BoardInv, boardVars
  <1>1. CASE BoardStep /\ UNCHANGED contractVars BY <1>1, BoardStepKeeps, ContractsStutter
  <1>2. CASE ContractStep
    <2>1. CASE RegisterContract
      BY <1>0, <2>1, RegisterKeeps DEF RegisterContract, boardVars
    <2>2. ASSUME NEW v \in Version, NEW digest \in Digests,
                 NEW c \in {"compatible", "unknown", "breaking"}, ReleaseContract(v, digest, c)
          PROVE  BoardInv' /\ board' = board /\ ContractsInv' /\ BaselinesStand
      <3>1. UNCHANGED boardVars BY <2>2 DEF ReleaseContract, boardVars
      <3> QED BY <1>0, <2>2, <3>1, ReleaseContractKeeps
    <2>3. ASSUME NEW d \in Dependencies, NEW a \in Assignments, NEW v \in Version,
                 NEW f \in Version, NEW caret \in BOOLEAN, DeclareDependency(d, a, v, caret, f)
          PROVE  BoardInv' /\ board' = board /\ ContractsInv' /\ BaselinesStand
      <3>1. UNCHANGED boardVars BY <2>3 DEF DeclareDependency, boardVars
      <3> QED BY <1>0, <2>3, <3>1, DeclareKeeps
    <2>4. ASSUME NEW d \in Dependencies, NEW v \in Version,
                 \/ \E block \in BOOLEAN : RespondToImpact(d, v, block)
                 \/ ProposeRemediation(d, v)
          PROVE  BoardInv' /\ board' = board /\ ContractsInv' /\ BaselinesStand
      <3>1. UNCHANGED boardVars
        BY <2>4 DEF RespondToImpact, ProposeRemediation, Transition, boardVars
      <3> QED BY <1>0, <2>4, <3>1, ResponseKeeps
    <2>5. ASSUME NEW d \in Dependencies, NEW v \in Version, AcceptImpact(d, v)
          PROVE  BoardInv' /\ board' = board /\ ContractsInv' /\ BaselinesStand
      <3>1. UNCHANGED boardVars BY <2>5 DEF AcceptImpact, Transition, boardVars
      <3> QED BY <1>0, <2>5, <3>1, AcceptImpactKeeps
    <2>6. ASSUME NEW k \in Commands, NEW actor \in Principals, NEW a \in Assignments,
                 Review(k, actor, a)
          PROVE  BoardInv' /\ board' = board /\ ContractsInv' /\ BaselinesStand
      <3>1. \E next : Load(k, next) /\ next \in VerifyAssignment(board, actor, a)
        BY <2>6 DEF Review
      <3>2. board \in BoardRow /\ Settled(board) BY DEF BoardInv
      <3>3. \E next : Load(k, next) /\ Succeeds(board, next) BY <3>1, <3>2, OperationsSucceed
      <3>4. UNCHANGED contractVars BY <2>6 DEF Review
      <3> QED BY <3>3, <3>4, LoadKeeps, ContractsStutter
    <2> QED BY <1>2, <2>1, <2>2, <2>3, <2>4, <2>5, <2>6 DEF ContractStep
  <1>3. CASE UNCHANGED collaborationVars
    BY <1>0, <1>3, ContractsStutter DEF collaborationVars, boardVars, contractVars
  <1> QED BY <1>1, <1>2, <1>3 DEF CollaborationNext

(* Commands load the board without a lock and write it back whole           *)
(* (GovernanceService), impacts are answered in any order (accept_impact):  *)
(* nothing that was agreed, resolved or verified is lost, an approved plan  *)
(* is settled, and no baseline of a dependency moves back.                  *)
THEOREM AgreementsStand == CollaborationSpec => AgreementsAreKept
  <1> DEFINE I == BoardInv /\ ContractsInv
  <1>1. CollaborationInit => I
    BY BoardInvInit, ContractsInvInit DEF CollaborationInit
  <1>2. I /\ [CollaborationNext]_collaborationVars =>
           /\ I' /\ (board' = board \/ Remembers(board, board')) /\ BaselinesStand
    BY AgreementsNext
  <1>3. I => BoardTypeOK /\ ApprovedPlanIsSettled /\ ContractsTypeOK
    BY DEF BoardInv, BoardRow, Settled, BoardTypeOK, ApprovedPlanIsSettled, ContractsInv
  <1>4. I /\ [CollaborationNext]_collaborationVars =>
           [/\ \A p \in Members(board) : board'.role[p] = board.role[p]
            /\ board.plan.approvals \subseteq board'.plan.approvals
            /\ \A i \in Items :
                  /\ board.items[i].state # "absent" => board'.items[i].state # "absent"
                  /\ board.items[i].state = "resolved" => board'.items[i].state = "resolved"
            /\ \A a \in Assignments :
                  board.asg[a].state = "verified" => board'.asg[a].state = "verified"]_boardVars
    <2> SUFFICES ASSUME I, [CollaborationNext]_collaborationVars
                 PROVE  /\ \A p \in Members(board) : board'.role[p] = board.role[p]
                        /\ board.plan.approvals \subseteq board'.plan.approvals
                        /\ \A i \in Items :
                              /\ board.items[i].state # "absent" => board'.items[i].state # "absent"
                              /\ board.items[i].state = "resolved" => board'.items[i].state = "resolved"
                        /\ \A a \in Assignments :
                              board.asg[a].state = "verified" => board'.asg[a].state = "verified"
      OBVIOUS
    <2>1. CASE board' = board BY <2>1
    <2>2. CASE Remembers(board, board') BY <2>2 DEF Remembers
    <2> QED BY <1>2, <2>1, <2>2
  <1>5. I /\ [CollaborationNext]_collaborationVars =>
           [\A d \in Dependencies : dep'[d].baseline >= dep[d].baseline]_collaborationVars
    BY <1>2 DEF BaselinesStand
  <1> HIDE DEF I
  <1>6. CollaborationSpec => []I BY <1>1, <1>2, PTL DEF CollaborationSpec
  <1>7. CollaborationSpec => BoardNeverForgets
    BY <1>4, <1>6, PTL DEF CollaborationSpec, BoardNeverForgets
  <1>8. CollaborationSpec => BaselineNeverRegresses
    BY <1>5, <1>6, PTL DEF CollaborationSpec, BaselineNeverRegresses
  <1> QED BY <1>3, <1>6, <1>7, <1>8, PTL DEF AgreementsAreKept, BoardIsKept, BaselineIsKept

-----------------------------------------------------------------------------
(* Sums over finite sets                                                    *)

(* A family of subsets of a finite set has a smallest one.                  *)
LEMMA SmallestSubset ==
    ASSUME NEW R, IsFiniteSet(R), NEW Bad \in SUBSET (SUBSET R), Bad # {}
    PROVE  \E s \in Bad : \A t \in Bad : t \subseteq s => t = s
<1> DEFINE Less == StrictSubsetOrdering(R)
<1>1. IsWellFoundedOn(Less, SUBSET R)
    BY FS_StrictSubsetOrderingWellFounded, FS_FiniteSubsetsOfFinite
<1>2. \A s \in SUBSET R, t \in SUBSET R : t \subseteq s /\ t # s => <<t, s>> \in Less
    BY DEF StrictSubsetOrdering
<1> HIDE DEF Less
<1>3. PICK s \in Bad : \A t \in Bad : ~(<<t, s>> \in Less)
    BY <1>1, WFMin
<1> QED BY <1>2, <1>3

(* g gives every subset of R the sum of f over it, whatever element is      *)
(* taken out first.                                                         *)
Sums(g, f, R) ==
    /\ g \in [SUBSET R -> Nat] /\ g[{}] = 0
    /\ \A s \in SUBSET R : \A x \in s : g[s] = f[x] + g[s \ {x}]

LEMMA SumsExist ==
    ASSUME NEW R, IsFiniteSet(R), NEW f \in [R -> Nat]
    PROVE  \E g : Sums(g, f, R)
<1> DEFINE Bad == {T \in SUBSET R : ~ \E g : Sums(g, f, T)}
<1>1. SUFFICES ASSUME Bad # {} PROVE FALSE
    <2>1. R \in SUBSET R
        OBVIOUS
    <2> QED BY <2>1
<1>2. PICK T \in Bad : \A U \in Bad : U \subseteq T => U = T
    <2>1. Bad \in SUBSET (SUBSET R)
        OBVIOUS
    <2> HIDE DEF Bad
    <2> QED BY <1>1, <2>1, SmallestSubset
<1>3. T # {}
    <2>1. Sums([s \in SUBSET {} |-> 0], f, {})
        BY DEF Sums
    <2> QED BY <1>2, <2>1
<1>4. PICK y \in T : TRUE
    BY <1>3
<1>5. PICK U : U = T \ {y}
    OBVIOUS
<1>6. U \in SUBSET R /\ U \subseteq T /\ U # T /\ y \notin U /\ T \subseteq R
    BY <1>2, <1>4, <1>5
<1>7. PICK g : Sums(g, f, U)
    BY <1>2, <1>6
<1>8. PICK h : h = [s \in SUBSET T |-> IF y \in s THEN f[y] + g[s \ {y}] ELSE g[s]]
    OBVIOUS
<1>9. Sums(h, f, T)
    <2>0. g \in [SUBSET U -> Nat] /\ f[y] \in Nat /\ g[{}] = 0
        BY <1>2, <1>4, <1>7 DEF Sums
    <2>1. ASSUME NEW s \in SUBSET T
          PROVE  /\ s \ {y} \in SUBSET U
                 /\ y \notin s => s \in SUBSET U /\ h[s] = g[s]
                 /\ y \in s => h[s] = f[y] + g[s \ {y}]
        BY <1>5, <1>8, <2>1
    <2>2. h \in [SUBSET T -> Nat]
        <3>1. ASSUME NEW s \in SUBSET T
              PROVE  (IF y \in s THEN f[y] + g[s \ {y}] ELSE g[s]) \in Nat
            <4>1. g[s \ {y}] \in Nat /\ (y \notin s => g[s] \in Nat)
                BY <2>0, <2>1
            <4> QED BY <2>0, <4>1
        <3> QED BY <1>8, <3>1
    <2>3. h[{}] = 0
        BY <2>0, <2>1
    <2>4. ASSUME NEW s \in SUBSET T, NEW x \in s PROVE h[s] = f[x] + h[s \ {x}]
        <3>0. s \ {x} \in SUBSET T
            OBVIOUS
        <3>1. CASE y \notin s
            <4>1. h[s] = g[s] /\ h[s \ {x}] = g[s \ {x}] /\ s \in SUBSET U
                BY <2>1, <3>0, <3>1
            <4> QED BY <1>7, <4>1 DEF Sums
        <3>2. CASE y = x
            BY <2>1, <3>0, <3>2
        <3>3. CASE y \in s /\ y # x
            <4>1. PICK a : a = s \ {y}
                OBVIOUS
            <4>2. a \in SUBSET U /\ x \in a /\ (s \ {x}) \ {y} = a \ {x}
                BY <2>1, <3>3, <4>1
            <4>3. h[s] = f[y] + g[a] /\ h[s \ {x}] = f[y] + g[a \ {x}]
                BY <2>1, <3>0, <3>3, <4>1, <4>2
            <4>4. g[a] = f[x] + g[a \ {x}]
                BY <1>7, <4>2 DEF Sums
            <4>5. f[x] \in Nat /\ g[a] \in Nat /\ g[a \ {x}] \in Nat
                BY <1>6, <2>0, <4>2
            <4> QED BY <2>0, <4>3, <4>4, <4>5
        <3> QED BY <3>1, <3>2, <3>3
    <2> QED BY <2>2, <2>3, <2>4 DEF Sums
<1> QED BY <1>2, <1>9

(* The sum over a part is not larger.                                       *)
LEMMA PartSums ==
    ASSUME NEW R, IsFiniteSet(R), NEW f \in [R -> Nat], NEW g, Sums(g, f, R),
           NEW t \in SUBSET R, NEW s \in SUBSET t
    PROVE  g[s] <= g[t]
<1> DEFINE Bad == {u \in SUBSET R : s \subseteq u /\ ~(g[s] <= g[u])}
<1>1. SUFFICES ASSUME Bad # {} PROVE FALSE
    OBVIOUS
<1>2. PICK u \in Bad : \A v \in Bad : v \subseteq u => v = u
    <2>1. Bad \in SUBSET (SUBSET R)
        OBVIOUS
    <2> HIDE DEF Bad
    <2> QED BY <1>1, <2>1, SmallestSubset
<1>3. g[s] \in Nat /\ g[u] \in Nat /\ u # s
    BY <1>2 DEF Sums
<1>4. PICK x \in u : x \notin s
    BY <1>2, <1>3
<1>5. g[u] = f[x] + g[u \ {x}]
    BY <1>2, <1>4 DEF Sums
<1>6. PICK v : v = u \ {x}
    OBVIOUS
<1>7. v \in SUBSET R /\ s \subseteq v /\ v \subseteq u /\ v # u
    BY <1>2, <1>4, <1>6
<1>8. v \notin Bad
    BY <1>2, <1>7
<1>9. g[s] <= g[v] /\ g[v] \in Nat /\ f[x] \in Nat
    BY <1>4, <1>2, <1>7, <1>8 DEF Sums
<1>10. g[u] = f[x] + g[v]
    BY <1>5, <1>6
<1>11. g[s] <= g[u]
    BY <1>3, <1>9, <1>10
<1> QED BY <1>2, <1>11

(* A sum as the fold operators of the library compute it: by recursion on   *)
(* an element they choose.                                                  *)
Recursion(iter, f, rs) ==
    iter = [s \in SUBSET rs |->
               IF s = {} THEN 0
               ELSE f[CHOOSE r \in s : TRUE] + iter[s \ {CHOOSE r \in s : TRUE}]]

LEMMA RecursionExists ==
    ASSUME NEW R, NEW f, NEW g, Sums(g, f, R), NEW rs \in SUBSET R
    PROVE  Recursion([s \in SUBSET rs |-> g[s]], f, rs)
<1>1. PICK k : k = [s \in SUBSET rs |-> g[s]]
    OBVIOUS
<1>2. ASSUME NEW s \in SUBSET rs
      PROVE  k[s] = IF s = {} THEN 0
                    ELSE f[CHOOSE r \in s : TRUE] + k[s \ {CHOOSE r \in s : TRUE}]
    <2>1. CASE s = {}
        BY <1>1, <2>1 DEF Sums
    <2>2. CASE s # {}
        <3>1. PICK x : x = CHOOSE r \in s : TRUE
            OBVIOUS
        <3>2. x \in s
            BY <2>2, <3>1
        <3>3. s \ {x} \in SUBSET rs /\ g[s] = f[x] + g[s \ {x}]
            BY <3>2 DEF Sums
        <3>4. k[s] = g[s] /\ k[s \ {x}] = g[s \ {x}]
            BY <1>1, <3>3
        <3>5. k[s] = f[x] + k[s \ {x}]
            BY <3>3, <3>4
        <3> QED BY <2>2, <3>1, <3>5
    <2> QED BY <2>1, <2>2
<1>3. Recursion(k, f, rs)
    BY <1>1, <1>2 DEF Recursion
<1> QED BY <1>1, <1>3

LEMMA RecursionSums ==
    ASSUME NEW R, IsFiniteSet(R), NEW f \in [R -> Nat], NEW g, Sums(g, f, R),
           NEW rs \in SUBSET R, NEW iter, Recursion(iter, f, rs)
    PROVE  iter[rs] = g[rs]
<1> DEFINE Bad == {s \in SUBSET rs : iter[s] # g[s]}
<1>1. SUFFICES ASSUME Bad # {} PROVE FALSE
    OBVIOUS
<1>2. PICK s \in Bad : \A t \in Bad : t \subseteq s => t = s
    <2>1. Bad \in SUBSET (SUBSET R)
        OBVIOUS
    <2> HIDE DEF Bad
    <2> QED BY <1>1, <2>1, SmallestSubset
<1>3. s # {}
    <2>1. iter[{}] = 0
        BY DEF Recursion
    <2> QED BY <1>2, <2>1 DEF Sums
<1>4. PICK x : x = CHOOSE r \in s : TRUE
    OBVIOUS
<1>5. x \in s
    BY <1>3, <1>4
<1>6. iter[s] = f[x] + iter[s \ {x}]
    BY <1>2, <1>3, <1>4 DEF Recursion
<1>7. g[s] = f[x] + g[s \ {x}]
    BY <1>2, <1>5 DEF Sums
<1>8. PICK t : t = s \ {x}
    OBVIOUS
<1>9. t \in SUBSET rs /\ t \subseteq s /\ t # s
    BY <1>2, <1>5, <1>8
<1>10. iter[t] = g[t]
    BY <1>2, <1>9
<1> QED BY <1>2, <1>6, <1>7, <1>8, <1>10

-----------------------------------------------------------------------------
(* Reserved capacity                                                        *)

(* The slots of a set of rows, as SlotsOf adds them up.                     *)
RowRecursion(iter, rows, rs) ==
    iter = [s \in SUBSET rs |->
               IF s = {} THEN 0
               ELSE rows[CHOOSE r \in s : TRUE].slots + iter[s \ {CHOOSE r \in s : TRUE}]]

Slots(rows, rs) == (CHOOSE iter : RowRecursion(iter, rows, rs))[rs]

(* The reservations in force that a team sees.                              *)
InForce(rows, now, c) ==
    {r \in Reservations : /\ rows[r].status = "active" /\ rows[r].expires > now
                          /\ c \in {ProviderTeam, rows[r].consumer}}

LEMMA ActiveSlotsUnfold ==
    ASSUME NEW c
    PROVE  /\ ActiveSlots(c) = Slots(reservations, InForce(reservations, tick, c))
           /\ ActiveSlots(c)' = Slots(reservations', InForce(reservations', tick', c))
BY DEF ActiveSlots, Active, SeenBy, SlotsOf, MapThenSumSet, MapThenFoldSet, Slots, RowRecursion,
       InForce

LEMMA SameRecursion ==
    ASSUME NEW f, NEW rs, NEW rows, \A r \in rs : rows[r].slots = f[r], NEW iter
    PROVE  RowRecursion(iter, rows, rs) <=> Recursion(iter, f, rs)
<1>1. ASSUME NEW s \in SUBSET rs
      PROVE  (IF s = {} THEN 0
              ELSE rows[CHOOSE r \in s : TRUE].slots + iter[s \ {CHOOSE r \in s : TRUE}])
             = (IF s = {} THEN 0
                ELSE f[CHOOSE r \in s : TRUE] + iter[s \ {CHOOSE r \in s : TRUE}])
    <2>1. PICK x : x = CHOOSE r \in s : TRUE
        OBVIOUS
    <2>2. s # {} => x \in rs
        BY <2>1
    <2> QED BY <2>1, <2>2
<1> QED BY <1>1 DEF RowRecursion, Recursion

LEMMA SlotsAreSums ==
    ASSUME NEW R, IsFiniteSet(R), NEW f \in [R -> Nat], NEW g, Sums(g, f, R),
           NEW rs \in SUBSET R, NEW rows, \A r \in rs : rows[r].slots = f[r]
    PROVE  Slots(rows, rs) = g[rs]
<1>1. \E iter : RowRecursion(iter, rows, rs)
    BY RecursionExists, SameRecursion
<1>2. PICK iter : iter = CHOOSE i : RowRecursion(i, rows, rs)
    OBVIOUS
<1>3. Recursion(iter, f, rs)
    BY <1>1, <1>2, SameRecursion
<1> QED BY <1>2, <1>3, RecursionSums DEF Slots

(* Less rows take less slots, and one more takes its own on top.            *)
LEMMA FewerSlots ==
    ASSUME NEW S, IsFiniteSet(S), NEW rows, \A r \in S : rows[r].slots \in Nat,
           NEW T \in SUBSET S, NEW next, \A r \in T : next[r].slots = rows[r].slots
    PROVE  /\ Slots(rows, S) \in Nat /\ Slots(next, T) \in Nat
           /\ Slots(next, T) <= Slots(rows, S)
<1>1. PICK f : f = [r \in S |-> rows[r].slots]
    OBVIOUS
<1>2. f \in [S -> Nat]
    BY <1>1
<1>3. PICK g : Sums(g, f, S)
    BY <1>2, SumsExist
<1>4. Slots(rows, S) = g[S]
    BY <1>1, <1>2, <1>3, SlotsAreSums
<1>5. Slots(next, T) = g[T]
    BY <1>1, <1>2, <1>3, SlotsAreSums
<1>6. g[S] \in Nat /\ g[T] \in Nat
    BY <1>3 DEF Sums
<1>7. g[T] <= g[S]
    BY <1>2, <1>3, PartSums
<1> QED BY <1>4, <1>5, <1>6, <1>7

LEMMA OneMoreRow ==
    ASSUME NEW S, IsFiniteSet(S), NEW rows, \A r \in S : rows[r].slots \in Nat,
           NEW x, x \notin S, NEW T \in SUBSET (S \cup {x}), NEW next,
           \A r \in S : next[r].slots = rows[r].slots, next[x].slots \in Nat
    PROVE  /\ Slots(rows, S) \in Nat /\ Slots(next, T) \in Nat
           /\ Slots(next, T) <= Slots(rows, S) + next[x].slots
<1>0. PICK R : R = S \cup {x}
    OBVIOUS
<1>1. PICK f : f = [r \in R |-> next[r].slots]
    OBVIOUS
<1>2. f \in [R -> Nat] /\ IsFiniteSet(R) /\ S \in SUBSET R /\ R \ {x} = S
    BY <1>0, <1>1, FS_AddElement
<1>3. PICK g : Sums(g, f, R)
    BY <1>2, SumsExist
<1>4. Slots(rows, S) = g[S]
    BY <1>0, <1>1, <1>2, <1>3, SlotsAreSums
<1>5. Slots(next, T) = g[T]
    BY <1>0, <1>1, <1>2, <1>3, SlotsAreSums
<1>6. g[S] \in Nat /\ g[T] \in Nat /\ g[R] \in Nat
    BY <1>0, <1>2, <1>3 DEF Sums
<1>7. g[T] <= g[R]
    BY <1>0, <1>2, <1>3, PartSums
<1>8. g[R] = next[x].slots + g[S]
    <2>1. x \in R /\ R \in SUBSET R /\ f[x] = next[x].slots
        BY <1>0, <1>1
    <2>2. g[R] = f[x] + g[R \ {x}]
        BY <1>3, <2>1 DEF Sums
    <2> QED BY <1>2, <2>1, <2>2
<1> QED BY <1>4, <1>5, <1>6, <1>7, <1>8

(* Reservations: the slots one consumer has in force, and those of the      *)
(* transaction that holds the lock, were declared by somebody.              *)
ReservationRow ==
    [status : {"active", "released"}, consumer : ConsumerTeams, slots : Nat,
     expires : Nat, by : {"member", "orchestrator"}]

Existing(rows) == {r \in Reservations : rows[r] # NoReservation}

CapacityShape ==
    /\ reservations \in [Reservations -> ReservationRow \cup {NoReservation}]
    /\ IsFiniteSet(Existing(reservations))
    /\ capacity.slots \in 0..SlotLimit
    /\ tick \in Nat
    /\ reserving \subseteq [id : Reservations, row : ReservationRow]
    /\ \A t \in reserving : t.row.status = "active" /\ reserving = {t}

(* What the transaction that holds the lock will insert still fits.         *)
CheckedFits ==
    \A t \in reserving : ActiveSlots(t.row.consumer) + t.row.slots <= SlotLimit

CapacityInv == CapacityShape /\ CheckedFits /\ ConsumerNeverOverbooks

(* The rows in force are some of those that exist.                          *)
LEMMA InForceExist ==
    ASSUME NEW rows \in [Reservations -> ReservationRow \cup {NoReservation}],
           IsFiniteSet(Existing(rows)), NEW now \in Nat, NEW c
    PROVE  /\ IsFiniteSet(InForce(rows, now, c))
           /\ \A r \in InForce(rows, now, c) : rows[r].slots \in Nat
<1>1. InForce(rows, now, c) \subseteq Existing(rows)
    BY DEF InForce, Existing, NoReservation
<1>2. \A r \in InForce(rows, now, c) : rows[r].slots \in Nat
    BY <1>1 DEF Existing, ReservationRow
<1> QED BY <1>1, <1>2, FS_Subset

(* When rows only leave, no team has more slots in force than before.       *)
LEMMA FewerInForce ==
    ASSUME CapacityShape, tick' \in Nat, tick <= tick',
           \A r \in Reservations :
               \/ reservations'[r] = reservations[r]
               \/ reservations'[r].status # "active",
           NEW c
    PROVE  /\ ActiveSlots(c) \in Nat /\ ActiveSlots(c)' \in Nat
           /\ ActiveSlots(c)' <= ActiveSlots(c)
<1>1. PICK rows : rows = reservations
    OBVIOUS
<1>2. PICK next : next = reservations'
    OBVIOUS
<1>3. PICK S : S = InForce(rows, tick, c)
    OBVIOUS
<1>4. PICK T : T = InForce(next, tick', c)
    OBVIOUS
<1>5. IsFiniteSet(S) /\ \A r \in S : rows[r].slots \in Nat
    BY <1>1, <1>3, InForceExist DEF CapacityShape
<1>6. \A r \in T : next[r] = rows[r] /\ rows[r].expires > tick'
    BY <1>1, <1>2, <1>4 DEF InForce
<1>7. T \in SUBSET S
    <2> SUFFICES ASSUME NEW r \in T PROVE r \in S
        OBVIOUS
    <2>1. /\ r \in Reservations /\ rows[r].status = "active"
          /\ c \in {ProviderTeam, rows[r].consumer} /\ rows[r].expires > tick'
        BY <1>4, <1>6 DEF InForce
    <2>2. rows[r].expires \in Nat
        BY <1>1, <2>1 DEF CapacityShape, ReservationRow, NoReservation
    <2>3. rows[r].expires > tick
        BY <2>1, <2>2 DEF CapacityShape
    <2> QED BY <1>3, <2>1, <2>3 DEF InForce
<1>8. /\ Slots(rows, S) \in Nat /\ Slots(next, T) \in Nat
      /\ Slots(next, T) <= Slots(rows, S)
    BY <1>5, <1>6, <1>7, FewerSlots
<1> QED BY <1>1, <1>2, <1>3, <1>4, <1>8, ActiveSlotsUnfold

(* The insert adds its slots to its consumer, and to nobody else's.         *)
LEMMA InsertedInForce ==
    ASSUME CapacityShape, NEW t \in reserving, CommitReserve(t), NEW c \in ConsumerTeams
    PROVE  /\ ActiveSlots(c) \in Nat /\ ActiveSlots(c)' \in Nat
           /\ ActiveSlots(c)' <= ActiveSlots(c) + t.row.slots
           /\ c # t.row.consumer => ActiveSlots(c)' <= ActiveSlots(c)
<1>0. /\ t.id \in Reservations /\ t.row \in ReservationRow
      /\ reservations[t.id] = NoReservation
      /\ reservations' = [reservations EXCEPT ![t.id] = t.row] /\ tick' = tick
    BY DEF CapacityShape, CommitReserve
<1>1. PICK rows : rows = reservations
    OBVIOUS
<1>2. PICK next : next = reservations'
    OBVIOUS
<1>3. PICK S : S = InForce(rows, tick, c)
    OBVIOUS
<1>4. PICK T : T = InForce(next, tick', c)
    OBVIOUS
<1>5. IsFiniteSet(S) /\ \A r \in S : rows[r].slots \in Nat
    BY <1>1, <1>3, InForceExist DEF CapacityShape
<1>6. /\ next[t.id] = t.row /\ t.id \notin S
      /\ \A r \in Reservations : r # t.id => next[r] = rows[r]
    BY <1>0, <1>1, <1>2, <1>3 DEF CapacityShape, InForce, NoReservation
<1>7. /\ \A r \in S : next[r].slots = rows[r].slots
      /\ \A r \in S : r \in Reservations
    BY <1>3, <1>6 DEF InForce
<1>8. T \in SUBSET (S \cup {t.id})
    BY <1>0, <1>3, <1>4, <1>6 DEF InForce
<1>9. t.row.slots \in Nat
    BY <1>0 DEF ReservationRow
<1>10. /\ Slots(rows, S) \in Nat /\ Slots(next, T) \in Nat
       /\ Slots(next, T) <= Slots(rows, S) + t.row.slots
    <2>1. PICK x : x = t.id
        OBVIOUS
    <2>2. next[x].slots = t.row.slots
        BY <1>6, <2>1
    <2>3. next[x].slots \in Nat /\ x \notin S /\ T \in SUBSET (S \cup {x})
        BY <1>6, <1>8, <1>9, <2>1, <2>2
    <2>4. /\ Slots(rows, S) \in Nat /\ Slots(next, T) \in Nat
          /\ Slots(next, T) <= Slots(rows, S) + next[x].slots
        BY <1>5, <1>7, <2>3, OneMoreRow
    <2> QED BY <2>2, <2>4
<1>11. ASSUME c # t.row.consumer PROVE Slots(next, T) <= Slots(rows, S)
    <2>1. t.id \notin T
        BY <1>4, <1>6, <1>11, CapabilityParameters DEF InForce
    <2>2. T \in SUBSET S
        BY <1>8, <2>1
    <2>3. \A r \in T : next[r].slots = rows[r].slots
        BY <1>7, <2>2
    <2> QED BY <1>5, <2>2, <2>3, FewerSlots
<1>12. /\ ActiveSlots(c) = Slots(rows, S) /\ ActiveSlots(c)' = Slots(next, T)
    BY <1>1, <1>2, <1>3, <1>4, ActiveSlotsUnfold
<1> QED BY <1>10, <1>11, <1>12

(* Steps that reserve nothing keep everything that fits fitting.            *)
LEMMA CapacityKept ==
    ASSUME CapacityInv, CapacityShape', reserving' \subseteq reserving, tick <= tick',
           \A r \in Reservations :
               \/ reservations'[r] = reservations[r]
               \/ reservations'[r].status # "active"
    PROVE  CapacityInv'
<1>0. SlotLimit \in Nat /\ tick' \in Nat
    BY CapabilityParameters DEF CapacityShape
<1>1. \A c : /\ ActiveSlots(c) \in Nat /\ ActiveSlots(c)' \in Nat
             /\ ActiveSlots(c)' <= ActiveSlots(c)
    BY <1>0, FewerInForce DEF CapacityInv
<1>2. ConsumerNeverOverbooks'
    <2> SUFFICES ASSUME NEW c \in ConsumerTeams PROVE ActiveSlots(c)' <= SlotLimit
        BY DEF ConsumerNeverOverbooks
    <2>1. ActiveSlots(c) <= SlotLimit
        BY DEF CapacityInv, ConsumerNeverOverbooks
    <2> QED BY <1>0, <1>1, <2>1
<1>3. CheckedFits'
    <2>1. ASSUME NEW t, t \in reserving'
          PROVE  (ActiveSlots(t.row.consumer)' + t.row.slots <= SlotLimit)
        <3>1. t \in reserving /\ t.row.slots \in Nat
            BY <2>1 DEF CapacityInv, CapacityShape, ReservationRow
        <3>2. PICK c : c = t.row.consumer
            OBVIOUS
        <3>3. ActiveSlots(c) + t.row.slots <= SlotLimit
            BY <3>1, <3>2 DEF CapacityInv, CheckedFits
        <3>4. ActiveSlots(c)' + t.row.slots <= SlotLimit
            BY <1>0, <1>1, <3>1, <3>3
        <3> QED BY <3>2, <3>4
    <2> QED BY <2>1 DEF CheckedFits
<1> QED BY <1>2, <1>3 DEF CapacityInv

LEMMA CapacityInitially == CapabilitiesInit => CapacityInv
<1> SUFFICES ASSUME CapabilitiesInit PROVE CapacityInv
    OBVIOUS
<1>1. CapacityShape
    <2>1. Existing(reservations) = {}
        BY DEF CapabilitiesInit, Existing
    <2> QED BY <2>1, FS_EmptySet, CapabilityParameters
        DEF CapabilitiesInit, CapacityShape, NoCapacity
<1>2. ASSUME NEW c \in ConsumerTeams PROVE ActiveSlots(c) <= SlotLimit
    <2>1. PICK rows : rows = reservations
        OBVIOUS
    <2>2. InForce(rows, tick, c) = {}
        BY <2>1 DEF CapabilitiesInit, InForce, NoReservation
    <2>3. Slots(rows, {}) = 0
        <3>1. PICK E : E = {}
            OBVIOUS
        <3>2. PICK f : f = [r \in E |-> 0]
            OBVIOUS
        <3>3. f \in [E -> Nat] /\ IsFiniteSet(E) /\ E \in SUBSET E
            BY <3>1, <3>2, FS_EmptySet
        <3>4. PICK g : Sums(g, f, E)
            BY <3>3, SumsExist
        <3>5. \A r \in E : rows[r].slots = f[r]
            BY <3>1
        <3>6. Slots(rows, E) = g[E]
            BY <3>3, <3>4, <3>5, SlotsAreSums
        <3>7. g[{}] = 0
            BY <3>4 DEF Sums
        <3> QED BY <3>1, <3>6, <3>7
    <2> QED BY <2>1, <2>2, <2>3, ActiveSlotsUnfold, CapabilityParameters
<1> QED BY <1>1, <1>2
    DEF CapacityInv, CheckedFits, ConsumerNeverOverbooks, CapabilitiesInit

LEMMA CapacityStep ==
    ASSUME CapacityInv, [CapabilitiesNext]_capabilityVars
    PROVE  CapacityInv'
<1>0. CapacityShape /\ CheckedFits /\ ConsumerNeverOverbooks /\ SlotLimit \in Nat
      /\ tick \in Nat /\ tick <= tick
    BY CapabilityParameters DEF CapacityInv, CapacityShape
<1>1. ASSUME NEW status, NEW slots \in 0..SlotLimit, DeclareCapacity(status, slots)
      PROVE  CapacityInv'
    <2>1. UNCHANGED <<reservations, reserving, tick>> /\ capacity'.slots = slots
        BY <1>1 DEF DeclareCapacity
    <2>2. CapacityShape'
        BY <1>0, <2>1 DEF CapacityShape, Existing
    <2> QED BY <1>0, <2>1, <2>2, CapacityKept
<1>2. ASSUME UNCHANGED <<reservations, reserving, tick, capacity>> PROVE CapacityInv'
    <2>1. CapacityShape'
        BY <1>0, <1>2 DEF CapacityShape, Existing
    <2> QED BY <1>0, <1>2, <2>1, CapacityKept
<1>3. ASSUME NEW c \in ConsumerTeams, NEW r \in Reservations, NEW slots \in 1..SlotLimit,
             NEW by \in {"member", "orchestrator"}, BeginReserve(c, r, slots, by)
      PROVE  CapacityInv'
    <2>1. PICK t : t = [id |-> r, row |-> [status |-> "active", consumer |-> c,
                          slots |-> slots, expires |-> tick + Ttl, by |-> by]]
        OBVIOUS
    <2>2. /\ reserving = {} /\ reserving' = {t} /\ ActiveSlots(c) + slots <= capacity.slots
          /\ UNCHANGED <<capacity, reservations, tick>>
        BY <1>3, <2>1 DEF BeginReserve, LockFree, Admitted
    <2>3. CapacityShape'
        <3>1. tick + Ttl \in Nat
            BY <1>0, CapabilityParameters
        <3>2. t \in [id : Reservations, row : ReservationRow] /\ t.row.status = "active"
            BY <2>1, <3>1 DEF ReservationRow
        <3> QED BY <1>0, <2>2, <3>2 DEF CapacityShape, Existing
    <2>4. \A d : ActiveSlots(d)' <= ActiveSlots(d) /\ ActiveSlots(d) \in Nat
                 /\ ActiveSlots(d)' \in Nat
        BY <1>0, <2>2, FewerInForce
    <2>5. ConsumerNeverOverbooks'
        BY <1>0, <2>4 DEF ConsumerNeverOverbooks
    <2>6. ActiveSlots(c)' + slots <= SlotLimit
        BY <1>0, <2>2, <2>4 DEF CapacityShape
    <2>7. CheckedFits'
        <3>1. t.row.consumer = c /\ t.row.slots = slots
            BY <2>1
        <3> QED BY <2>2, <2>6, <3>1 DEF CheckedFits
    <2> QED BY <2>3, <2>5, <2>7 DEF CapacityInv
<1>4. ASSUME NEW t \in reserving, CommitReserve(t) PROVE CapacityInv'
    <2>1. /\ reserving = {t} /\ reserving' = {} /\ t.row \in ReservationRow
          /\ t.id \in Reservations
          /\ reservations' = [reservations EXCEPT ![t.id] = t.row]
          /\ UNCHANGED <<capacity, tick>>
        BY <1>0, <1>4 DEF CapacityShape, CommitReserve
    <2>2. CapacityShape'
        <3>1. Existing(reservations') \subseteq Existing(reservations) \cup {t.id}
            BY <1>0, <2>1 DEF CapacityShape, Existing
        <3>2. IsFiniteSet(Existing(reservations) \cup {t.id})
            BY <1>0, FS_AddElement DEF CapacityShape
        <3>3. IsFiniteSet(Existing(reservations'))
            BY <3>1, <3>2, FS_Subset
        <3> QED BY <1>0, <2>1, <3>3 DEF CapacityShape, Existing
    <2>3. ASSUME NEW c \in ConsumerTeams PROVE ActiveSlots(c)' <= SlotLimit
        <3>1. /\ ActiveSlots(c) \in Nat /\ ActiveSlots(c)' \in Nat
              /\ ActiveSlots(c)' <= ActiveSlots(c) + t.row.slots
              /\ c # t.row.consumer => ActiveSlots(c)' <= ActiveSlots(c)
            BY <1>0, <1>4, InsertedInForce
        <3>2. t.row.slots \in Nat
            BY <2>1 DEF ReservationRow
        <3>3. ActiveSlots(c) <= SlotLimit
            BY <1>0 DEF ConsumerNeverOverbooks
        <3>4. CASE c # t.row.consumer
            BY <1>0, <3>1, <3>3, <3>4
        <3>5. CASE c = t.row.consumer
            <4>1. ActiveSlots(c) + t.row.slots <= SlotLimit
                BY <1>0, <3>5 DEF CheckedFits
            <4> QED BY <1>0, <3>1, <3>2, <4>1
        <3> QED BY <3>4, <3>5
    <2> QED BY <2>1, <2>2, <2>3 DEF CapacityInv, CheckedFits, ConsumerNeverOverbooks
<1>5. ASSUME NEW t \in reserving, AbortReserve(t) PROVE CapacityInv'
    <2>1. reserving' \subseteq reserving /\ reserving' = {}
          /\ UNCHANGED <<capacity, reservations, tick>>
        BY <1>0, <1>5 DEF CapacityShape, AbortReserve
    <2>2. CapacityShape'
        BY <1>0, <2>1 DEF CapacityShape, Existing
    <2> QED BY <1>0, <2>1, <2>2, CapacityKept
<1>6. ASSUME NEW r \in Reservations, ReleaseReservation(r) PROVE CapacityInv'
    <2>1. /\ reservations[r].status = "active"
          /\ reservations' = [reservations EXCEPT ![r] =
                                 [reservations[r] EXCEPT !.status = "released"]]
          /\ UNCHANGED <<capacity, reserving, tick>>
        BY <1>6 DEF ReleaseReservation
    <2>2. PICK y : y = [reservations[r] EXCEPT !.status = "released"]
        OBVIOUS
    <2>3. reservations[r] \in ReservationRow /\ reservations[r] # NoReservation
        BY <1>0, <2>1 DEF CapacityShape, NoReservation
    <2>4. y \in ReservationRow /\ y.status = "released"
        BY <2>2, <2>3 DEF ReservationRow
    <2>5. reservations' = [reservations EXCEPT ![r] = y]
        BY <2>1, <2>2
    <2>6. CapacityShape'
        <3>1. Existing(reservations') \subseteq Existing(reservations)
            BY <1>0, <2>3, <2>5 DEF CapacityShape, Existing
        <3>2. IsFiniteSet(Existing(reservations'))
            BY <1>0, <3>1, FS_Subset DEF CapacityShape
        <3>3. reservations' \in [Reservations -> ReservationRow \cup {NoReservation}]
            BY <1>0, <2>4, <2>5 DEF CapacityShape
        <3> QED BY <1>0, <2>1, <3>2, <3>3 DEF CapacityShape
    <2>7. \A q \in Reservations : \/ reservations'[q] = reservations[q]
                                  \/ reservations'[q].status # "active"
        BY <1>0, <2>4, <2>5 DEF CapacityShape
    <2> QED BY <1>0, <2>1, <2>6, <2>7, CapacityKept
<1>7. CASE TimePasses
    <2>1. /\ tick' = tick + 1 /\ UNCHANGED <<capacity, reservations, reserving>>
        BY <1>7 DEF TimePasses
    <2>2. tick' \in Nat /\ tick <= tick'
        BY <1>0, <2>1
    <2>3. CapacityShape'
        BY <1>0, <2>1, <2>2 DEF CapacityShape, Existing
    <2> QED BY <2>1, <2>2, <2>3, CapacityKept
<1>8. CASE UNCHANGED capabilityVars
    BY <1>2, <1>8 DEF capabilityVars
<1> QED BY <1>1, <1>2, <1>3, <1>4, <1>5, <1>6, <1>7, <1>8
    DEF CapabilitiesNext, Publish, Match, ProposeNegotiation, DecideNegotiation

(* For any number of consumers and reservations, whatever transactions are  *)
(* open, expire or are released in between: the slots a consumer has in     *)
(* force were declared together.                                            *)
THEOREM ConsumersStayWithinCapacity == CapabilitiesSpec => []ConsumerNeverOverbooks
<1>1. CapacityInv => ConsumerNeverOverbooks
    BY DEF CapacityInv
<1> QED BY <1>1, CapacityInitially, CapacityStep, PTL DEF CapabilitiesSpec

-----------------------------------------------------------------------------
(* Readiness: the walk finds the cycles                                     *)

(* What a task depends on in a graph.                                       *)
Needs(req, w) == {u \in Works : <<w, u>> \in req}

Leads(req, w, u) ==
    \A D \in SUBSET Works :
        Needs(req, w) \subseteq D /\ (\A v \in D : Needs(req, v) \subseteq D) => u \in D

LEMMA LeadsOn ==
    ASSUME NEW req, NEW x \in Works, NEW y \in Works, NEW z
    PROVE  /\ y \in Needs(req, x) => Leads(req, x, y)
           /\ Leads(req, x, y) /\ Leads(req, y, z) => Leads(req, x, z)
BY DEF Leads

Frames == [work : Works, left : SUBSET Works]

(* What the walk is made of: the path visits no task twice and none that is *)
(* completed, and goes along the edges it has not followed yet.             *)
WalkShape(k, req) ==
    /\ k.path \in Seq(Frames) /\ k.completed \subseteq Works
    /\ k.cycles \subseteq SUBSET Works
    /\ \A i \in 1..Len(k.path) :
          /\ k.path[i].work \notin k.completed
          /\ k.path[i].left \subseteq Needs(req, k.path[i].work)
          /\ \A j \in 1..Len(k.path) : k.path[i].work = k.path[j].work => i = j

(* A task on the path depends on those after it, and one on a cycle on      *)
(* itself.                                                                  *)
WalkLeads(k, req) ==
    /\ \A i \in 1..Len(k.path), j \in 1..Len(k.path) :
          i < j => Leads(req, k.path[i].work, k.path[j].work)
    /\ \A c \in k.cycles : c # {} /\ \A w \in c : Leads(req, w, w)

(* As long as no cycle was found, a completed task depends on completed     *)
(* ones only and not on itself, and what a task on the path requires is     *)
(* completed, next on the path, or still to be looked at.                   *)
WalkMisses(k, req) ==
    k.cycles = {} =>
        /\ \A w \in k.completed :
              Needs(req, w) \subseteq k.completed /\ ~Leads(req, w, w)
        /\ \A i \in 1..Len(k.path) : \A u \in Needs(req, k.path[i].work) :
              \/ u \in k.path[i].left \/ u \in k.completed
              \/ i < Len(k.path) /\ u = k.path[i + 1].work

WalkOK(k, req) == WalkShape(k, req) /\ WalkLeads(k, req) /\ WalkMisses(k, req)

(* The path without its last frame, and with another one instead.           *)
LEMMA TopRemoved ==
    ASSUME NEW p \in Seq(Frames), p # << >>, NEW q, q = SubSeq(p, 1, Len(p) - 1)
    PROVE  /\ q \in Seq(Frames) /\ Len(q) = Len(p) - 1 /\ Len(p) \in Nat /\ Len(p) > 0
           /\ \A i \in 1..Len(q) : q[i] = p[i]
<1>1. PICK n \in Nat : Len(p) = n + 1
    <2>1. Len(p) \in Nat \ {0}
        BY EmptySeq
    <2>2. Len(p) - 1 \in Nat /\ Len(p) = (Len(p) - 1) + 1
        BY <2>1
    <2> QED BY <2>2
<1>2. Len(p) - 1 = n /\ 1 \in Int /\ n \in Int /\ n - 1 + 1 = n
    BY <1>1
<1>3. \A i \in 1..n : p[i] \in Frames /\ 1 + i - 1 = i
    <2>1. \A i \in 1..n : i \in 1..Len(p)
        BY <1>1
    <2> QED BY <2>1, LenProperties
<1>4. /\ SubSeq(p, 1, n) \in Seq(Frames)
      /\ Len(SubSeq(p, 1, n)) = IF 1 <= n THEN n - 1 + 1 ELSE 0
      /\ \A i \in 1..n - 1 + 1 : SubSeq(p, 1, n)[i] = p[1 + i - 1]
    BY <1>2, <1>3, SubSeqProperties
<1>5. q = SubSeq(p, 1, n)
    BY <1>2
<1>6. q \in Seq(Frames) /\ Len(q) = n
    BY <1>2, <1>4, <1>5
<1>7. \A i \in 1..n : q[i] = p[i]
    BY <1>2, <1>3, <1>4, <1>5
<1> QED BY <1>1, <1>2, <1>6, <1>7

LEMMA TopReplaced ==
    ASSUME NEW p \in Seq(Frames), p # << >>, NEW x \in Frames,
           NEW q, q = Append(SubSeq(p, 1, Len(p) - 1), x)
    PROVE  /\ q \in Seq(Frames) /\ Len(q) = Len(p) /\ q[Len(p)] = x
           /\ Len(p) \in Nat /\ Len(p) > 0
           /\ \A i \in 1..Len(p) : i # Len(p) => q[i] = p[i]
<1>1. PICK b : b = SubSeq(p, 1, Len(p) - 1)
    OBVIOUS
<1>2. /\ b \in Seq(Frames) /\ Len(b) = Len(p) - 1 /\ Len(p) \in Nat /\ Len(p) > 0
      /\ \A i \in 1..Len(b) : b[i] = p[i]
    BY <1>1, TopRemoved
<1>3. /\ q \in Seq(Frames) /\ Len(q) = Len(b) + 1 /\ q[Len(b) + 1] = x
      /\ \A i \in 1..Len(b) : q[i] = b[i]
    BY <1>1, <1>2, AppendProperties
<1> QED BY <1>2, <1>3

(* A path whose last frame has one edge less to follow.                     *)
Follows(k, n, u, p) ==
    /\ k.path # << >> /\ n = Len(k.path) /\ u \in k.path[n].left
    /\ p = Append(SubSeq(k.path, 1, n - 1),
                  [k.path[n] EXCEPT !.left = k.path[n].left \ {u}])

LEMMA EdgeLookedAt ==
    ASSUME NEW k, NEW req, WalkOK(k, req), NEW n, NEW u, NEW p, Follows(k, n, u, p)
    PROVE  /\ n \in Nat /\ n > 0 /\ n = Len(k.path) /\ n \in 1..n
           /\ \A i \in 1..n : k.path[i].work \in Works
           /\ u \in Works /\ u \in Needs(req, k.path[n].work)
           /\ p \in Seq(Frames) /\ Len(p) = n
           /\ \A i \in 1..n : p[i].work = k.path[i].work
           /\ \A i \in 1..n : p[i].left \subseteq k.path[i].left
           /\ \A i \in 1..n : \A v \in k.path[i].left : v \in p[i].left \/ (i = n /\ v = u)
<1>1. k.path \in Seq(Frames) /\ n \in Nat /\ n > 0 /\ n = Len(k.path)
    BY TopRemoved DEF WalkOK, WalkShape, Follows
<1>2. n \in 1..n
    BY <1>1
<1>3. \A i \in 1..n : k.path[i] \in Frames
    BY <1>1, LenProperties
<1>4. PICK x : x = [k.path[n] EXCEPT !.left = k.path[n].left \ {u}]
    OBVIOUS
<1>5. x \in Frames /\ x.work = k.path[n].work /\ x.left = k.path[n].left \ {u}
    BY <1>2, <1>3, <1>4 DEF Frames
<1>6. /\ p \in Seq(Frames) /\ Len(p) = n /\ p[n] = x
      /\ \A i \in 1..n : i # n => p[i] = k.path[i]
    BY <1>1, <1>4, <1>5, TopReplaced DEF Follows
<1>7. u \in k.path[n].left /\ k.path[n].left \subseteq Needs(req, k.path[n].work)
    BY <1>1, <1>2 DEF WalkOK, WalkShape, Follows
<1>8. u \in Needs(req, k.path[n].work) /\ u \in Works
    BY <1>7 DEF Needs
<1>9. \A i \in 1..n : k.path[i].work \in Works
    BY <1>3 DEF Frames
<1>10. /\ \A i \in 1..n : p[i].work = k.path[i].work
       /\ \A i \in 1..n : p[i].left \subseteq k.path[i].left
    BY <1>5, <1>6
<1>11. \A i \in 1..n : \A v \in k.path[i].left : v \in p[i].left \/ (i = n /\ v = u)
    BY <1>5, <1>6
<1> QED BY <1>1, <1>2, <1>6, <1>8, <1>9, <1>10, <1>11

(* The edge leads to a completed task.                                      *)
LEMMA EdgeToCompleted ==
    ASSUME NEW k, NEW req, WalkOK(k, req), NEW n, NEW u, NEW p, Follows(k, n, u, p),
           u \in k.completed,
           NEW l, l.path = p, l.completed = k.completed, l.cycles = k.cycles
    PROVE  WalkOK(l, req)
<1>1. /\ p \in Seq(Frames) /\ Len(p) = n /\ n \in Nat /\ n = Len(k.path)
      /\ \A i \in 1..n : p[i].work = k.path[i].work
      /\ \A i \in 1..n : p[i].left \subseteq k.path[i].left
      /\ \A i \in 1..n : \A v \in k.path[i].left : v \in p[i].left \/ (i = n /\ v = u)
    BY EdgeLookedAt
<1>2. WalkShape(l, req)
    BY <1>1 DEF WalkOK, WalkShape
<1>3. WalkLeads(l, req)
    BY <1>1 DEF WalkOK, WalkLeads
<1>4. WalkMisses(l, req)
    <2> SUFFICES ASSUME k.cycles = {}, NEW i \in 1..n, NEW v \in Needs(req, p[i].work)
                 PROVE  \/ v \in p[i].left \/ v \in k.completed
                        \/ i < n /\ v = p[i + 1].work
        BY <1>1 DEF WalkOK, WalkMisses
    <2>1. \/ v \in k.path[i].left \/ v \in k.completed
          \/ i < n /\ v = k.path[i + 1].work
        BY <1>1 DEF WalkOK, WalkMisses
    <2>2. i < n => i + 1 \in 1..n
        BY <1>1
    <2> QED BY <1>1, <2>1, <2>2
<1> QED BY <1>2, <1>3, <1>4 DEF WalkOK

(* The edge closes a cycle.                                                 *)
FromOn(k, n, u, w) ==
    \E j \in 1..n : w = k.path[j].work /\ \E g \in 1..j : k.path[g].work = u

LEMMA EdgeToPath ==
    ASSUME NEW k, NEW req, WalkOK(k, req), NEW n, NEW u, NEW p, Follows(k, n, u, p),
           NEW h \in 1..n, k.path[h].work = u,
           NEW c, \A w : w \in c <=> FromOn(k, n, u, w),
           NEW l, l.path = p, l.completed = k.completed, l.cycles = k.cycles \cup {c}
    PROVE  WalkOK(l, req)
<1>1. /\ p \in Seq(Frames) /\ Len(p) = n /\ n \in Nat /\ n > 0 /\ n = Len(k.path)
      /\ n \in 1..n /\ u \in Works /\ u \in Needs(req, k.path[n].work)
      /\ \A i \in 1..n : p[i].work = k.path[i].work
      /\ \A i \in 1..n : p[i].left \subseteq k.path[i].left
    BY EdgeLookedAt
<1>2. \A i \in 1..n : k.path[i].work \in Works
    BY EdgeLookedAt
<1>3. u \in c
    <2>1. \E g \in 1..h : k.path[g].work = u
        BY <1>1
    <2> QED BY <2>1 DEF FromOn
<1>4. ASSUME NEW w \in c PROVE w \in Works /\ Leads(req, w, w)
    <2>1. PICK j \in 1..n : w = k.path[j].work /\ \E g \in 1..j : k.path[g].work = u
        BY <1>4 DEF FromOn
    <2>2. PICK g \in 1..j : k.path[g].work = u
        BY <2>1
    <2>3. g \in 1..n /\ g \in Int /\ j \in Int /\ (g < j \/ g = j) /\ (j < n \/ j = n)
        BY <1>1
    <2>4. \A a \in 1..n, b \in 1..n :
             a < b => Leads(req, k.path[a].work, k.path[b].work)
        BY <1>1 DEF WalkOK, WalkLeads
    <2>5. Leads(req, k.path[n].work, u)
        BY <1>1, <1>2, LeadsOn
    <2>6. w \in Works /\ (j = n \/ Leads(req, w, k.path[n].work))
        BY <1>1, <1>2, <2>1, <2>3, <2>4
    <2>7. Leads(req, w, u)
        <3>1. CASE j = n
            BY <2>1, <2>5, <3>1
        <3>2. CASE Leads(req, w, k.path[n].work)
            BY <1>1, <1>2, <2>5, <2>6, <3>2, LeadsOn
        <3> QED BY <2>6, <3>1, <3>2
    <2>8. g = j \/ Leads(req, u, w)
        BY <2>1, <2>2, <2>3, <2>4
    <2>9. w = u \/ Leads(req, u, w)
        BY <2>1, <2>2, <2>8
    <2>10. CASE w = u
        BY <2>6, <2>7, <2>10
    <2>11. CASE Leads(req, u, w)
        BY <1>1, <2>6, <2>7, <2>11, LeadsOn
    <2> QED BY <2>6, <2>9, <2>10, <2>11
<1>5. WalkShape(l, req)
    BY <1>1, <1>4 DEF WalkOK, WalkShape
<1>6. WalkLeads(l, req)
    <2>1. \A i \in 1..Len(l.path), j \in 1..Len(l.path) :
             i < j => Leads(req, l.path[i].work, l.path[j].work)
        BY <1>1 DEF WalkOK, WalkLeads
    <2>2. ASSUME NEW d \in l.cycles PROVE d # {} /\ \A w \in d : Leads(req, w, w)
        <3>1. CASE d = c
            BY <1>3, <1>4, <3>1
        <3>2. CASE d \in k.cycles
            BY <3>2 DEF WalkOK, WalkLeads
        <3> QED BY <2>2, <3>1, <3>2
    <2> QED BY <2>1, <2>2 DEF WalkLeads
<1>7. WalkMisses(l, req)
    BY <1>3 DEF WalkMisses
<1> QED BY <1>5, <1>6, <1>7 DEF WalkOK

(* The edge leads to a task the walk has not seen, which comes on top.      *)
LEMMA EdgeToNew ==
    ASSUME NEW k, NEW req, WalkOK(k, req), NEW n, NEW u, NEW p, Follows(k, n, u, p),
           u \notin k.completed, \A i \in 1..n : k.path[i].work # u,
           NEW l, l.path = Append(p, [work |-> u, left |-> Needs(req, u)]),
           l.completed = k.completed, l.cycles = k.cycles
    PROVE  WalkOK(l, req)
<1>1. /\ p \in Seq(Frames) /\ Len(p) = n /\ n \in Nat /\ n > 0 /\ n = Len(k.path)
      /\ n \in 1..n /\ u \in Works /\ u \in Needs(req, k.path[n].work)
      /\ \A i \in 1..n : p[i].work = k.path[i].work
      /\ \A i \in 1..n : p[i].left \subseteq k.path[i].left
      /\ \A i \in 1..n : \A v \in k.path[i].left : v \in p[i].left \/ (i = n /\ v = u)
    BY EdgeLookedAt
<1>2. PICK x : x = [work |-> u, left |-> Needs(req, u)]
    OBVIOUS
<1>3. x \in Frames /\ x.work = u /\ x.left = Needs(req, u)
    BY <1>1, <1>2 DEF Frames, Needs
<1>4. PICK q : q = l.path
    OBVIOUS
<1>5. /\ q \in Seq(Frames) /\ Len(q) = n + 1 /\ q[n + 1] = x
      /\ \A i \in 1..n : q[i] = p[i]
    <2>1. q = Append(p, x)
        BY <1>2, <1>4
    <2> QED BY <1>1, <1>3, <2>1, AppendProperties
<1>6. \A i \in 1..n + 1 : i \in 1..n \/ i = n + 1
    BY <1>1
<1>7. \A i \in 1..n : k.path[i].work \in Works
    BY EdgeLookedAt
<1>8. \A i \in 1..n : /\ q[i].work = k.path[i].work
                      /\ q[i].left \subseteq k.path[i].left
    BY <1>1, <1>5
<1>9. WalkShape(l, req)
    <2>1. ASSUME NEW i \in 1..n + 1, NEW j \in 1..n + 1, q[i].work = q[j].work PROVE i = j
        <3>1. \A a \in 1..n, b \in 1..n : k.path[a].work = k.path[b].work => a = b
            BY <1>1 DEF WalkOK, WalkShape
        <3>2. q[n + 1].work = u
            BY <1>3, <1>5
        <3>3. CASE i \in 1..n /\ j \in 1..n
            BY <1>8, <2>1, <3>1, <3>3
        <3>4. CASE i = n + 1 /\ j \in 1..n
            BY <1>8, <2>1, <3>2, <3>4
        <3>5. CASE i \in 1..n /\ j = n + 1
            BY <1>8, <2>1, <3>2, <3>5
        <3> QED BY <1>6, <3>3, <3>4, <3>5
    <2>2. ASSUME NEW i \in 1..n + 1
          PROVE  q[i].work \notin k.completed /\ q[i].left \subseteq Needs(req, q[i].work)
        <3>1. CASE i \in 1..n
            BY <1>1, <1>8, <3>1 DEF WalkOK, WalkShape
        <3>2. CASE i = n + 1
            BY <1>3, <1>5, <3>2
        <3> QED BY <1>6, <3>1, <3>2
    <2> QED BY <1>4, <1>5, <2>1, <2>2 DEF WalkOK, WalkShape
<1>10. WalkLeads(l, req)
    <2>1. ASSUME NEW i \in 1..n + 1, NEW j \in 1..n + 1, i < j
          PROVE  Leads(req, q[i].work, q[j].work)
        <3>1. \A a \in 1..n, b \in 1..n : a < b => Leads(req, k.path[a].work, k.path[b].work)
            BY <1>1 DEF WalkOK, WalkLeads
        <3>2. i \in 1..n
            BY <1>1, <2>1
        <3>3. CASE j \in 1..n
            BY <1>8, <2>1, <3>1, <3>2, <3>3
        <3>4. CASE j = n + 1
            <4>1. n \in 1..n /\ (i = n \/ i < n)
                BY <1>1, <3>2
            <4>2. Leads(req, k.path[n].work, u)
                BY <1>1, <1>7, LeadsOn
            <4>3. i = n \/ Leads(req, k.path[i].work, k.path[n].work)
                BY <3>1, <3>2, <4>1
            <4>4. Leads(req, k.path[i].work, u)
                <5>1. CASE i = n
                    BY <4>2, <5>1
                <5>2. CASE Leads(req, k.path[i].work, k.path[n].work)
                    BY <1>1, <1>7, <3>2, <4>2, <5>2, LeadsOn
                <5> QED BY <4>3, <5>1, <5>2
            <4> QED BY <1>3, <1>5, <1>8, <3>2, <3>4, <4>4
        <3> QED BY <1>6, <3>3, <3>4
    <2> QED BY <1>4, <1>5, <2>1 DEF WalkOK, WalkLeads
<1>11. WalkMisses(l, req)
    <2> SUFFICES ASSUME k.cycles = {}, NEW i \in 1..n + 1, NEW v \in Needs(req, q[i].work)
                 PROVE  \/ v \in q[i].left \/ v \in k.completed
                        \/ i < n + 1 /\ v = q[i + 1].work
        BY <1>4, <1>5 DEF WalkOK, WalkMisses
    <2>1. CASE i = n + 1
        BY <1>3, <1>5, <2>1
    <2>2. CASE i \in 1..n
        <3>1. \/ v \in k.path[i].left \/ v \in k.completed
              \/ i < n /\ v = k.path[i + 1].work
            BY <1>1, <1>8, <2>2 DEF WalkOK, WalkMisses
        <3>2. i < n + 1 /\ (i < n => i + 1 \in 1..n) /\ (i < n \/ i = n)
            BY <1>1, <2>2
        <3>3. CASE v \in k.path[i].left
            <4>1. v \in p[i].left \/ (i = n /\ v = u)
                BY <1>1, <2>2, <3>3
            <4>2. q[i] = p[i] /\ q[n + 1].work = u
                BY <1>3, <1>5, <2>2
            <4> QED BY <3>2, <4>1, <4>2
        <3> QED BY <1>8, <3>1, <3>2, <3>3
    <2> QED BY <1>6, <2>1, <2>2
<1> QED BY <1>9, <1>10, <1>11 DEF WalkOK

(* The last task of the path has no edge left and is completed.             *)
LEMMA WorkCompleted ==
    ASSUME NEW k, NEW req, WalkOK(k, req), k.path # << >>,
           NEW n, n = Len(k.path), k.path[n].left = {},
           NEW l, l.path = SubSeq(k.path, 1, n - 1), l.cycles = k.cycles,
           l.completed = k.completed \cup {k.path[n].work}
    PROVE  WalkOK(l, req)
<1>1. PICK q : q = l.path
    OBVIOUS
<1>2. PICK m \in Nat : n = m + 1 /\ q \in Seq(Frames) /\ Len(q) = m
                       /\ \A i \in 1..m : q[i] = k.path[i]
    <2>1. /\ q \in Seq(Frames) /\ Len(q) = n - 1 /\ n \in Nat /\ n > 0
          /\ \A i \in 1..Len(q) : q[i] = k.path[i]
        BY <1>1, TopRemoved DEF WalkOK, WalkShape
    <2>2. n - 1 \in Nat /\ n = (n - 1) + 1
        BY <2>1
    <2> QED BY <2>1, <2>2
<1>3. n \in 1..n /\ (\A i \in 1..m : i \in 1..n /\ i # n)
      /\ (\A i \in 1..m : i < n) /\ \A i \in 1..n : i < n => i \in 1..m
    BY <1>2
<1>4. PICK w : w = k.path[n].work
    OBVIOUS
<1>5. w \in Works /\ w \notin k.completed
    <2>1. k.path[n] \in Frames
        BY <1>3, LenProperties DEF WalkOK, WalkShape
    <2> QED BY <1>3, <1>4, <2>1 DEF Frames, WalkOK, WalkShape
<1>6. WalkShape(l, req)
    <2>1. \A i \in 1..m : q[i].work # w
        BY <1>2, <1>3, <1>4 DEF WalkOK, WalkShape
    <2> QED BY <1>1, <1>2, <1>3, <1>4, <1>5, <2>1 DEF WalkOK, WalkShape
<1>7. WalkLeads(l, req)
    BY <1>1, <1>2, <1>3 DEF WalkOK, WalkLeads
<1>8. WalkMisses(l, req)
    <2> SUFFICES ASSUME k.cycles = {} PROVE WalkMisses(l, req)
        BY DEF WalkMisses
    <2>1. \A v \in k.completed : Needs(req, v) \subseteq k.completed /\ ~Leads(req, v, v)
        BY DEF WalkOK, WalkMisses
    <2>2. Needs(req, w) \subseteq k.completed
        BY <1>2, <1>3, <1>4 DEF WalkOK, WalkMisses
    <2>3. ~Leads(req, w, w)
        <3>1. k.completed \in SUBSET Works
            BY DEF WalkOK, WalkShape
        <3> QED BY <1>5, <2>1, <2>2, <3>1 DEF Leads
    <2>4. ASSUME NEW i \in 1..m, NEW v \in Needs(req, q[i].work)
          PROVE  \/ v \in q[i].left \/ v \in k.completed \cup {w}
                 \/ i < m /\ v = q[i + 1].work
        <3>1. \/ v \in k.path[i].left \/ v \in k.completed
              \/ i < n /\ v = k.path[i + 1].work
            BY <1>2, <1>3 DEF WalkOK, WalkMisses
        <3>2. i + 1 = n \/ (i < m /\ i + 1 \in 1..m)
            BY <1>2
        <3> QED BY <1>2, <1>4, <3>1, <3>2
    <2> QED BY <1>1, <1>2, <1>4, <2>1, <2>2, <2>3, <2>4 DEF WalkMisses
<1> QED BY <1>6, <1>7, <1>8 DEF WalkOK

(* The walk starts at a task that is not completed.                         *)
LEMMA WalkStarted ==
    ASSUME NEW k, NEW req, WalkOK(k, req), k.path = << >>,
           NEW w \in Works, w \notin k.completed,
           NEW l, l.path = << [work |-> w, left |-> Needs(req, w)] >>,
           l.completed = k.completed, l.cycles = k.cycles
    PROVE  WalkOK(l, req)
<1>1. PICK x : x = [work |-> w, left |-> Needs(req, w)]
    OBVIOUS
<1>2. x \in Frames /\ x.work = w /\ x.left = Needs(req, w)
    BY <1>1 DEF Frames, Needs
<1>3. l.path \in Seq(Frames) /\ Len(l.path) = 1 /\ l.path[1] = x
    BY <1>1, <1>2
<1>4. \A i \in 1..1 : i = 1
    OBVIOUS
<1>5. WalkShape(l, req)
    BY <1>2, <1>3, <1>4 DEF WalkOK, WalkShape
<1>6. WalkLeads(l, req)
    BY <1>3, <1>4 DEF WalkOK, WalkLeads
<1>7. WalkMisses(l, req)
    BY <1>2, <1>3, <1>4 DEF WalkOK, WalkMisses
<1> QED BY <1>5, <1>6, <1>7 DEF WalkOK

(* The least task of a set that is not empty is a member of it.             *)
LEMMA LeastIsMember ==
    ASSUME NEW S \in SUBSET Works, S # {}
    PROVE  Least(S) \in S
<1>1. \E w \in S : \A u \in S : w <= u
    <2>1. S \in SUBSET Nat
        BY ReadinessAssumption
    <2> QED BY <2>1, SmallestExists
<1> QED BY <1>1 DEF Least

(* What the walk says of the snapshot it walks over.                        *)
WalkInv ==
    /\ facts \in Snapshots
    /\ walk \in [path : {walk.path}, completed : {walk.completed}, cycles : {walk.cycles}]
    /\ WalkOK(walk, facts.requires)

LEMMA WalkInitially == ReadinessInit => WalkInv
<1> SUFFICES ASSUME ReadinessInit PROVE WalkInv
    OBVIOUS
<1>1. /\ facts \in Snapshots /\ walk.path = << >> /\ walk.completed = {} /\ walk.cycles = {}
      /\ walk \in [path : {walk.path}, completed : {walk.completed}, cycles : {walk.cycles}]
    BY DEF ReadinessInit
<1>2. Len(walk.path) = 0 /\ walk.path \in Seq(Frames) /\ 1..0 = {}
    BY <1>1
<1>3. WalkOK(walk, facts.requires)
    BY <1>1, <1>2 DEF WalkOK, WalkShape, WalkLeads, WalkMisses
<1> QED BY <1>1, <1>3 DEF WalkInv

LEMMA EdgeFollowed ==
    ASSUME WalkInv, FollowEdge
    PROVE  WalkInv'
<1>1. PICK k : k = walk
    OBVIOUS
<1>2. PICK req : req = facts.requires
    OBVIOUS
<1>3. PICK n : n = Len(k.path)
    OBVIOUS
<1>4. PICK u : u = Least(Top.left)
    OBVIOUS
<1>5. PICK p : p = Append(Below, [Top EXCEPT !.left = Top.left \ {u}])
    OBVIOUS
<1>6. WalkOK(k, req) /\ k.path # << >> /\ n \in Nat /\ n > 0 /\ n \in 1..n
    <2>1. n \in Nat /\ n > 0
        BY <1>1, <1>2, <1>3, TopRemoved DEF WalkInv, WalkOK, WalkShape, FollowEdge
    <2>2. n \in 1..n
        BY <2>1
    <2> QED BY <1>1, <1>2, <2>1, <2>2 DEF WalkInv, FollowEdge
<1>7. Top = k.path[n] /\ Below = SubSeq(k.path, 1, n - 1)
    BY <1>1, <1>3 DEF Top, Below
<1>8. u \in k.path[n].left
    <2>1. k.path[n].left \in SUBSET Works
        <3>1. k.path[n] \in Frames
            BY <1>3, <1>6, LenProperties DEF WalkOK, WalkShape
        <3> QED BY <3>1 DEF Frames
    <2>2. k.path[n].left # {}
        BY <1>7 DEF FollowEdge
    <2> QED BY <1>4, <1>7, <2>1, <2>2, LeastIsMember
<1>9. Follows(k, n, u, p)
    BY <1>3, <1>5, <1>6, <1>7, <1>8 DEF Follows
<1>10. u \in Works
    BY <1>6, <1>9, EdgeLookedAt
<1>11. facts' = facts /\ walk' =
            CASE u \in k.completed -> [k EXCEPT !.path = p]
              [] u \in OnPath -> [k EXCEPT !.path = p, !.cycles = k.cycles \cup {CycleThrough(u)}]
              [] OTHER -> [k EXCEPT !.path = Append(p, Frame(u))]
    BY <1>1, <1>4, <1>5 DEF FollowEdge
<1>12. k \in [path : {k.path}, completed : {k.completed}, cycles : {k.cycles}]
    BY <1>1 DEF WalkInv
<1>13. CASE u \in k.completed
    <2>0. u \notin OnPath
        BY <1>1, <1>3, <1>6, <1>13 DEF OnPath, WalkOK, WalkShape
    <2>1. walk' = [k EXCEPT !.path = p]
        BY <1>11, <1>13, <2>0
    <2>2. PICK l : l = walk'
        OBVIOUS
    <2>3. /\ l \in [path : {l.path}, completed : {l.completed}, cycles : {l.cycles}]
          /\ l.path = p /\ l.completed = k.completed /\ l.cycles = k.cycles
        BY <1>12, <2>1, <2>2
    <2>4. WalkOK(l, req)
        BY <1>6, <1>9, <1>13, <2>3, EdgeToCompleted
    <2> QED BY <1>2, <1>11, <2>2, <2>3, <2>4 DEF WalkInv
<1>14. CASE u \notin k.completed /\ u \in OnPath
    <2>1. PICK c : c = CycleThrough(u)
        OBVIOUS
    <2>2. walk' = [k EXCEPT !.path = p, !.cycles = k.cycles \cup {c}]
        BY <1>11, <1>14, <2>1
    <2>3. PICK l : l = walk'
        OBVIOUS
    <2>4. /\ l \in [path : {l.path}, completed : {l.completed}, cycles : {l.cycles}]
          /\ l.path = p /\ l.completed = k.completed /\ l.cycles = k.cycles \cup {c}
        BY <1>12, <2>2, <2>3
    <2>5. \A w : w \in c <=> FromOn(k, n, u, w)
        BY <1>1, <1>3, <2>1 DEF CycleThrough, FromOn
    <2>6. PICK h \in 1..n : k.path[h].work = u
        BY <1>1, <1>3, <1>14 DEF OnPath
    <2>7. l.path = p /\ l.completed = k.completed /\ l.cycles = k.cycles \cup {c}
        BY <2>4
    <2>8. WalkOK(l, req)
        BY <1>6, <1>9, <2>5, <2>6, <2>7, EdgeToPath
    <2> QED BY <1>2, <1>11, <2>3, <2>4, <2>8 DEF WalkInv
<1>15. CASE u \notin k.completed /\ u \notin OnPath
    <2>1. PICK q : q = Append(p, Frame(u))
        OBVIOUS
    <2>2. walk' = [k EXCEPT !.path = q]
        BY <1>11, <1>15, <2>1
    <2>3. PICK l : l = walk'
        OBVIOUS
    <2>4. /\ l \in [path : {l.path}, completed : {l.completed}, cycles : {l.cycles}]
          /\ l.path = q /\ l.completed = k.completed /\ l.cycles = k.cycles
        BY <1>12, <2>2, <2>3
    <2>5. q = Append(p, [work |-> u, left |-> Needs(req, u)])
        BY <1>2, <2>1 DEF Frame, Requires, Needs
    <2>6. \A i \in 1..n : k.path[i].work # u
        BY <1>1, <1>3, <1>15 DEF OnPath
    <2>7. /\ l.path = Append(p, [work |-> u, left |-> Needs(req, u)])
          /\ l.completed = k.completed /\ l.cycles = k.cycles
        BY <2>4, <2>5
    <2>8. WalkOK(l, req)
        BY <1>6, <1>9, <1>15, <2>6, <2>7, EdgeToNew
    <2> QED BY <1>2, <1>11, <2>3, <2>4, <2>8 DEF WalkInv
<1> QED BY <1>13, <1>14, <1>15

LEMMA WalkStep == WalkInv /\ [ReadinessNext]_readinessVars => WalkInv'
<1> SUFFICES ASSUME WalkInv, [ReadinessNext]_readinessVars PROVE WalkInv'
    OBVIOUS
<1>1. PICK k : k = walk
    OBVIOUS
<1>2. PICK req : req = facts.requires
    OBVIOUS
<1>3. /\ WalkOK(k, req)
      /\ k \in [path : {k.path}, completed : {k.completed}, cycles : {k.cycles}]
    BY <1>1, <1>2 DEF WalkInv
<1>4. CASE WalkFrom
    <2>1. PICK w : w = Least(Works \ k.completed)
        OBVIOUS
    <2>2. PICK q : q = << Frame(w) >>
        OBVIOUS
    <2>3. facts' = facts /\ walk' = [k EXCEPT !.path = q]
        BY <1>1, <1>4, <2>1, <2>2 DEF WalkFrom
    <2>4. w \in Works /\ w \notin k.completed /\ k.path = << >>
        <3>1. Works \ k.completed # {} /\ k.path = << >>
            BY <1>1, <1>3, <1>4 DEF WalkFrom, WalkOK, WalkShape
        <3>2. PICK S : S = Works \ k.completed
            OBVIOUS
        <3>3. w \in S
            BY <2>1, <3>1, <3>2, LeastIsMember
        <3> QED BY <3>1, <3>2, <3>3
    <2>5. PICK l : l = walk'
        OBVIOUS
    <2>6. /\ l \in [path : {l.path}, completed : {l.completed}, cycles : {l.cycles}]
          /\ l.path = q /\ l.completed = k.completed /\ l.cycles = k.cycles
        BY <1>3, <2>3, <2>5
    <2>7. q = << [work |-> w, left |-> Needs(req, w)] >>
        BY <1>2, <2>2 DEF Frame, Requires, Needs
    <2>8. WalkOK(l, req)
        BY <1>3, <2>4, <2>6, <2>7, WalkStarted
    <2> QED BY <1>2, <2>3, <2>5, <2>6, <2>8 DEF WalkInv
<1>5. CASE FollowEdge
    BY <1>5, EdgeFollowed
<1>6. CASE LeaveWork
    <2>1. PICK n : n = Len(k.path)
        OBVIOUS
    <2>2. PICK d : d = CompletedNow
        OBVIOUS
    <2>3. PICK q : q = Below
        OBVIOUS
    <2>4. facts' = facts /\ walk' = [k EXCEPT !.path = q, !.completed = d]
        BY <1>1, <1>6, <2>2, <2>3 DEF LeaveWork
    <2>5. PICK l : l = walk'
        OBVIOUS
    <2>6. /\ l \in [path : {l.path}, completed : {l.completed}, cycles : {l.cycles}]
          /\ l.path = q /\ l.completed = d /\ l.cycles = k.cycles
        BY <1>3, <2>4, <2>5
    <2>7. /\ q = SubSeq(k.path, 1, n - 1) /\ d = k.completed \cup {k.path[n].work}
          /\ k.path # << >> /\ k.path[n].left = {}
        BY <1>1, <1>6, <2>1, <2>2, <2>3 DEF LeaveWork, CompletedNow, Below, Top
    <2>8. WalkOK(l, req)
        BY <1>3, <2>1, <2>6, <2>7, WorkCompleted
    <2> QED BY <1>2, <2>4, <2>5, <2>6, <2>8 DEF WalkInv
<1>7. CASE DecideWork \/ UNCHANGED readinessVars
    <2>1. facts' = facts /\ walk' = walk
        BY <1>7 DEF DecideWork, readinessVars
    <2> QED BY <2>1 DEF WalkInv
<1> QED BY <1>4, <1>5, <1>6, <1>7 DEF ReadinessNext

(* At the end of the walk every task is completed.                          *)
LEMMA WalkTells == WalkInv => CyclesAreFound
<1> SUFFICES ASSUME WalkInv, walk.path = << >>, walk.completed = Works
             PROVE  /\ (walk.cycles = {}) <=> (\A w \in Works : ~DependsTransitively(w, w))
                    /\ \A w \in OnCycle : DependsTransitively(w, w)
    BY DEF CyclesAreFound, WalkOver
<1>1. PICK req : req = facts.requires
    OBVIOUS
<1>2. \A w : DependsTransitively(w, w) <=> Leads(req, w, w)
    BY <1>1 DEF DependsTransitively, Leads, Requires, Needs
<1>3. \A c \in walk.cycles : c # {} /\ c \subseteq Works /\ \A w \in c : Leads(req, w, w)
    BY <1>1 DEF WalkInv, WalkOK, WalkShape, WalkLeads
<1>4. walk.cycles = {} => \A w \in Works : ~Leads(req, w, w)
    BY <1>1 DEF WalkInv, WalkOK, WalkMisses
<1>5. walk.cycles # {} => \E w \in Works : Leads(req, w, w)
    BY <1>3
<1>6. \A w \in OnCycle : Leads(req, w, w)
    BY <1>3 DEF OnCycle
<1> QED BY <1>2, <1>4, <1>5, <1>6

-----------------------------------------------------------------------------
(* Readiness: the admitted tasks fit together                               *)

(* The slots of a set of tasks, as SlotsTaken adds them up.                 *)
TakenBy(S) == (CHOOSE iter : Recursion(iter, WorkSlots, S))[S]

LEMMA SlotsTakenUnfold ==
    ASSUME NEW p
    PROVE  /\ SlotsTaken(p) = TakenBy({w \in decided.ready : Pool[w] = p})
           /\ SlotsTaken(p)' = TakenBy({w \in decided'.ready : Pool[w] = p})
BY DEF SlotsTaken, FoldFunctionOnSet, MapThenFoldSet, TakenBy, Recursion

LEMMA OneMoreTask ==
    ASSUME NEW S \in SUBSET Works, NEW w \in Works \ S
    PROVE  TakenBy(S) \in Nat /\ TakenBy(S \cup {w}) = TakenBy(S) + WorkSlots[w]
<1>1. IsFiniteSet(Works) /\ WorkSlots \in [Works -> Nat]
    BY ReadinessAssumption
<1>2. PICK g : Sums(g, WorkSlots, Works)
    BY <1>1, SumsExist
<1>3. ASSUME NEW T \in SUBSET Works PROVE TakenBy(T) = g[T]
    <2>1. \E iter : Recursion(iter, WorkSlots, T)
        BY <1>2, RecursionExists
    <2>2. PICK iter : iter = CHOOSE i : Recursion(i, WorkSlots, T)
        OBVIOUS
    <2>3. Recursion(iter, WorkSlots, T)
        BY <2>1, <2>2
    <2>4. iter[T] = g[T]
        BY <1>1, <1>2, <2>3, RecursionSums
    <2> QED BY <2>2, <2>4 DEF TakenBy
<1>4. PICK T : T = S \cup {w}
    OBVIOUS
<1>5. T \in SUBSET Works /\ w \in T /\ T \ {w} = S
    BY <1>4
<1>6. g[T] = WorkSlots[w] + g[S] /\ g[S] \in Nat
    BY <1>2, <1>5 DEF Sums
<1>7. TakenBy(S) = g[S] /\ TakenBy(T) = g[T]
    BY <1>3, <1>5
<1>8. WorkSlots[w] \in Nat
    BY <1>1
<1> QED BY <1>4, <1>6, <1>7, <1>8

(* What has been decided, with the snapshot it was decided from.            *)
DecidedShape ==
    /\ facts \in Snapshots
    /\ decided \in [done : SUBSET Works, ready : SUBSET Works]
    /\ decided.ready \subseteq decided.done

AdmissionInv == DecidedShape /\ AdmittedWorkFits

(* What is under way can be counted.                                        *)
LEMMA OperationsCount ==
    ASSUME DecidedShape
    PROVE  /\ OperationCount \in Nat /\ \A t : TeamOperations(t) \in Nat
           /\ facts.policy.maxActive \in Nat /\ facts.policy.maxPerTeam \in Nat
           /\ \A w \in Works : facts.slots[Pool[w]] \in Nat
<1>1. /\ IsFiniteSet(facts.runs) /\ IsFiniteSet(facts.reservations)
      /\ {facts.usage.active, facts.policy.maxActive, facts.policy.maxPerTeam} \subseteq Nat
      /\ \A w \in Works : facts.slots[Pool[w]] \in Nat
    BY ReadinessAssumption DEF DecidedShape
<1>2. IsFiniteSet(Operations)
    <2>1. PICK R : R = {r \in facts.reservations : \A o \in facts.runs : o.id # r.id}
        OBVIOUS
    <2>2. IsFiniteSet(R)
        <3>1. R \subseteq facts.reservations
            BY <2>1
        <3> QED BY <1>1, <3>1, FS_Subset
    <2>3. IsFiniteSet(facts.runs \cup R)
        BY <1>1, <2>2, FS_Union
    <2> QED BY <2>1, <2>3 DEF Operations
<1>3. Cardinality(Operations) \in Nat
    BY <1>2, FS_CardinalityType
<1>4. ASSUME NEW t PROVE TeamOperations(t) \in Nat
    <2>1. PICK R : R = {o \in Operations : o.team = t}
        OBVIOUS
    <2>2. IsFiniteSet(R)
        <3>1. R \subseteq Operations
            BY <2>1
        <3> QED BY <1>2, <3>1, FS_Subset
    <2>3. Cardinality(R) \in Nat
        BY <2>2, FS_CardinalityType
    <2> QED BY <2>1, <2>3 DEF TeamOperations
<1>5. OperationCount \in Nat
    BY <1>1, <1>3 DEF OperationCount, Larger
<1> QED BY <1>1, <1>4, <1>5

LEMMA AdmissionInitially == ReadinessInit => AdmissionInv
<1> SUFFICES ASSUME ReadinessInit PROVE AdmissionInv
    OBVIOUS
<1>1. decided = [done |-> {}, ready |-> {}] /\ facts \in Snapshots
    BY DEF ReadinessInit
<1>2. decided.ready = {}
    BY <1>1
<1>3. DecidedShape
    BY <1>1 DEF DecidedShape
<1>4. AdmittedWorkFits
    BY <1>2 DEF AdmittedWorkFits
<1> QED BY <1>3, <1>4 DEF AdmissionInv

(* A task is decided and admitted.                                          *)
LEMMA TaskAdmitted ==
    ASSUME AdmissionInv, NEW w \in Works, w \notin decided.done, Ready(w),
           facts' = facts, decided' \in [done : SUBSET Works, ready : SUBSET Works],
           decided'.ready = decided.ready \cup {w}
    PROVE  AdmittedWorkFits'
<1>1. PICK S : S = decided.ready
    OBVIOUS
<1>2. PICK T : T = decided'.ready
    OBVIOUS
<1>3. S \in SUBSET Works /\ w \notin S /\ T = S \cup {w}
    BY <1>1, <1>2 DEF AdmissionInv, DecidedShape
<1>4. IsFiniteSet(Works)
    BY ReadinessAssumption
<1>5. ASSUME NEW A \in SUBSET Works
      PROVE  /\ Cardinality(A) \in Nat
             /\ w \notin A => Cardinality(A \cup {w}) = Cardinality(A) + 1
    <2>1. IsFiniteSet(A)
        BY <1>4, FS_Subset
    <2> QED BY <2>1, FS_CardinalityType, FS_AddElement
<1>6. /\ OperationCount \in Nat /\ \A t : TeamOperations(t) \in Nat
      /\ facts.policy.maxActive \in Nat /\ facts.policy.maxPerTeam \in Nat
      /\ \A x \in Works : facts.slots[Pool[x]] \in Nat
    BY OperationsCount DEF AdmissionInv
<1>7. /\ OperationCount' = OperationCount /\ \A t : TeamOperations(t)' = TeamOperations(t)
      /\ facts'.policy.maxActive = facts.policy.maxActive
      /\ facts'.policy.maxPerTeam = facts.policy.maxPerTeam
      /\ \A x \in Works : facts'.slots[Pool[x]] = facts.slots[Pool[x]]
      /\ \A u : Succeeded(u)' = Succeeded(u)
      /\ \A x : Requires(x)' = Requires(x)
    BY DEF OperationCount, TeamOperations, Operations, Succeeded, Requires
<1>8. OperationCount + Cardinality(T) <= facts.policy.maxActive
    <2>1. OperationCount + Cardinality(S) < facts.policy.maxActive
        BY <1>1 DEF Ready, ProjectFits
    <2>2. Cardinality(S) \in Nat /\ Cardinality(T) = Cardinality(S) + 1
        BY <1>3, <1>5
    <2> QED BY <1>6, <2>1, <2>2
<1>9. ASSUME NEW x \in T
      PROVE  /\ TeamOperations(WorkTeam[x]) + Cardinality(AdmittedOfTeam(WorkTeam[x])')
                  <= facts.policy.maxPerTeam
             /\ SlotsTaken(Pool[x])' <= facts.slots[Pool[x]]
             /\ \A u \in Requires(x) : Succeeded(u)
    <2>1. PICK m : m = facts.policy.maxPerTeam
        OBVIOUS
    <2>2. PICK b : b = facts.slots[Pool[x]]
        OBVIOUS
    <2>3. x # w => /\ x \in S
                   /\ TeamOperations(WorkTeam[x]) + Cardinality(AdmittedOfTeam(WorkTeam[x])) <= m
                   /\ SlotsTaken(Pool[x]) <= b
                   /\ \A u \in Requires(x) : Succeeded(u)
        BY <1>1, <1>3, <1>9, <2>1, <2>2 DEF AdmissionInv, AdmittedWorkFits
    <2>4. TeamOperations(WorkTeam[x]) + Cardinality(AdmittedOfTeam(WorkTeam[x])') <= m
        <3>1. PICK A : A = AdmittedOfTeam(WorkTeam[x])
            OBVIOUS
        <3>2. PICK B : B = AdmittedOfTeam(WorkTeam[x])'
            OBVIOUS
        <3>3. A = {y \in S : WorkTeam[y] = WorkTeam[x]} /\ B = {y \in T : WorkTeam[y] = WorkTeam[x]}
            BY <1>1, <1>2, <3>1, <3>2 DEF AdmittedOfTeam
        <3>4. CASE WorkTeam[x] = WorkTeam[w]
            <4>1. TeamOperations(WorkTeam[x]) + Cardinality(A) < m
                BY <2>1, <3>1, <3>4 DEF Ready, TeamFits
            <4>2. B = A \cup {w} /\ A \in SUBSET Works /\ w \notin A
                BY <1>3, <3>3, <3>4
            <4>3. Cardinality(A) \in Nat /\ Cardinality(B) = Cardinality(A) + 1
                BY <1>5, <4>2
            <4>4. TeamOperations(WorkTeam[x]) \in Nat /\ m \in Nat
                BY <1>6, <2>1
            <4>5. TeamOperations(WorkTeam[x]) + Cardinality(B) <= m
                BY <4>1, <4>3, <4>4
            <4> QED BY <3>2, <4>5
        <3>5. CASE WorkTeam[x] # WorkTeam[w]
            <4>1. B = A /\ x # w
                BY <1>3, <3>3, <3>5
            <4> QED BY <2>3, <3>1, <3>2, <4>1
        <3> QED BY <3>4, <3>5
    <2>5. SlotsTaken(Pool[x])' <= b
        <3>1. PICK A : A = {y \in S : Pool[y] = Pool[x]}
            OBVIOUS
        <3>2. PICK B : B = {y \in T : Pool[y] = Pool[x]}
            OBVIOUS
        <3>3. SlotsTaken(Pool[x]) = TakenBy(A) /\ SlotsTaken(Pool[x])' = TakenBy(B)
            BY <1>1, <1>2, <3>1, <3>2, SlotsTakenUnfold
        <3>4. CASE Pool[x] = Pool[w]
            <4>1. SlotsTaken(Pool[x]) + WorkSlots[w] <= b
                BY <2>2, <3>4 DEF Ready, CapabilityFits
            <4>2. B = A \cup {w} /\ A \in SUBSET Works /\ w \notin A
                BY <1>3, <3>1, <3>2, <3>4
            <4>3. TakenBy(B) = TakenBy(A) + WorkSlots[w]
                BY <4>2, OneMoreTask
            <4> QED BY <3>3, <4>1, <4>3
        <3>5. CASE Pool[x] # Pool[w]
            <4>1. B = A /\ x # w
                BY <1>3, <3>1, <3>2, <3>5
            <4> QED BY <2>3, <3>3, <4>1
        <3> QED BY <3>4, <3>5
    <2>6. \A u \in Requires(x) : Succeeded(u)
        <3>1. CASE x = w
            <4>1. w \notin OnCycle /\ PrerequisitesMet(w)
                BY DEF Ready
            <4> QED BY <3>1, <4>1 DEF PrerequisitesMet
        <3> QED BY <2>3, <3>1
    <2> QED BY <2>1, <2>2, <2>4, <2>5, <2>6
<1>10. /\ OperationCount' + Cardinality(decided'.ready) <= facts'.policy.maxActive
       /\ \A x \in decided'.ready :
            /\ TeamOperations(WorkTeam[x])' + Cardinality(AdmittedOfTeam(WorkTeam[x])')
                 <= facts'.policy.maxPerTeam
            /\ SlotsTaken(Pool[x])' <= facts'.slots[Pool[x]]
            /\ \A u \in Requires(x)' : Succeeded(u)'
    <2>1. \A x \in T : x \in Works
        BY <1>3
    <2> QED BY <1>2, <1>7, <1>8, <1>9, <2>1
<1> QED BY <1>10 DEF AdmittedWorkFits

LEMMA AdmissionKept ==
    ASSUME AdmittedWorkFits, facts' = facts, decided'.ready = decided.ready
    PROVE  AdmittedWorkFits'
<1>1. /\ OperationCount' = OperationCount /\ \A t : TeamOperations(t)' = TeamOperations(t)
      /\ \A u : Succeeded(u)' = Succeeded(u)
      /\ \A x : Requires(x)' = Requires(x)
    BY DEF OperationCount, TeamOperations, Operations, Succeeded, Requires
<1>2. \A t : AdmittedOfTeam(t)' = AdmittedOfTeam(t)
    BY DEF AdmittedOfTeam
<1>3. ASSUME NEW p PROVE SlotsTaken(p)' = SlotsTaken(p)
    <2>1. PICK A : A = {w \in decided.ready : Pool[w] = p}
        OBVIOUS
    <2>2. A = {w \in decided'.ready : Pool[w] = p}
        BY <2>1
    <2> QED BY <2>1, <2>2, SlotsTakenUnfold
<1> QED BY <1>1, <1>2, <1>3 DEF AdmittedWorkFits

LEMMA AdmissionStep == AdmissionInv /\ [ReadinessNext]_readinessVars => AdmissionInv'
<1> SUFFICES ASSUME AdmissionInv, [ReadinessNext]_readinessVars PROVE AdmissionInv'
    OBVIOUS
<1>1. CASE UNCHANGED <<facts, decided>>
    <2>1. DecidedShape'
        BY <1>1 DEF AdmissionInv, DecidedShape
    <2>2. AdmittedWorkFits'
        BY <1>1, AdmissionKept DEF AdmissionInv
    <2> QED BY <2>1, <2>2 DEF AdmissionInv
<1>2. CASE DecideWork
    <2>1. PICK w : w = Least(Works \ decided.done)
        OBVIOUS
    <2>2. PICK N : N = {x \in {w} : Ready(x)}
        OBVIOUS
    <2>3. decided' = [done |-> decided.done \cup {w}, ready |-> decided.ready \cup N]
        BY <1>2, <2>1, <2>2 DEF DecideWork
    <2>4. w \in Works /\ w \notin decided.done
        <3>1. PICK S : S = Works \ decided.done
            OBVIOUS
        <3>2. S # {} /\ S \in SUBSET Works
            BY <1>2, <3>1 DEF DecideWork, AdmissionInv, DecidedShape
        <3>3. w \in S
            BY <2>1, <3>1, <3>2, LeastIsMember
        <3> QED BY <3>1, <3>3
    <2>5. /\ facts' = facts /\ decided' \in [done : SUBSET Works, ready : SUBSET Works]
          /\ decided'.ready = decided.ready \cup N /\ decided'.done = decided.done \cup {w}
          /\ N \subseteq {w}
        BY <1>2, <2>2, <2>3, <2>4 DEF DecideWork, AdmissionInv, DecidedShape
    <2>6. DecidedShape'
        BY <2>5 DEF AdmissionInv, DecidedShape
    <2>7. CASE Ready(w)
        <3>1. decided'.ready = decided.ready \cup {w}
            BY <2>2, <2>5, <2>7
        <3>2. AdmittedWorkFits'
            BY <2>4, <2>5, <2>7, <3>1, TaskAdmitted
        <3> QED BY <2>6, <3>2 DEF AdmissionInv
    <2>8. CASE ~Ready(w)
        <3>1. decided'.ready = decided.ready
            BY <2>2, <2>5, <2>8
        <3>2. AdmittedWorkFits'
            BY <2>5, <3>1, AdmissionKept DEF AdmissionInv
        <3> QED BY <2>6, <3>2 DEF AdmissionInv
    <2> QED BY <2>7, <2>8
<1> QED BY <1>1, <1>2 DEF ReadinessNext, WalkFrom, FollowEdge, LeaveWork, readinessVars

(* For any graph and any snapshot, in whatever order tasks were numbered:   *)
(* an evaluation finds a cycle exactly when a task depends on itself,       *)
(* accuses only tasks that do, and admits tasks that fit the limits of the  *)
(* project, the team and the capacity record together, with every           *)
(* prerequisite met.                                                        *)
THEOREM ReadinessCanBeActedUpon == ReadinessSpec => []ReadinessIsSound
<1>1. WalkInv /\ AdmissionInv => ReadinessIsSound
    BY WalkTells DEF AdmissionInv, ReadinessIsSound
<1> QED BY <1>1, WalkInitially, WalkStep, AdmissionInitially, AdmissionStep, PTL
    DEF ReadinessSpec
=============================================================================
