---------------------------- MODULE Capabilities ----------------------------
(***************************************************************************)
(* The capability directory and its capacity (capabilities/service.py,     *)
(* capabilities/repository.py) and the orchestrator's way into it          *)
(* (project_process/capability_adapter.py).                                *)
(*                                                                         *)
(* One version of one capability of one provider.  Capacity is declared    *)
(* under a row lock against the version read; reservations are serialised  *)
(* among themselves by an advisory lock and read the declared capacity     *)
(* without a lock on it.  Every statement runs as the tenant of the        *)
(* caller, and row-level security shows a tenant only the reservations it  *)
(* provides or consumes (alembic/versions/20260813_25).                    *)
(***************************************************************************)
EXTENDS Naturals, FiniteSets, FiniteSetsExt

CONSTANTS
    ConsumerTeams,     \* teams that may reserve
    ProviderTeam,      \* the team that publishes the capability
    Reservations,      \* identities of reservations
    Negotiations,      \* identities of negotiations
    SlotLimit,         \* the most slots ever declared
    DeclarationLimit,  \* declarations of capacity
    Ttl,               \* lifetime of a reservation
    LastTick           \* the clock stops here

ASSUME CapabilityParameters ==
    /\ ProviderTeam \notin ConsumerTeams
    /\ {SlotLimit, DeclarationLimit, Ttl, LastTick} \subseteq Nat

VARIABLES
    directory,     \* team_capabilities: the teams that see the published version
    capacity,      \* team_capability_capacity
    reservations,  \* team_capacity_reservations
    negotiations,  \* team_capacity_negotiations
    matched,       \* the capacity version an orchestrator matched, per consumer
    reserving,     \* transactions between the check and the insert
    tick           \* time

capabilityVars == <<directory, capacity, reservations, negotiations, matched, reserving, tick>>

-----------------------------------------------------------------------------
(* Rows *)

Unpublished == {}

NoCapacity == [status |-> "none", slots |-> 0, until |-> 0, version |-> 0]

NoReservation == [status |-> "none"]

Fresh == capacity.status \in {"available", "limited"} /\ capacity.until > tick

\* The policy team_capacity_reservations_select.
SeenBy(team, r) == team \in {ProviderTeam, reservations[r].consumer}

Active(r) == reservations[r].status = "active" /\ reservations[r].expires > tick

SlotsOf(rs) == MapThenSumSet(LAMBDA r : reservations[r].slots, rs)

\* sum(active) as the transaction of a tenant reads it.
ActiveSlots(team) == SlotsOf({r \in Reservations : Active(r) /\ SeenBy(team, r)})

CapabilitiesInit ==
    /\ directory = Unpublished
    /\ capacity = NoCapacity
    /\ reservations = [r \in Reservations |-> NoReservation]
    /\ negotiations = [n \in Negotiations |-> [status |-> "none", consumer |-> ProviderTeam]]
    /\ matched = [c \in ConsumerTeams |-> 0]
    /\ reserving = {}
    /\ tick = 0

-----------------------------------------------------------------------------
(* The provider *)

\* A version is published once; a repetition of the command reads it again.
Publish(visible) ==
    /\ directory = Unpublished
    /\ directory' = visible \cup {ProviderTeam}
    /\ UNCHANGED <<capacity, reservations, negotiations, matched, reserving, tick>>

DeclareCapacity(status, slots) ==
    /\ directory # Unpublished
    /\ capacity.version < DeclarationLimit
    /\ capacity' = [status |-> status, slots |-> slots, until |-> LastTick + 1,
                    version |-> capacity.version + 1]
    /\ UNCHANGED <<directory, reservations, negotiations, matched, reserving, tick>>

-----------------------------------------------------------------------------
(* Reservations *)

\* ProjectCapabilityAdapter.match: what a consumer's orchestrator sees free.
Match(c) ==
    /\ c \in directory
    /\ Fresh
    /\ capacity.slots > ActiveSlots(c)
    /\ matched' = [matched EXCEPT ![c] = capacity.version]
    /\ UNCHANGED <<directory, capacity, reservations, negotiations, reserving, tick>>

\* (mutation) Reservations are not serialised.
LockNotTaken == TRUE

\* pg_advisory_xact_lock of the capability version.
LockFree == reserving = {}

Admitted(c, slots) ==
    /\ Fresh
    /\ ActiveSlots(c) + slots <= capacity.slots

BeginReserve(c, r, slots, by) ==
    /\ LockFree
    /\ c \in directory
    /\ reservations[r] = NoReservation
    /\ by = "orchestrator" => matched[c] = capacity.version
    /\ Admitted(c, slots)
    /\ reserving' = reserving \cup
           {[id |-> r, row |-> [status |-> "active", consumer |-> c, slots |-> slots,
                                expires |-> tick + Ttl, by |-> by]]}
    /\ UNCHANGED <<directory, capacity, reservations, negotiations, matched, tick>>

\* The insert; a row another transaction put there first refuses it.
CommitReserve(t) ==
    /\ reservations[t.id] = NoReservation
    /\ reservations' = [reservations EXCEPT ![t.id] = t.row]
    /\ reserving' = reserving \ {t}
    /\ UNCHANGED <<directory, capacity, negotiations, matched, tick>>

AbortReserve(t) ==
    /\ reserving' = reserving \ {t}
    /\ UNCHANGED <<directory, capacity, reservations, negotiations, matched, tick>>

\* Either party, and the accounting of a finished run; expired rows too.
ReleaseReservation(r) ==
    /\ reservations[r].status = "active"
    /\ reservations' = [reservations EXCEPT ![r].status = "released"]
    /\ UNCHANGED <<directory, capacity, negotiations, matched, reserving, tick>>

-----------------------------------------------------------------------------
(* Negotiations *)

ProposeNegotiation(n, c) ==
    /\ c \in directory
    /\ negotiations[n].status = "none"
    /\ negotiations' = [negotiations EXCEPT ![n] = [status |-> "proposed", consumer |-> c]]
    /\ UNCHANGED <<directory, capacity, reservations, matched, reserving, tick>>

MayDecide(n, team, target) ==
    \/ team = ProviderTeam /\ target \in {"accepted", "rejected"}
    \/ team = negotiations[n].consumer /\ target = "withdrawn"

DecideNegotiation(n, team, target) ==
    /\ negotiations[n].status = "proposed"
    /\ MayDecide(n, team, target)
    /\ negotiations' = [negotiations EXCEPT ![n].status = target]
    /\ UNCHANGED <<directory, capacity, reservations, matched, reserving, tick>>

TimePasses ==
    /\ tick < LastTick
    /\ tick' = tick + 1
    /\ UNCHANGED <<directory, capacity, reservations, negotiations, matched, reserving>>

-----------------------------------------------------------------------------

CapabilitiesNext ==
    \/ \E visible \in SUBSET ConsumerTeams : Publish(visible)
    \/ \E status \in {"available", "limited", "unavailable"}, slots \in 0..SlotLimit :
           DeclareCapacity(status, slots)
    \/ \E c \in ConsumerTeams : Match(c)
    \/ \E c \in ConsumerTeams, r \in Reservations, slots \in 1..SlotLimit,
          by \in {"member", "orchestrator"} : BeginReserve(c, r, slots, by)
    \/ \E t \in reserving : CommitReserve(t) \/ AbortReserve(t)
    \/ \E r \in Reservations : ReleaseReservation(r)
    \/ \E n \in Negotiations, c \in ConsumerTeams : ProposeNegotiation(n, c)
    \/ \E n \in Negotiations, team \in ConsumerTeams \cup {ProviderTeam},
          target \in {"accepted", "rejected", "withdrawn"} : DecideNegotiation(n, team, target)
    \/ TimePasses

CapabilitiesSpec == CapabilitiesInit /\ [][CapabilitiesNext]_capabilityVars

-----------------------------------------------------------------------------
(* Properties *)

\* A reservation never takes the slots in use above the declared capacity,
\* whoever the other slots are reserved for (repository.py reserve).
NeverOversubscribed ==
    [][\A r \in Reservations :
          reservations[r] = NoReservation /\ reservations'[r] # NoReservation
          => (ActiveSlots(ProviderTeam))' <= capacity.slots]_capabilityVars

\* One consumer's reservations in force never add up to more slots than were
\* ever declared, also when two of its calls reserve at the same time or its
\* reservations expire and are released in any order.
ConsumerNeverOverbooks ==
    \A c \in ConsumerTeams : ActiveSlots(c) <= SlotLimit
=============================================================================
