------------------------------ MODULE AuditLog -------------------------------
(***************************************************************************)
(* The audit chain of one tenant (postgres_audit.py).                      *)
(*                                                                         *)
(* A writer appends inside the transaction of the change it records: it    *)
(* creates the tenant's head row if there is none, locks it, looks for an  *)
(* event of the same id, and otherwise inserts the next event and moves    *)
(* the head.  The transaction may still roll back.  A verification reads   *)
(* the events and then the head, in two statements of a READ COMMITTED     *)
(* transaction and without a lock, and recomputes the chain.               *)
(*                                                                         *)
(* A hash is the sequence of payloads it covers, which is what SHA-256 of  *)
(* the previous hash and the payload identifies; a signature is the key    *)
(* that made it together with the hash it covers.                          *)
(***************************************************************************)
EXTENDS Naturals, Sequences

CONSTANTS
    AuditWriters, Verifiers,
    EventIds, Payloads,
    SigningKeys,        \* the active keys of the writing processes
    VerificationKeys,   \* the keys the verifying process holds
    ChainLimit          \* bound: events of the chain

ASSUME AuditAssumption == SigningKeys \subseteq VerificationKeys

VARIABLES
    events,         \* audit_events of the tenant, by sequence
    head,           \* audit_heads: last_sequence and last_hash
    appends,        \* the transactions that append
    verifications   \* the verifications under way

auditVars == <<events, head, appends, verifications>>

ZeroHash == << >>
EventHash(previous, payload) == Append(previous, payload)
NoHead == [sequence |-> 0, hash |-> ZeroHash]
NoAppend == [stage |-> "idle"]
NoVerification == [stage |-> "idle", rows |-> << >>, overtaken |-> FALSE]

AuditInit ==
    /\ events = << >>
    /\ head = NoHead
    /\ appends = [w \in AuditWriters |-> NoAppend]
    /\ verifications = [v \in Verifiers |-> NoVerification]

\* The head row is locked from SELECT ... FOR UPDATE to the end of the
\* transaction.
HeadLocked == \E w \in AuditWriters : appends[w].stage # "idle"

SameId(id) == {i \in 1..Len(events) : events[i].id = id}

\* The row a writer inserts after the head it locked.
NextRow(id, payload, key) ==
    [sequence |-> head.sequence + 1, id |-> id, payload |-> payload,
     previous |-> head.hash, hash |-> EventHash(head.hash, payload),
     signature |-> [key |-> key, over |-> EventHash(head.hash, payload)]]

\* append_in_transaction.  An id with the same payload answers as before
\* and writes nothing; with another payload the transaction fails.
AppendEvent(w, id, payload, key) ==
    /\ appends[w].stage = "idle" /\ ~HeadLocked
    /\ \/ /\ SameId(id) = {}
          /\ Len(events) < ChainLimit
          /\ appends' = [appends EXCEPT ![w] =
                [stage |-> "inserted", row |-> NextRow(id, payload, key)]]
       \/ /\ \E i \in SameId(id) : events[i].payload = payload
          /\ appends' = [appends EXCEPT ![w] = [stage |-> "replayed"]]
    /\ UNCHANGED <<events, head, verifications>>

\* (mutation) The head keeps the hash it had.
HeadAfterByCount(row) == [sequence |-> row.sequence, hash |-> row.previous]

\* The head as the UPDATE after the insert leaves it.
HeadAfter(row) == [sequence |-> row.sequence, hash |-> row.hash]

\* The commit makes event and head visible at once.
CommitAppend(w) ==
    /\ \/ /\ appends[w].stage = "inserted"
          /\ events' = Append(events, appends[w].row)
          /\ head' = HeadAfter(appends[w].row)
          /\ verifications' = [v \in Verifiers |->
                [verifications[v] EXCEPT !.overtaken =
                    @ \/ verifications[v].stage = "rows_read"]]
       \/ /\ appends[w].stage = "replayed"
          /\ UNCHANGED <<events, head, verifications>>
    /\ appends' = [appends EXCEPT ![w] = NoAppend]

\* The change the event belongs to fails, or its process dies.
RollBackAppend(w) ==
    /\ appends[w].stage # "idle"
    /\ appends' = [appends EXCEPT ![w] = NoAppend]
    /\ UNCHANGED <<events, head, verifications>>

ReadRows(v) ==
    /\ verifications[v].stage \in {"idle", "verified", "alarm"}
    /\ verifications' = [verifications EXCEPT ![v] =
          [stage |-> "rows_read", rows |-> events, overtaken |-> FALSE]]
    /\ UNCHANGED <<events, head, appends>>

\* The chain as the verification recomputes it from the payloads.
Recomputed(rows, n) == [i \in 1..n |-> rows[i].payload]

RowHolds(rows, i) ==
    /\ rows[i].sequence = i
    /\ rows[i].previous = Recomputed(rows, i - 1)
    /\ rows[i].hash = Recomputed(rows, i)
    /\ rows[i].signature.key \in VerificationKeys
    /\ rows[i].signature.over = rows[i].hash

ChainHolds(rows) == \A i \in 1..Len(rows) : RowHolds(rows, i)

ReadHead(v) ==
    LET rows == verifications[v].rows
    IN /\ verifications[v].stage = "rows_read"
       /\ verifications' = [verifications EXCEPT ![v].stage =
             IF /\ ChainHolds(rows)
                /\ head = [sequence |-> Len(rows),
                           hash |-> Recomputed(rows, Len(rows))]
             THEN "verified" ELSE "alarm"]
       /\ UNCHANGED <<events, head, appends>>

AuditNext ==
    \/ \E w \in AuditWriters :
         \/ \E id \in EventIds, payload \in Payloads, key \in SigningKeys :
               AppendEvent(w, id, payload, key)
         \/ CommitAppend(w) \/ RollBackAppend(w)
    \/ \E v \in Verifiers : ReadRows(v) \/ ReadHead(v)

AuditSpec == AuditInit /\ [][AuditNext]_auditVars

(***************************************************************************)
(* A chain that only append has written raises an alarm in one case: an    *)
(* append committed between the two reads of the verification              *)
(* (verify_tenant_chain_in_transaction).                                   *)
(***************************************************************************)
AlarmOnlyWhenOvertaken ==
    \A v \in Verifiers :
        verifications[v].stage = "alarm" => verifications[v].overtaken
=============================================================================
