------------------------------- MODULE Memory -------------------------------
(***************************************************************************)
(* Team memory (memory/service.py, repository.py, lifecycle.py,            *)
(* rotation.py, indexing.py) under a key rotation: records are admitted or *)
(* quarantined, reviewed, revoked for deletion, held, purged, re-encrypted *)
(* and indexed for search.                                                 *)
(*                                                                         *)
(* Each call is one transaction.  A call that changes a record for a       *)
(* client carries the version the client saw; `seen' is that version.  The *)
(* approval of a deletion reads the legal holds without a lock before it   *)
(* deletes, so it is two steps.                                            *)
(***************************************************************************)
EXTENDS Integers, FiniteSets

-----------------------------------------------------------------------------
(* The rotation of one data key from an old to a new version               *)
(* (key_management/core.py): a plan goes through its stages under the      *)
(* hands of custodians and operators.  The store keeps the plan; every     *)
(* call reads it, acts and saves it, and one call is one action.           *)

CONSTANTS
    Actors,        \* people who take part in a rotation
    Custodians,    \* those with the role key-custodian
    Operators,     \* those with the role rotation-operator
    NoActor        \* nobody yet

ASSUME RotationRoles ==
    /\ Custodians \subseteq Actors /\ Operators \subseteq Actors
    /\ NoActor \notin Actors

VARIABLE
    plan           \* the RotationPlan in the store

RotationPlan ==
    [stage : {"prepare", "dual-read", "new-write", "reencrypt", "retire", "complete"},
     prepared : Actors \cup {NoActor}, reencrypted : Actors \cup {NoActor},
     retired : Actors \cup {NoActor}]

RotationInit ==
    /\ plan = [stage |-> "prepare", prepared |-> NoActor,
               reencrypted |-> NoActor, retired |-> NoActor]

Prepare(a) ==
    /\ plan.stage = "prepare" /\ a \in Custodians
    /\ plan' = [plan EXCEPT !.stage = "dual-read", !.prepared = a]

EnableNewWrites(a) ==
    /\ plan.stage = "dual-read" /\ a \in Operators /\ a # plan.prepared
    /\ plan' = [plan EXCEPT !.stage = "new-write"]

BeginReencryption(a) ==
    /\ plan.stage = "new-write" /\ a \in Operators /\ a # plan.prepared
    /\ plan' = [plan EXCEPT !.stage = "reencrypt"]

(* reencrypt_batch: the worker did a batch and says whether it was the      *)
(* last one; the plan remembers who ran the latest batch.                   *)
ReencryptBatch(a, complete) ==
    /\ plan.stage = "reencrypt" /\ a \in Operators
    /\ plan' = [plan EXCEPT !.stage = IF complete THEN "retire" ELSE @,
                            !.reencrypted = a]

(* Mutant of MayRetire: the gate is asked and its answer dropped.           *)
MayRetireUngated(a, gate) ==
    /\ a \in Custodians /\ a \notin {plan.prepared, plan.reencrypted}

MayRetire(a, gate) ==
    /\ a \in Custodians /\ a \notin {plan.prepared, plan.reencrypted}
    /\ gate

(* retire: an independent custodian, once the completion gate agrees.       *)
Retire(a, gate) ==
    /\ plan.stage = "retire" /\ MayRetire(a, gate)
    /\ plan' = [plan EXCEPT !.stage = "complete", !.retired = a]

-----------------------------------------------------------------------------
(* The memory of one tenant *)

CONSTANTS
    Memories,      \* memory ids of one tenant, in the order of their ids
    Writers,       \* processes that write memories
    Holds,         \* legal hold ids
    BatchLimit,    \* records in a rotation batch
    VersionBound   \* bound on the version of a record

ASSUME MemoryParameters == 
    /\ Memories \subseteq Nat \ {0}
    /\ BatchLimit \in Nat \ {0} /\ VersionBound \in Nat

VARIABLES
    mem,        \* memory_records and memory_search_terms
    request,    \* memory_deletion_requests: the latest of each memory
    hold,       \* memory_legal_holds: the memory held, 0 if none
    writer,     \* the key a process writes with
    seen        \* the version a curator saw of a quarantined record

memoryVars == <<mem, request, hold, writer, seen, plan>>

-----------------------------------------------------------------------------
(* The state *)

(* terms: the key versions the search terms of the record are stored under. *)
MemoryRecord ==
    [status : {"absent", "active", "quarantined", "revoked"},
     version : Nat, key : {"old", "new"}, terms : SUBSET {"old", "new"}]

DeletionRequest ==
    [status : {"none", "pending", "approving", "rejected", "purged"},
     previous : {"active", "quarantined"}]

LegalHold == Memories \cup {0}

NoRecord == [status |-> "absent", version |-> 0, key |-> "old", terms |-> {}]

MemoryInit ==
    /\ mem = [m \in Memories |-> NoRecord]
    /\ request = [m \in Memories |-> [status |-> "none", previous |-> "active"]]
    /\ hold = [h \in Holds |-> 0]
    /\ writer = [w \in Writers |-> "old"]
    /\ seen = [m \in Memories |-> 0]
    /\ RotationInit

Remembered(m) == mem[m].status # "absent"

(* The versions the keyring of every process holds: both while the plan     *)
(* runs (docs/configuration.md), the new one after retirement.              *)
Keyring == IF plan.stage = "complete" THEN {"new"} ELSE {"old", "new"}

-----------------------------------------------------------------------------
(* Writing and reviewing *)

(* MemoryAdmissionPolicy.assess: what is not denied is active or waits in   *)
(* quarantine.                                                              *)
Admission == {"active", "quarantined"}

(* write: add_idempotently stores the record, its claim and its search      *)
(* terms under every key of the keyring.  A purge removes the claim with    *)
(* the record, so a late repetition of the request stores it anew.          *)
Write(w, m, status) ==
    /\ ~Remembered(m) /\ status \in Admission
    /\ mem' = [mem EXCEPT ![m] = [status |-> status, version |-> 1,
                                  key |-> writer[w], terms |-> Keyring]]
    /\ UNCHANGED <<request, hold, writer, seen, plan>>

(* read_for_review shows a quarantined record and its version.              *)
ReadForReview(m) ==
    /\ mem[m].status = "quarantined"
    /\ seen' = [seen EXCEPT ![m] = mem[m].version]
    /\ UNCHANGED <<mem, request, hold, writer, plan>>

(* Mutant of Unmoved: the update names the record only.                     *)
UnmovedById(m, version) == Remembered(m) /\ version # 0

(* transition_status updates the record at the expected version and status. *)
Unmoved(m, version) == mem[m].status = "quarantined" /\ mem[m].version = version

ReviewMemory(m, approve) ==
    /\ seen[m] # 0 /\ Unmoved(m, seen[m])
    /\ mem' = [mem EXCEPT ![m].status = IF approve THEN "active" ELSE "revoked",
                          ![m].version = @ + 1]
    /\ seen' = [seen EXCEPT ![m] = 0]
    /\ UNCHANGED <<request, hold, writer, plan>>

-----------------------------------------------------------------------------
(* Deletion and legal holds *)

(* request_deletion revokes the record at once.                             *)
RequestDeletion(m) ==
    /\ mem[m].status \in {"active", "quarantined"}
    /\ mem[m].version < VersionBound
    /\ request' = [request EXCEPT ![m] = [status |-> "pending",
                                          previous |-> mem[m].status]]
    /\ mem' = [mem EXCEPT ![m].status = "revoked", ![m].version = @ + 1]
    /\ UNCHANGED <<hold, writer, seen, plan>>

RejectDeletion(m) ==
    /\ request[m].status = "pending"
    /\ request' = [request EXCEPT ![m].status = "rejected"]
    /\ mem' = [mem EXCEPT ![m].status = request[m].previous, ![m].version = @ + 1]
    /\ UNCHANGED <<hold, writer, seen, plan>>

Held(m) == \E h \in Holds : hold[h] = m

(* decide_deletion(approve) locks the request and reads the holds ...       *)
ApproveDeletion(m) ==
    /\ request[m].status = "pending" /\ ~Held(m)
    /\ request' = [request EXCEPT ![m].status = "approving"]
    /\ UNCHANGED <<mem, hold, writer, seen, plan>>

(* ... and deletes the record; its holds go with it (ON DELETE CASCADE).    *)
Purge(m) ==
    /\ request[m].status = "approving"
    /\ request' = [request EXCEPT ![m].status = "purged"]
    /\ mem' = [mem EXCEPT ![m] = NoRecord]
    /\ hold' = [h \in Holds |-> IF hold[h] = m THEN 0 ELSE hold[h]]
    /\ seen' = [seen EXCEPT ![m] = 0]
    /\ UNCHANGED <<writer, plan>>

CreateHold(h, m) ==
    /\ hold[h] = 0 /\ Remembered(m)
    /\ hold' = [hold EXCEPT ![h] = m]
    /\ UNCHANGED <<mem, request, writer, seen, plan>>

ReleaseHold(h) ==
    /\ hold[h] # 0
    /\ hold' = [hold EXCEPT ![h] = 0]
    /\ UNCHANGED <<mem, request, writer, seen, plan>>

-----------------------------------------------------------------------------
(* Keys and the search index *)

(* docs/configuration.md: every process is deployed with the new active key *)
(* before re-encryption begins.                                             *)
SwitchWriter(w) ==
    /\ plan.stage \in {"dual-read", "new-write"} /\ writer[w] = "old"
    /\ writer' = [writer EXCEPT ![w] = "new"]
    /\ UNCHANGED <<mem, request, hold, seen, plan>>

OldRecords == {m \in Memories : Remembered(m) /\ mem[m].key = "old"}

(* Mutant of Reencrypted: the search terms are not rebuilt.                 *)
ReencryptedOnly(S) ==
    [m \in Memories |-> IF m \in S
        THEN [mem[m] EXCEPT !.key = "new", !.version = @ + 1, !.terms = {"old"}]
        ELSE mem[m]]

(* A batch re-encrypts its records and rebuilds their search terms.         *)
Reencrypted(S) ==
    [m \in Memories |-> IF m \in S
        THEN [mem[m] EXCEPT !.key = "new", !.version = @ + 1, !.terms = Keyring]
        ELSE mem[m]]

(* rotate_batch as the worker of reencrypt_batch.  Rows locked by others    *)
(* are skipped, so the batch is any part of the old records, and a batch    *)
(* that comes back short is reported as the last one.                       *)
RotateBatch(a, S) ==
    /\ S \subseteq OldRecords
    /\ Cardinality(S) <= BatchLimit
    /\ ReencryptBatch(a, Cardinality(S) < BatchLimit)
    /\ mem' = Reencrypted(S)
    /\ UNCHANGED <<request, hold, writer, seen>>

(* The completion gate: no ciphertext of the old version is left.           *)
RetireKey(a) ==
    /\ Retire(a, OldRecords = {})
    /\ UNCHANGED <<mem, request, hold, writer, seen>>

(* reindex replaces the terms of a record, under every key of the keyring.  *)
(* (backfill_batch only adds terms to records that have none under the      *)
(* current key; every record here is written with its terms, so it finds    *)
(* none.)                                                                   *)
Reindex(m) ==
    /\ Remembered(m) /\ mem[m].key \in Keyring
    /\ mem' = [mem EXCEPT ![m].terms = Keyring]
    /\ UNCHANGED <<request, hold, writer, seen, plan>>

PlanStep ==
    /\ \E a \in Actors :
          \/ Prepare(a) \/ EnableNewWrites(a)
          \/ /\ \A w \in Writers : writer[w] = "new"
             /\ BeginReencryption(a)
    /\ UNCHANGED <<mem, request, hold, writer, seen>>

MemoryNext ==
    \/ \E w \in Writers, m \in Memories, s \in Admission : Write(w, m, s)
    \/ \E m \in Memories :
          \/ ReadForReview(m) \/ \E approve \in BOOLEAN : ReviewMemory(m, approve)
          \/ RequestDeletion(m) \/ RejectDeletion(m) \/ ApproveDeletion(m) \/ Purge(m)
          \/ Reindex(m)
    \/ \E h \in Holds : ReleaseHold(h) \/ \E m \in Memories : CreateHold(h, m)
    \/ \E w \in Writers : SwitchWriter(w)
    \/ PlanStep
    \/ \E a \in Actors : RetireKey(a) \/ \E S \in SUBSET OldRecords : RotateBatch(a, S)

MemorySpec == MemoryInit /\ [][MemoryNext]_memoryVars

-----------------------------------------------------------------------------
(* Properties *)

(* From request_deletion to the decision a record stays out of recall,      *)
(* whatever a curator who saw it earlier, the rotation or the index do      *)
(* with it meanwhile.                                                       *)
PendingStaysRevoked ==
    \A m \in Memories :
        request[m].status \in {"pending", "approving"} => mem[m].status = "revoked"

(* Every stored record can be decrypted and found by search with the keys   *)
(* that are left, before, during and after a rotation in which batches skip *)
(* locked rows and report themselves complete too early.                    *)
StoredIsReadable ==
    \A m \in Memories : Remembered(m) => mem[m].key \in Keyring /\ mem[m].terms \cap Keyring # {}

(* The records, their deletion requests and holds, and the rotation plan.   *)
MemoryTypeOK ==
    /\ mem \in [Memories -> MemoryRecord]
    /\ request \in [Memories -> DeletionRequest]
    /\ hold \in [Holds -> LegalHold]
    /\ plan \in RotationPlan

(* A memory somebody asked to delete stays out of recall, and one that is   *)
(* kept stays readable, through reviews, holds and a rotation of the key.   *)
MemoryIsKept == MemoryTypeOK /\ PendingStaysRevoked /\ StoredIsReadable
=============================================================================
