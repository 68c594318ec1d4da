------------------------ MODULE InfrastructureProofs ------------------------
(* Machine-checked proofs about the platform's services: the audit log, the *)
(* gateway of the models, retention, the assembly of contexts, the          *)
(* verification of identities, the approvals and the connectors. Each part  *)
(* states an inductive invariant and shows that every action keeps it.      *)
EXTENDS AuditLog, Gateway, Retention, ContextAssembly, WorkerIdentity,
        Approvals, Connectors, FiniteSetTheorems, TLAPS

-----------------------------------------------------------------------------
(* AuditLog                                                                 *)

AuditRow ==
    [sequence : Nat, id : EventIds, payload : Payloads, previous : Seq(Payloads),
     hash : Seq(Payloads), signature : [key : SigningKeys, over : Seq(Payloads)]]

(* The head is that of the chain in the table, and the chain holds.         *)
HeadEndsChain ==
    /\ events \in Seq(AuditRow)
    /\ ChainHolds(events)
    /\ head = [sequence |-> Len(events), hash |-> Recomputed(events, Len(events))]

(* One transaction has the head, and its row is the one after the head.     *)
RowFollowsHead ==
    /\ appends = [w \in AuditWriters |-> appends[w]]
    /\ \A w, x \in AuditWriters : appends[w].stage # "idle" /\ appends[x].stage # "idle" => w = x
    /\ \A w \in AuditWriters : appends[w].stage = "inserted" =>
          \E id \in EventIds, payload \in Payloads, key \in SigningKeys :
              appends[w].row = NextRow(id, payload, key)

(* A verification that was not overtaken has read the rows that are there.  *)
ReadersAreCurrent ==
    \A v \in Verifiers :
        /\ verifications[v] \in [stage : {"idle", "rows_read", "verified", "alarm"},
                                 rows : {verifications[v].rows}, overtaken : BOOLEAN]
        /\ verifications[v].stage = "rows_read" /\ ~verifications[v].overtaken =>
              verifications[v].rows = events

AuditInv ==
    /\ HeadEndsChain /\ RowFollowsHead /\ ReadersAreCurrent
    /\ verifications = [v \in Verifiers |-> verifications[v]]
    /\ AlarmOnlyWhenOvertaken

(* The chain is empty and no call is under way at first.                    *)
LEMMA AuditInvInit == AuditInit => AuditInv
  <1> SUFFICES ASSUME AuditInit PROVE AuditInv OBVIOUS
  <1>1. Recomputed(<< >>, 0) = << >> BY DEF Recomputed
  <1>2. HeadEndsChain
    BY <1>1 DEF AuditInit, HeadEndsChain, ChainHolds, NoHead, ZeroHash
  <1>3. RowFollowsHead BY DEF AuditInit, RowFollowsHead, NoAppend
  <1>4. ReadersAreCurrent /\ AlarmOnlyWhenOvertaken
    BY DEF AuditInit, ReadersAreCurrent, AlarmOnlyWhenOvertaken, NoVerification
  <1> QED BY <1>2, <1>3, <1>4 DEF AuditInit, AuditInv

(* Every hash of the chain is a sequence of payloads.                       *)
LEMMA RecomputedSeq ==
    ASSUME NEW rows \in Seq(AuditRow), NEW n \in 0 .. Len(rows)
    PROVE  /\ Recomputed(rows, n) \in Seq(Payloads) /\ Len(Recomputed(rows, n)) = n
  <1>1. ASSUME NEW i \in 1..n PROVE rows[i].payload \in Payloads
    <2>1. rows[i] \in AuditRow OBVIOUS
    <2> QED BY <2>1 DEF AuditRow
  <1>2. Recomputed(rows, n) \in [1..n -> Payloads] BY <1>1 DEF Recomputed
  <1> QED BY <1>2

(* The hash of a row over the chain before it is the chain with it.         *)
LEMMA ChainExtends ==
    ASSUME HeadEndsChain, NEW id \in EventIds, NEW payload \in Payloads, NEW key \in SigningKeys
    PROVE  LET row == NextRow(id, payload, key)
               rows == Append(events, row)
           IN  /\ rows \in Seq(AuditRow) /\ ChainHolds(rows)
               /\ HeadAfter(row) = [sequence |-> Len(rows), hash |-> Recomputed(rows, Len(rows))]
  <1> DEFINE row == NextRow(id, payload, key)
             rows == Append(events, row)
             n == Len(events)
  <1>1. /\ events \in Seq(AuditRow) /\ n \in Nat
        /\ head.sequence = n /\ head.hash = Recomputed(events, n)
        /\ \A i \in 1..n : RowHolds(events, i)
    BY DEF HeadEndsChain, ChainHolds
  <1>2. Recomputed(events, n) \in Seq(Payloads) /\ Len(Recomputed(events, n)) = n
    BY <1>1, RecomputedSeq
  <1>3. Append(Recomputed(events, n), payload) \in Seq(Payloads) BY <1>2
  <1>4. /\ row.sequence = n + 1 /\ row.payload = payload /\ row.previous = Recomputed(events, n)
        /\ row.hash = Append(Recomputed(events, n), payload)
        /\ row.signature.key = key /\ row.signature.over = row.hash
        /\ row \in AuditRow
    BY <1>1, <1>2, <1>3 DEF NextRow, EventHash, AuditRow
  <1> HIDE DEF row
  <1>5. /\ rows \in Seq(AuditRow) /\ Len(rows) = n + 1 /\ rows[n + 1] = row
        /\ \A i \in 1..n : rows[i] = events[i]
    BY <1>1, <1>4
  <1>6. \A i \in 0..n : Recomputed(rows, i) = Recomputed(events, i)
    BY <1>1, <1>5 DEF Recomputed
  <1>7. Recomputed(rows, n + 1) = Append(Recomputed(events, n), payload)
    <2> DEFINE short == Recomputed(events, n)
               long == Recomputed(rows, n + 1)
    <2>0. n + 1 \in 0 .. Len(rows) /\ rows \in Seq(AuditRow) BY <1>1, <1>5
    <2> HIDE DEF rows, n
    <2>1. long \in Seq(Payloads) /\ Len(long) = n + 1 BY <2>0, RecomputedSeq
    <2>2. \A i \in 1..n : long[i] = short[i] BY <1>1, <1>5 DEF Recomputed
    <2>3. long[n + 1] = payload BY <1>1, <1>4, <1>5 DEF Recomputed
    <2> HIDE DEF short, long
    <2>4. short \in Seq(Payloads) /\ Len(short) = n BY <1>2 DEF short
    <2>5. long = Append(short, payload) BY <1>1, <2>1, <2>2, <2>3, <2>4
    <2> QED BY <2>5 DEF short, long
  <1> HIDE DEF rows
  <1>8. ASSUME NEW i \in 1..n PROVE RowHolds(rows, i)
    <2>1. i \in 0..n /\ i - 1 \in 0..n BY <1>1
    <2>2. RowHolds(events, i) BY <1>1
    <2> QED BY <1>5, <1>6, <2>1, <2>2 DEF RowHolds
  <1>9. RowHolds(rows, n + 1)
    <2>1. n \in 0..n /\ (n + 1) - 1 = n BY <1>1
    <2> QED BY <1>1, <1>4, <1>5, <1>6, <1>7, <2>1, AuditAssumption DEF RowHolds
  <1>10. ChainHolds(rows) BY <1>1, <1>5, <1>8, <1>9 DEF ChainHolds
  <1>11. HeadAfter(row) = [sequence |-> Len(rows), hash |-> Recomputed(rows, Len(rows))]
    BY <1>4, <1>5, <1>7 DEF HeadAfter
  <1> QED BY <1>5, <1>10, <1>11 DEF rows, row

(* A step that writes no event keeps the chain.                             *)
LEMMA ChainStays ==
    ASSUME HeadEndsChain, UNCHANGED <<events, head>>
    PROVE  HeadEndsChain'
  <1> QED BY DEF HeadEndsChain

(* append signs a row after the head it has read; it is not committed yet.  *)
LEMMA AppendKeeps ==
    ASSUME AuditInv, NEW w \in AuditWriters, NEW id \in EventIds, NEW payload \in Payloads,
           NEW key \in SigningKeys, AppendEvent(w, id, payload, key)
    PROVE  AuditInv'
  <1>1. UNCHANGED <<events, head, verifications>> BY DEF AppendEvent
  <1>2. PICK new : /\ appends' = [appends EXCEPT ![w] = new]
                   /\ new.stage = "inserted" => new.row = NextRow(id, payload, key)
    BY DEF AppendEvent
  <1>3. /\ \A x \in AuditWriters : appends[x].stage = "idle"
        /\ appends = [x \in AuditWriters |-> appends[x]]
    BY DEF AppendEvent, HeadLocked, AuditInv, RowFollowsHead
  <1>4. appends' = [x \in AuditWriters |-> IF x = w THEN new ELSE appends[x]]
    BY <1>2, <1>3
  <1>5. RowFollowsHead' BY <1>1, <1>2, <1>3, <1>4 DEF RowFollowsHead, NextRow
  <1>6. HeadEndsChain' /\ ReadersAreCurrent' /\ AlarmOnlyWhenOvertaken'
    BY <1>1, ChainStays DEF AuditInv, ReadersAreCurrent, AlarmOnlyWhenOvertaken
  <1> QED BY <1>1, <1>5, <1>6 DEF AuditInv

(* A writer that ends without a new event, replayed or rolled back, leaves  *)
(* the chain as it is.                                                      *)
LEMMA ReleaseKeeps ==
    ASSUME AuditInv, NEW w \in AuditWriters, appends' = [appends EXCEPT ![w] = NoAppend],
           UNCHANGED <<events, head, verifications>>
    PROVE  AuditInv'
  <1>1. RowFollowsHead' BY DEF AuditInv, RowFollowsHead, NextRow, NoAppend
  <1>2. HeadEndsChain' /\ ReadersAreCurrent' /\ AlarmOnlyWhenOvertaken'
    BY ChainStays DEF AuditInv, ReadersAreCurrent, AlarmOnlyWhenOvertaken
  <1> QED BY <1>1, <1>2 DEF AuditInv

(* A commit publishes the row and moves the head with it.                   *)
LEMMA CommitKeeps ==
    ASSUME AuditInv, NEW w \in AuditWriters, CommitAppend(w)
    PROVE  AuditInv'
  <1>1. CASE appends[w].stage = "replayed"
    BY <1>1, ReleaseKeeps DEF CommitAppend
  <1>2. CASE appends[w].stage = "inserted"
    <2>1. /\ events' = Append(events, appends[w].row) /\ head' = HeadAfter(appends[w].row)
          /\ appends' = [appends EXCEPT ![w] = NoAppend]
          /\ verifications' = [v \in Verifiers |->
                [verifications[v] EXCEPT !.overtaken =
                    verifications[v].overtaken \/ verifications[v].stage = "rows_read"]]
      BY <1>2 DEF CommitAppend
    <2>2. PICK id \in EventIds, payload \in Payloads, key \in SigningKeys :
            appends[w].row = NextRow(id, payload, key)
      BY <1>2 DEF AuditInv, RowFollowsHead
    <2>3. HeadEndsChain'
      <3> DEFINE row == NextRow(id, payload, key)
                 rows == Append(events, row)
      <3>1. /\ rows \in Seq(AuditRow) /\ ChainHolds(rows)
            /\ HeadAfter(row) = [sequence |-> Len(rows), hash |-> Recomputed(rows, Len(rows))]
        BY ChainExtends DEF AuditInv
      <3>2. events' = rows /\ head' = HeadAfter(row) BY <2>1, <2>2
      <3> HIDE DEF rows, row
      <3> QED BY <3>1, <3>2 DEF HeadEndsChain
    <2>4. \A x \in AuditWriters : appends'[x].stage = "idle"
      BY <1>2, <2>1 DEF AuditInv, RowFollowsHead, NoAppend
    <2>5. RowFollowsHead' BY <2>1, <2>4 DEF AuditInv, RowFollowsHead
    <2>6. ASSUME NEW v \in Verifiers
          PROVE  /\ verifications'[v] \in [stage : {"idle", "rows_read", "verified", "alarm"},
                                           rows : {verifications'[v].rows}, overtaken : BOOLEAN]
                 /\ verifications'[v].stage = "rows_read" => verifications'[v].overtaken
                 /\ verifications'[v].stage = "alarm" => verifications'[v].overtaken
      <3> DEFINE old == verifications[v]
                 new == [old EXCEPT !.overtaken = old.overtaken \/ old.stage = "rows_read"]
      <3>1. /\ old \in [stage : {"idle", "rows_read", "verified", "alarm"},
                        rows : {old.rows}, overtaken : BOOLEAN]
            /\ old.stage = "alarm" => old.overtaken
        BY DEF AuditInv, ReadersAreCurrent, AlarmOnlyWhenOvertaken
      <3>2. verifications'[v] = new BY <2>1
      <3> HIDE DEF old
      <3>3. /\ new \in [stage : {"idle", "rows_read", "verified", "alarm"},
                        rows : {new.rows}, overtaken : BOOLEAN]
            /\ new.stage = old.stage
            /\ new.overtaken = (old.overtaken \/ old.stage = "rows_read")
        BY <3>1
      <3> QED BY <3>1, <3>2, <3>3
    <2>7. ReadersAreCurrent' /\ AlarmOnlyWhenOvertaken'
      BY <2>6 DEF ReadersAreCurrent, AlarmOnlyWhenOvertaken
    <2> QED BY <2>1, <2>3, <2>5, <2>7 DEF AuditInv
  <1> QED BY <1>1, <1>2 DEF CommitAppend

(* A verifier reads the rows; the head may move before it is read.          *)
LEMMA ReadRowsKeeps ==
    ASSUME AuditInv, NEW v \in Verifiers, ReadRows(v)
    PROVE  AuditInv'
  <1> DEFINE new == [stage |-> "rows_read", rows |-> events, overtaken |-> FALSE]
  <1>1. UNCHANGED <<events, head, appends>> /\ verifications' = [verifications EXCEPT ![v] = new]
    BY DEF ReadRows
  <1>2. /\ verifications'[v] = new
        /\ \A u \in Verifiers : u # v => verifications'[u] = verifications[u]
        /\ verifications' = [u \in Verifiers |-> verifications'[u]]
    BY <1>1 DEF AuditInv
  <1>3. ReadersAreCurrent' /\ AlarmOnlyWhenOvertaken'
    BY <1>1, <1>2 DEF AuditInv, ReadersAreCurrent, AlarmOnlyWhenOvertaken
  <1>4. RowFollowsHead' /\ HeadEndsChain'
    BY <1>1, ChainStays DEF AuditInv, RowFollowsHead, NextRow
  <1> QED BY <1>2, <1>3, <1>4 DEF AuditInv

(* Who has read the rows that are there finds the chain in order.           *)
LEMMA ReadHeadKeeps ==
    ASSUME AuditInv, NEW v \in Verifiers, ReadHead(v)
    PROVE  AuditInv'
  <1> DEFINE old == verifications[v]
             result == IF /\ ChainHolds(old.rows)
                          /\ head = [sequence |-> Len(old.rows),
                                     hash |-> Recomputed(old.rows, Len(old.rows))]
                       THEN "verified" ELSE "alarm"
             new == [old EXCEPT !.stage = result]
  <1>1. /\ UNCHANGED <<events, head, appends>> /\ old.stage = "rows_read"
        /\ verifications' = [verifications EXCEPT ![v].stage = result]
    BY DEF ReadHead
  <1>2. old.overtaken \/ result = "verified"
    BY <1>1 DEF AuditInv, ReadersAreCurrent, HeadEndsChain
  <1>3. result \in {"verified", "alarm"} OBVIOUS
  <1> HIDE DEF result
  <1>4. verifications' = [verifications EXCEPT ![v] = new] BY <1>1
  <1>5. old \in [stage : {"idle", "rows_read", "verified", "alarm"}, rows : {old.rows}, overtaken : BOOLEAN]
    BY DEF AuditInv, ReadersAreCurrent
  <1>6. /\ new \in [stage : {"idle", "rows_read", "verified", "alarm"}, rows : {new.rows}, overtaken : BOOLEAN]
        /\ new.stage = result /\ new.overtaken = old.overtaken
    BY <1>3, <1>5
  <1> HIDE DEF new
  <1>7. /\ verifications'[v] = new
        /\ \A u \in Verifiers : u # v => verifications'[u] = verifications[u]
        /\ verifications' = [u \in Verifiers |-> verifications'[u]]
    BY <1>4 DEF AuditInv
  <1>8. ReadersAreCurrent'
    BY <1>1, <1>3, <1>6, <1>7 DEF AuditInv, ReadersAreCurrent
  <1>9. AlarmOnlyWhenOvertaken'
    BY <1>2, <1>6, <1>7 DEF AuditInv, AlarmOnlyWhenOvertaken
  <1>10. RowFollowsHead' /\ HeadEndsChain'
    BY <1>1, ChainStays DEF AuditInv, RowFollowsHead, NextRow
  <1> QED BY <1>7, <1>8, <1>9, <1>10 DEF AuditInv

(* verify_tenant_chain_in_transaction reads the rows and the head in two    *)
(* statements: a chain that only append has written raises an alarm only if *)
(* an append committed between them, for any number of writers, verifiers   *)
(* and events.                                                              *)
THEOREM AlarmsAreOvertaken == AuditSpec => []AlarmOnlyWhenOvertaken
  <1>1. AuditInv /\ [AuditNext]_auditVars => AuditInv'
    <2> SUFFICES ASSUME AuditInv, [AuditNext]_auditVars PROVE AuditInv' OBVIOUS
    <2>1. CASE UNCHANGED auditVars
      <3>1. UNCHANGED <<events, head, appends, verifications>> BY <2>1 DEF auditVars
      <3>2. RowFollowsHead' /\ HeadEndsChain'
        BY <3>1, ChainStays DEF AuditInv, RowFollowsHead, NextRow
      <3>3. ReadersAreCurrent' /\ AlarmOnlyWhenOvertaken'
        BY <3>1 DEF AuditInv, ReadersAreCurrent, AlarmOnlyWhenOvertaken
      <3> QED BY <3>1, <3>2, <3>3 DEF AuditInv
    <2>2. ASSUME NEW w \in AuditWriters, RollBackAppend(w) PROVE AuditInv'
      BY <2>2, ReleaseKeeps DEF RollBackAppend
    <2> QED BY <2>1, <2>2, AppendKeeps, CommitKeeps, ReadRowsKeeps, ReadHeadKeeps DEF AuditNext
  <1>2. AuditInv => AlarmOnlyWhenOvertaken BY DEF AuditInv
  <1> QED BY <1>1, <1>2, AuditInvInit, PTL DEF AuditSpec

-----------------------------------------------------------------------------
(* Gateway                                                                  *)

(* The text that reached the caller is that of the candidate at hand.       *)
HeardFromCurrent(call) ==
    /\ call \in [stage : {"new", "waiting", "calling", "answered", "ended"},
                 stream : {call.stream}, left : {call.left}, text : BOOLEAN,
                 heard : {call.heard}, outcome : {call.outcome}]
    /\ call.stage \in {"new", "waiting"} => call.heard = {} /\ ~call.text
    /\ call.stage = "calling" =>
          call.heard = IF call.text THEN {Head(call.left)} ELSE {}
    /\ call.stage \in {"answered", "ended"} => \E p : call.heard \subseteq {p}

GatewayInv ==
    /\ DOMAIN calls = ModelCalls /\ calls = [c \in ModelCalls |-> calls[c]]
    /\ \A c \in ModelCalls : HeardFromCurrent(calls[c])

(* No call has begun, no text was heard.                                    *)
LEMMA GatewayInvInit == GatewayInit => GatewayInv
  <1>1. HeardFromCurrent(NewCall) BY DEF NewCall, HeardFromCurrent
  <1> QED BY <1>1 DEF GatewayInit, GatewayInv

(* One call changes, and keeps to one provider.                             *)
LEMMA OneCallMoves ==
    ASSUME GatewayInv, NEW c \in ModelCalls, NEW new, HeardFromCurrent(new),
           calls' = [calls EXCEPT ![c] = new]
    PROVE  GatewayInv'
  BY DEF GatewayInv

(* A call that ends has heard what it had heard.                            *)
LEMMA EndedHeard ==
    ASSUME GatewayInv, NEW c \in ModelCalls, NEW outcome, calls' = Ended(c, outcome)
    PROVE  GatewayInv'
  <1> DEFINE new == [calls[c] EXCEPT !.stage = "ended", !.outcome = outcome]
  <1>1. HeardFromCurrent(calls[c]) BY DEF GatewayInv
  <1>3. \E p : calls[c].heard \subseteq {p} BY <1>1 DEF HeardFromCurrent
  <1>4. HeardFromCurrent(new) BY <1>1, <1>3 DEF HeardFromCurrent
  <1>5. calls' = [calls EXCEPT ![c] = new] BY DEF Ended, GatewayInv
  <1> QED BY <1>4, <1>5, OneCallMoves

(* Every step of a call keeps what is said of all calls.                    *)
LEMMA GatewayStepKeeps ==
    ASSUME GatewayInv, NEW c \in ModelCalls,
           \/ \E stream \in BOOLEAN : Route(c, stream)
           \/ Acquire(c) \/ WaitTimesOut(c) \/ EmitText(c) \/ ProviderAnswers(c)
           \/ \E retryable \in BOOLEAN : ProviderFails(c, retryable)
           \/ CloseStream(c) \/ CancelCall(c)
    PROVE  GatewayInv'
  <1> DEFINE old == calls[c]
  <1>1. /\ HeardFromCurrent(old)
        /\ calls = [x \in ModelCalls |-> calls[x]]
    BY DEF GatewayInv, HeardFromCurrent
  <1>2. ASSUME NEW stream \in BOOLEAN, Route(c, stream) PROVE GatewayInv'
    <2>1. CASE Candidates(FALSE, FALSE) = << >>
      BY <1>2, <2>1, EndedHeard DEF Route
    <2>2. CASE Candidates(FALSE, FALSE) # << >>
      <3> DEFINE left == FirstTries(Candidates(FALSE, FALSE))
                 new == [old EXCEPT !.stage = "waiting", !.stream = stream, !.left = left]
      <3>1. calls' = [calls EXCEPT ![c].stage = "waiting", ![c].stream = stream, ![c].left = left]
        BY <1>2, <2>2 DEF Route
      <3> HIDE DEF left
      <3>2. calls' = [calls EXCEPT ![c] = new] BY <3>1, <1>1
      <3>3. old.stage = "new" BY <1>2 DEF Route
      <3>4. HeardFromCurrent(new) BY <1>1, <3>3 DEF HeardFromCurrent
      <3> QED BY <3>2, <3>4, OneCallMoves
    <2> QED BY <2>1, <2>2
  <1>3. ASSUME Acquire(c) PROVE GatewayInv'
    <2> DEFINE new == [old EXCEPT !.stage = "calling"]
    <2>1. calls' = [calls EXCEPT ![c] = new] /\ old.stage = "waiting" BY <1>3, <1>1 DEF Acquire
    <2>2. HeardFromCurrent(new) BY <1>1, <2>1 DEF HeardFromCurrent
    <2> QED BY <2>1, <2>2, OneCallMoves
  <1>4. ASSUME NEW retryable \in BOOLEAN, AttemptFails(c, retryable),
               old.stage \in {"waiting", "calling"}
        PROVE  GatewayInv'
    <2>1. CASE FailsOver(old, retryable)
      <3> DEFINE new == [old EXCEPT !.stage = "waiting", !.text = FALSE, !.left = Tail(old.left)]
      <3>1. calls' = [calls EXCEPT ![c] = new] BY <1>1, <1>4, <2>1 DEF AttemptFails
      <3>2. ~old.text BY <2>1 DEF FailsOver
      <3>3. old.heard = {} BY <1>1, <1>4, <3>2 DEF HeardFromCurrent
      <3>4. HeardFromCurrent(new) BY <1>1, <3>3 DEF HeardFromCurrent
      <3> QED BY <3>1, <3>4, OneCallMoves
    <2>2. CASE ~FailsOver(old, retryable)
      BY <1>4, <2>2, EndedHeard DEF AttemptFails
    <2> QED BY <2>1, <2>2
  <1>5. ASSUME WaitTimesOut(c) PROVE GatewayInv'
    BY <1>4, <1>5 DEF WaitTimesOut
  <1>6. ASSUME NEW retryable \in BOOLEAN, ProviderFails(c, retryable) PROVE GatewayInv'
    BY <1>4, <1>6 DEF ProviderFails
  <1>7. ASSUME EmitText(c) PROVE GatewayInv'
    <2> DEFINE new == [old EXCEPT !.text = TRUE, !.heard = old.heard \cup {Head(old.left)}]
    <2>1. calls' = [calls EXCEPT ![c] = new] /\ old.stage = "calling"
      BY <1>7, <1>1 DEF EmitText, Current
    <2>2. old.heard \cup {Head(old.left)} = {Head(old.left)}
      BY <1>1, <2>1 DEF HeardFromCurrent
    <2>3. HeardFromCurrent(new) BY <1>1, <2>1, <2>2 DEF HeardFromCurrent
    <2> QED BY <2>1, <2>3, OneCallMoves
  <1>8. ASSUME ProviderAnswers(c) PROVE GatewayInv'
    <2> DEFINE stage == IF old.stream THEN "answered" ELSE "ended"
               new == [old EXCEPT !.stage = stage, !.outcome = "answered",
                                  !.heard = old.heard \cup {Head(old.left)}]
    <2>1. calls' = [calls EXCEPT ![c] = new] /\ old.stage = "calling"
      BY <1>8, <1>1 DEF ProviderAnswers, Current
    <2>2. old.heard \cup {Head(old.left)} \subseteq {Head(old.left)}
      BY <1>1, <2>1 DEF HeardFromCurrent
    <2>3. HeardFromCurrent(new) BY <1>1, <2>2 DEF HeardFromCurrent
    <2> QED BY <2>1, <2>3, OneCallMoves
  <1>9. ASSUME CloseStream(c) PROVE GatewayInv'
    <2> DEFINE new == [old EXCEPT !.stage = "ended"]
    <2>1. calls' = [calls EXCEPT ![c] = new] BY <1>9, <1>1 DEF CloseStream
    <2>2. \E p : old.heard \subseteq {p} BY <1>1 DEF HeardFromCurrent
    <2>3. HeardFromCurrent(new) BY <1>1, <2>2 DEF HeardFromCurrent
    <2> QED BY <2>1, <2>3, OneCallMoves
  <1>10. ASSUME CancelCall(c) PROVE GatewayInv'
    BY <1>10, EndedHeard DEF CancelCall
  <1> QED BY <1>2, <1>3, <1>5, <1>6, <1>7, <1>8, <1>9, <1>10

(* The text a caller receives comes from one provider: stream_routed        *)
(* replays a request elsewhere only before it has passed text on, and       *)
(* complete_routed answers once.                                            *)
THEOREM CallersHearOneVoice == GatewaySpec => []OneVoice
  <1>1. GatewayInv /\ [GatewayNext]_gatewayVars => GatewayInv'
    <2> SUFFICES ASSUME GatewayInv, [GatewayNext]_gatewayVars PROVE GatewayInv' OBVIOUS
    <2>1. CASE UNCHANGED calls BY <2>1 DEF GatewayInv
    <2> QED BY <2>1, GatewayStepKeeps DEF GatewayNext, gatewayVars, CooldownPasses
  <1>2. GatewayInv => OneVoice
    <2> SUFFICES ASSUME GatewayInv, NEW c \in ModelCalls PROVE Cardinality(calls[c].heard) <= 1
      BY DEF OneVoice
    <2>1. \E p : calls[c].heard \subseteq {p}
      BY DEF GatewayInv, HeardFromCurrent
    <2>2. PICK p : calls[c].heard = {} \/ calls[c].heard = {p} BY <2>1
    <2>3. Cardinality({}) = 0 /\ Cardinality({p}) = 1 BY FS_EmptySet, FS_Singleton
    <2> QED BY <2>2, <2>3
  <1> QED BY <1>1, <1>2, GatewayInvInit, PTL DEF GatewaySpec

-----------------------------------------------------------------------------
(* Retention                                                                *)

(* An entry of the ledger: an action under a key, in a life.                *)
LedgerEntry(e) ==
    e \in [key : [batch : {e.key.batch}, holds : {e.key.holds}, target : {e.key.target}], life : Nat]

RunRow == [batch : RetentionBatches \cup {"none"}, holds : SUBSET Targets, left : SUBSET Targets]

RetentionTypes ==
    /\ life \in Nat /\ legalHolds \subseteq Targets
    /\ fingerprints \in [RetentionBatches -> [seen : BOOLEAN, holds : SUBSET Targets]]
    /\ batchRun \in RunRow
    /\ \A e \in storage : LedgerEntry(e)

(* What was done in this life was done under the fingerprint of its batch,  *)
(* and the run under way is one of that fingerprint.                        *)
ActsUnderFingerprint ==
    /\ batchRun.left # {} =>
          /\ batchRun.batch \in RetentionBatches
          /\ fingerprints[batchRun.batch] = [seen |-> TRUE, holds |-> batchRun.holds]
    /\ \A e \in storage :
          /\ e.life <= life
          /\ e.life = life =>
                /\ e.key.batch \in RetentionBatches
                /\ fingerprints[e.key.batch] = [seen |-> TRUE, holds |-> e.key.holds]

RetentionInv == RetentionTypes /\ ActsUnderFingerprint /\ BatchActsOnce

(* No batch was run and nothing was acted on at first.                      *)
LEMMA RetentionInvInit == RetentionInit => RetentionInv
  <1> SUFFICES ASSUME RetentionInit PROVE RetentionInv OBVIOUS
  <1>1. RetentionTypes
    BY DEF RetentionInit, RetentionTypes, RunRow, NoFingerprint, NoRun
  <1>2. ActsUnderFingerprint /\ BatchActsOnce
    BY DEF RetentionInit, ActsUnderFingerprint, BatchActsOnce, NoRun
  <1> QED BY <1>1, <1>2 DEF RetentionInv

(* The ledger and what it was filled under stay.                            *)
LEMMA LedgerStays ==
    ASSUME RetentionInv, UNCHANGED <<fingerprints, storage, life>>,
           legalHolds' \subseteq Targets, batchRun' \in RunRow,
           batchRun'.left = {} \/ /\ batchRun'.left \subseteq batchRun.left
                                  /\ batchRun'.batch = batchRun.batch
                                  /\ batchRun'.holds = batchRun.holds
    PROVE  RetentionInv'
  <1>1. RetentionTypes' BY DEF RetentionInv, RetentionTypes
  <1>2. ActsUnderFingerprint' BY DEF RetentionInv, ActsUnderFingerprint
  <1>3. BatchActsOnce' BY DEF RetentionInv, BatchActsOnce
  <1> QED BY <1>1, <1>2, <1>3 DEF RetentionInv

(* Advancing a run leaves its batch and its snapshot of the holds alone.    *)
LEMMA AdvancedRun ==
    ASSUME RetentionInv, Advance
    PROVE  /\ batchRun' \in RunRow /\ batchRun'.left \subseteq batchRun.left
           /\ batchRun'.batch = batchRun.batch /\ batchRun'.holds = batchRun.holds
  BY DEF Advance, RetentionInv, RetentionTypes, RunRow

(* A batch that was run before is run again only under the same holds.      *)
LEMMA StartRunKeeps ==
    ASSUME RetentionInv, NEW b \in RetentionBatches, StartRun(b)
    PROVE  RetentionInv'
  <1> DEFINE row == [seen |-> TRUE, holds |-> legalHolds]
             run == [batch |-> b, holds |-> legalHolds, left |-> Targets]
  <1>1. /\ fingerprints' = [fingerprints EXCEPT ![b] = row] /\ batchRun' = run
        /\ UNCHANGED <<legalHolds, storage, life>>
        /\ fingerprints[b].seen => fingerprints[b].holds = legalHolds
    BY DEF StartRun, SameInput
  <1>2. legalHolds \subseteq Targets /\ fingerprints \in [RetentionBatches -> [seen : BOOLEAN, holds : SUBSET Targets]]
    BY DEF RetentionInv, RetentionTypes
  <1>3. row \in [seen : BOOLEAN, holds : SUBSET Targets] /\ run \in RunRow
    BY <1>2 DEF RunRow
  <1>4. /\ fingerprints' \in [RetentionBatches -> [seen : BOOLEAN, holds : SUBSET Targets]]
        /\ fingerprints'[b] = row
        /\ \A a \in RetentionBatches : fingerprints[a].seen => fingerprints'[a] = fingerprints[a]
    BY <1>1, <1>2, <1>3
  <1>5. RetentionTypes' BY <1>1, <1>3, <1>4 DEF RetentionInv, RetentionTypes
  <1>6. ActsUnderFingerprint'
    BY <1>1, <1>4 DEF RetentionInv, ActsUnderFingerprint
  <1>7. BatchActsOnce' BY <1>1 DEF RetentionInv, BatchActsOnce
  <1> QED BY <1>5, <1>6, <1>7 DEF RetentionInv

(* An action under the fingerprint of the run is new, or was done before.   *)
LEMMA PerformKeeps ==
    ASSUME RetentionInv, batchRun.left # {}, Perform, Advance,
           UNCHANGED <<legalHolds, fingerprints, life>>
    PROVE  RetentionInv'
  <1> DEFINE key == [batch |-> batchRun.batch, holds |-> batchRun.holds, target |-> NextTarget]
             new == [key |-> key, life |-> life]
  <1>1. \/ storage' = storage
        \/ storage' = storage \cup {new} /\ ~\E e \in storage : e.key = key
    BY DEF Perform
  <1>2. CASE storage' = storage BY <1>2, AdvancedRun, LedgerStays DEF RetentionInv, RetentionTypes
  <1>3. CASE storage' = storage \cup {new} /\ ~\E e \in storage : e.key = key
    <2>1. /\ batchRun.batch \in RetentionBatches
          /\ fingerprints[batchRun.batch] = [seen |-> TRUE, holds |-> batchRun.holds]
          /\ life \in Nat
      BY DEF RetentionInv, RetentionTypes, ActsUnderFingerprint
    <2>2. LedgerEntry(new) BY <2>1 DEF LedgerEntry
    <2>3. /\ new.life = life /\ new.key = key /\ key.batch = batchRun.batch
          /\ key.holds = batchRun.holds
      OBVIOUS
    <2>4. RetentionTypes'
      BY <1>3, <2>2, AdvancedRun DEF RetentionInv, RetentionTypes, LedgerEntry
    <2>5. ActsUnderFingerprint'
      <3>1. batchRun'.left # {} =>
              /\ batchRun'.batch \in RetentionBatches
              /\ fingerprints'[batchRun'.batch] = [seen |-> TRUE, holds |-> batchRun'.holds]
        BY <2>1, AdvancedRun
      <3>2. ASSUME NEW e \in storage'
            PROVE  /\ e.life <= life
                   /\ e.life = life =>
                         /\ e.key.batch \in RetentionBatches
                         /\ fingerprints[e.key.batch] = [seen |-> TRUE, holds |-> e.key.holds]
        <4>1. CASE e \in storage BY <4>1 DEF RetentionInv, ActsUnderFingerprint
        <4>2. CASE e = new
          <5>1. e.life = life /\ e.key.batch = batchRun.batch /\ e.key.holds = batchRun.holds
            BY <2>3, <4>2
          <5>2. e.life <= life BY <2>1, <5>1
          <5> QED BY <2>1, <5>1, <5>2
        <4> QED BY <1>3, <4>1, <4>2
      <3>3. \A e \in storage' :
              /\ e.life <= life'
              /\ e.life = life' =>
                    /\ e.key.batch \in RetentionBatches
                    /\ fingerprints'[e.key.batch] = [seen |-> TRUE, holds |-> e.key.holds]
        BY <3>2
      <3> QED BY <3>1, <3>3 DEF ActsUnderFingerprint
    <2>6. ASSUME NEW e \in storage, e.key.batch = key.batch, e.key.target = key.target, e.life = life
          PROVE  FALSE
      <3>1. fingerprints[e.key.batch] = [seen |-> TRUE, holds |-> e.key.holds]
        BY <2>6 DEF RetentionInv, ActsUnderFingerprint
      <3>2. e.key.holds = key.holds BY <2>1, <2>6, <3>1
      <3>3. LedgerEntry(e) BY DEF RetentionInv, RetentionTypes
      <3>4. e.key = key BY <2>6, <3>2, <3>3 DEF LedgerEntry
      <3> QED BY <1>3, <3>4
    <2> HIDE DEF key, new
    <2>7. BatchActsOnce'
      BY <1>3, <2>3, <2>6 DEF RetentionInv, BatchActsOnce
    <2> QED BY <2>4, <2>5, <2>7 DEF RetentionInv
  <1> QED BY <1>1, <1>2, <1>3

(* Every step keeps what is said of the ledger and of the run.              *)
LEMMA RetentionStepKeeps ==
    ASSUME RetentionInv, [RetentionNext]_retentionVars
    PROVE  RetentionInv'
  <1>1. legalHolds \subseteq Targets /\ batchRun \in RunRow /\ life \in Nat
    BY DEF RetentionInv, RetentionTypes
  <1>2. NoRun \in RunRow /\ NoRun.left = {} BY DEF NoRun, RunRow
  <1>3. ASSUME ReportTarget PROVE RetentionInv'
    BY <1>1, <1>3, AdvancedRun, LedgerStays DEF ReportTarget
  <1>4. ASSUME ExecuteTarget PROVE RetentionInv'
    <2>1. CASE Perform
      BY <1>4, <2>1, PerformKeeps DEF ExecuteTarget
    <2>2. CASE UNCHANGED storage
      BY <1>1, <1>4, <2>2, AdvancedRun, LedgerStays DEF ExecuteTarget
    <2> QED BY <1>4, <2>1, <2>2 DEF ExecuteTarget
  <1>5. ASSUME EndRun PROVE RetentionInv'
    BY <1>1, <1>2, <1>5, LedgerStays DEF EndRun
  <1>6. ASSUME NEW t \in Targets, ChangeHold(t) PROVE RetentionInv'
    BY <1>1, <1>6, LedgerStays DEF ChangeHold
  <1>7. ASSUME RestartCoordinator PROVE RetentionInv'
    <2>1. /\ life' = life + 1 /\ batchRun' = NoRun /\ UNCHANGED <<legalHolds, storage>>
          /\ fingerprints' = [b \in RetentionBatches |-> NoFingerprint]
      BY <1>7 DEF RestartCoordinator
    <2>2. NoFingerprint \in [seen : BOOLEAN, holds : SUBSET Targets] BY DEF NoFingerprint
    <2>3. RetentionTypes' BY <1>1, <1>2, <2>1, <2>2 DEF RetentionInv, RetentionTypes
    <2>4. \A e \in storage : e.life \in Nat /\ e.life <= life
      BY DEF RetentionInv, RetentionTypes, LedgerEntry, ActsUnderFingerprint
    <2>5. ActsUnderFingerprint' BY <1>1, <1>2, <2>1, <2>4 DEF ActsUnderFingerprint
    <2>6. BatchActsOnce' BY <2>1 DEF RetentionInv, BatchActsOnce
    <2> QED BY <2>3, <2>5, <2>6 DEF RetentionInv
  <1>8. ASSUME UNCHANGED retentionVars PROVE RetentionInv'
    BY <1>1, <1>8, LedgerStays DEF retentionVars
  <1> QED BY <1>3, <1>4, <1>5, <1>6, <1>7, <1>8, StartRunKeeps DEF RetentionNext

(* In one life of the coordinator a batch acts on a target at most once,    *)
(* however often an answer is lost, a run repeated or the legal holds       *)
(* changed between (RetentionGovernance.run).                               *)
THEOREM BatchesActOnce == RetentionSpec => []BatchActsOnce
  <1>1. RetentionInv => BatchActsOnce BY DEF RetentionInv
  <1> QED BY <1>1, RetentionInvInit, RetentionStepKeeps, PTL DEF RetentionSpec

-----------------------------------------------------------------------------
(* ContextAssembly                                                          *)

(* What assembling has made of the items below next.                         *)
Partition(a) ==
    /\ a.selected \subseteq ContextItems /\ a.overflow \subseteq ContextItems
    /\ a.excluded \subseteq ContextItems
    /\ a.selected \cap a.overflow = {} /\ a.selected \cap a.excluded = {}

Hidden == {i \in ContextItems : offered[i].visible # "yes"}

AssemblySound(a) ==
    /\ a \in [stage : {a.stage}, next : Nat, selected : {a.selected}, overflow : {a.overflow},
              excluded : {a.excluded}, target : {a.target}, excerpts : {a.excerpts},
              compacted : {a.compacted}, summary : {a.summary}]
    /\ a.stage \in {"new", "refused", "placing", "compacting", "failed", "rendering", "assembled"}
    /\ a.stage = "new" => a = NewAssembly
    /\ a.stage \in {"placing", "compacting"} =>
          /\ Partition(a) /\ a.excluded \cap a.overflow = {}
          /\ a.selected \cup a.overflow \cup a.excluded =
                Hidden \cup {i \in ContextItems : i < a.next}
          /\ \A i \in a.selected \cup a.overflow : i < a.next
          /\ Rendered(a.selected, 0) <= InputBudget
    /\ a.stage = "compacting" => a.next > Ranks /\ DOMAIN a.excerpts \subseteq a.overflow
    /\ a.stage \in {"rendering", "assembled"} =>
          /\ Partition(a) /\ a.compacted \subseteq ContextItems
          /\ a.selected \cap a.compacted = {} /\ a.excluded \cap a.compacted = {}
          /\ a.selected \cup a.compacted \cup a.excluded = ContextItems
          /\ Rendered(a.selected, a.summary) <= InputBudget

ContextInv ==
    /\ AssemblySound(assembly) /\ talk \in Nat

(* When the items are placed and the rest is compacted or left out, the     *)
(* context to render fits and accounts for every item.                      *)
LEMMA PlacingEndsWell ==
    ASSUME NEW a, AssemblySound(a), a.stage \in {"placing", "compacting"}, a.next > Ranks,
           NEW compacted, compacted \subseteq a.overflow, NEW summary,
           Rendered(a.selected, summary) <= InputBudget,
           NEW b, b = [a EXCEPT !.stage = "rendering", !.compacted = compacted,
                                !.summary = summary,
                                !.excluded = @ \cup (a.overflow \ compacted)]
    PROVE  AssemblySound(b)
  <1>0. a.next \in Nat /\ Ranks \in Nat BY ContextAssumption DEF AssemblySound
  <1>1. /\ b.stage = "rendering" /\ b.compacted = compacted /\ b.summary = summary
        /\ b.selected = a.selected /\ b.overflow = a.overflow
        /\ b.excluded = a.excluded \cup (a.overflow \ compacted)
        /\ b \in [stage : {b.stage}, next : Nat, selected : {b.selected}, overflow : {b.overflow},
                  excluded : {b.excluded}, target : {b.target}, excerpts : {b.excerpts},
                  compacted : {b.compacted}, summary : {b.summary}]
    BY DEF AssemblySound
  <1>2. ContextItems = Hidden \cup {i \in ContextItems : i < a.next}
    BY <1>0 DEF ContextItems, Hidden
  <1>3. /\ Partition(a) /\ a.excluded \cap a.overflow = {}
        /\ a.selected \cup a.overflow \cup a.excluded = ContextItems
    BY <1>2 DEF AssemblySound
  <1>4. /\ Partition(b) /\ compacted \subseteq ContextItems
        /\ b.selected \cap compacted = {} /\ b.excluded \cap compacted = {}
        /\ b.selected \cup compacted \cup b.excluded = ContextItems
    BY <1>1, <1>3 DEF Partition
  <1> QED BY <1>1, <1>4 DEF AssemblySound

(* A summary that does not fit is tried again with fewer excerpts or given  *)
(* up.                                                                      *)
LEMMA SummaryTried ==
    ASSUME AssemblySound(assembly), assembly.stage \in {"placing", "compacting"},
           assembly.next > Ranks, NEW target, TrySummary(target)
    PROVE  AssemblySound(assembly')
  <1> DEFINE a == assembly
  <1>1. CASE target >= SummaryFloor
    <2> DEFINE x == FirstExcerpts(target)
               b == [a EXCEPT !.stage = "compacting", !.target = target, !.excerpts = x]
    <2>1. assembly' = b BY <1>1 DEF TrySummary
    <2>2. DOMAIN x = a.overflow BY DEF FirstExcerpts
    <2> HIDE DEF x
    <2>3. /\ b.stage = "compacting" /\ b.excerpts = x /\ b.next = a.next
          /\ b.selected = a.selected /\ b.overflow = a.overflow /\ b.excluded = a.excluded
          /\ b \in [stage : {b.stage}, next : Nat, selected : {b.selected}, overflow : {b.overflow},
                    excluded : {b.excluded}, target : {b.target}, excerpts : {b.excerpts},
                    compacted : {b.compacted}, summary : {b.summary}]
      BY DEF AssemblySound
    <2> HIDE DEF b
    <2>4. AssemblySound(b) BY <2>2, <2>3 DEF AssemblySound, Partition
    <2> QED BY <2>1, <2>4
  <1>2. CASE ~(target >= SummaryFloor)
    <2>1. assembly' = EndPlacing({}, 0) BY <1>2 DEF TrySummary
    <2>2. Rendered(a.selected, 0) <= InputBudget BY DEF AssemblySound
    <2>3. AssemblySound(EndPlacing({}, 0)) BY <2>2, PlacingEndsWell DEF EndPlacing
    <2> QED BY <2>1, <2>3
  <1> QED BY <1>1, <1>2

(* Nothing is placed, compacted or left out at first.                       *)
LEMMA ContextInvInit == ContextInit => ContextInv
  BY ContextAssumption DEF ContextInit, ContextInv, AssemblySound, NewAssembly

(* Every step of the assembly keeps the invariant.                          *)
LEMMA ContextInvNext == ContextInv /\ [ContextNext]_contextVars => ContextInv'
  <1> SUFFICES ASSUME ContextInv, [ContextNext]_contextVars PROVE ContextInv' OBVIOUS
  <1> DEFINE a == assembly
  <1>0. AssemblySound(a) /\ talk \in Nat /\ Ranks \in Nat BY ContextAssumption DEF ContextInv
  <1>a. ASSUME NEW b, AssemblySound(b), UNCHANGED <<offered, talk>> PROVE AssemblySound(b)'
    BY <1>a DEF AssemblySound, Hidden, Partition, Rendered, ItemTokens
  <1>b. ASSUME AssemblySound(assembly'), UNCHANGED <<offered, talk>> PROVE ContextInv'
    BY <1>0, <1>b DEF ContextInv, AssemblySound, Hidden, Partition, Rendered, ItemTokens
  <1>1. CASE BeginAssembly
    <2> DEFINE b == [a EXCEPT !.stage = "refused"]
               d == [a EXCEPT !.stage = "placing", !.excluded = Hidden]
    <2>1. a = NewAssembly /\ UNCHANGED <<offered, talk>>
          /\ assembly' = IF talk > InputBudget THEN b ELSE d
      BY <1>0, <1>1 DEF BeginAssembly, AssemblySound, Hidden
    <2>2. AssemblySound(b) BY <1>0, <2>1 DEF AssemblySound, NewAssembly
    <2>3. talk <= InputBudget => AssemblySound(d)
      <3>1. Rendered({}, 0) = talk BY DEF Rendered
      <3>2. /\ d.stage = "placing" /\ d.next = 1 /\ d.selected = {} /\ d.overflow = {}
            /\ d.excluded = Hidden
            /\ d \in [stage : {d.stage}, next : Nat, selected : {d.selected}, overflow : {d.overflow},
                      excluded : {d.excluded}, target : {d.target}, excerpts : {d.excerpts},
                      compacted : {d.compacted}, summary : {d.summary}]
        BY <2>1 DEF NewAssembly
      <3> HIDE DEF d
      <3>3. {i \in ContextItems : i < 1} = {} /\ Hidden \subseteq ContextItems
        BY DEF ContextItems, Hidden
      <3> QED BY <3>1, <3>2, <3>3 DEF AssemblySound, Partition
    <2> HIDE DEF b, d
    <2>4. InputBudget \in Nat BY ContextAssumption
    <2>5. CASE talk > InputBudget BY <1>b, <2>1, <2>2, <2>5
    <2>6. CASE ~(talk > InputBudget) BY <1>0, <1>b, <2>1, <2>3, <2>4, <2>6
    <2> QED BY <2>5, <2>6
  <1>2. CASE PlaceItem
    <2> DEFINE i == a.next
               b == [a EXCEPT !.next = i + 1]
               d == [a EXCEPT !.next = i + 1, !.selected = @ \cup {i}]
               e == [a EXCEPT !.next = i + 1, !.overflow = @ \cup {i}]
    <2>1. /\ a.stage = "placing" /\ i \in ContextItems /\ UNCHANGED <<offered, talk>>
          /\ \/ i \in a.excluded /\ assembly' = b
             \/ i \notin a.excluded /\ FitsBudget(i) /\ assembly' = d
             \/ i \notin a.excluded /\ assembly' = e
      BY <1>2 DEF PlaceItem
    <2>2. /\ i \in Nat /\ ContextItems \subseteq Nat
          /\ {j \in ContextItems : j < i + 1} = {j \in ContextItems : j < i} \cup {i}
      BY <1>0, <2>1 DEF ContextItems
    <2>3. /\ Partition(a) /\ a.excluded \cap a.overflow = {}
          /\ a.selected \cup a.overflow \cup a.excluded = Hidden \cup {j \in ContextItems : j < i}
          /\ \A j \in a.selected \cup a.overflow : j < i
          /\ Rendered(a.selected, 0) <= InputBudget
          /\ a.selected \cup a.overflow \subseteq Nat
      BY <1>0, <2>1, <2>2 DEF AssemblySound, Partition
    <2>4. i \notin a.selected \cup a.overflow BY <2>2, <2>3
    <2>5. CASE i \in a.excluded /\ assembly' = b
      <3>1. /\ b.stage = "placing" /\ b.next = i + 1 /\ b.selected = a.selected
            /\ b.overflow = a.overflow /\ b.excluded = a.excluded
            /\ b \in [stage : {b.stage}, next : Nat, selected : {b.selected}, overflow : {b.overflow},
                      excluded : {b.excluded}, target : {b.target}, excerpts : {b.excerpts},
                      compacted : {b.compacted}, summary : {b.summary}]
        BY <1>0, <2>1, <2>2 DEF AssemblySound
      <3> HIDE DEF b
      <3>2. AssemblySound(b)
        <4>1. \A j \in a.selected \cup a.overflow : j < i + 1 BY <2>2, <2>3
        <4>2. a.selected \cup a.overflow \cup a.excluded = Hidden \cup {j \in ContextItems : j < i + 1}
          BY <2>2, <2>3, <2>5
        <4> HIDE DEF i
        <4> QED BY <2>3, <3>1, <4>1, <4>2 DEF AssemblySound, Partition
      <3> QED BY <1>b, <2>1, <2>5, <3>2
    <2>6. CASE i \notin a.excluded /\ FitsBudget(i) /\ assembly' = d
      <3>1. /\ d.stage = "placing" /\ d.next = i + 1 /\ d.selected = a.selected \cup {i}
            /\ d.overflow = a.overflow /\ d.excluded = a.excluded
            /\ d \in [stage : {d.stage}, next : Nat, selected : {d.selected}, overflow : {d.overflow},
                      excluded : {d.excluded}, target : {d.target}, excerpts : {d.excerpts},
                      compacted : {d.compacted}, summary : {d.summary}]
        <4>1. /\ a \in [stage : {a.stage}, next : Nat, selected : {a.selected}, overflow : {a.overflow},
                       excluded : {a.excluded}, target : {a.target}, excerpts : {a.excerpts},
                       compacted : {a.compacted}, summary : {a.summary}]
              /\ a.stage = "placing" /\ i + 1 \in Nat
          BY <1>0, <2>1, <2>2 DEF AssemblySound
        <4> HIDE DEF a, i
        <4>2. /\ d.stage = "placing" /\ d.next = i + 1 /\ d.selected = a.selected \cup {i}
              /\ d.overflow = a.overflow /\ d.excluded = a.excluded
          BY <4>1
        <4> QED BY <4>1, <4>2
      <3>0. Rendered(a.selected \cup {i}, 0) <= InputBudget BY <2>6 DEF FitsBudget
      <3> HIDE DEF d
      <3>2. AssemblySound(d)
        <4>1. \A j \in d.selected \cup d.overflow : j < i + 1 BY <2>2, <2>3, <3>1
        <4>2. d.selected \cup d.overflow \cup d.excluded = Hidden \cup {j \in ContextItems : j < i + 1}
          BY <2>2, <2>3, <3>1
        <4>3. Partition(d) /\ d.excluded \cap d.overflow = {}
          BY <2>1, <2>3, <2>4, <2>6, <3>1 DEF Partition
        <4> HIDE DEF i
        <4> QED BY <3>0, <3>1, <4>1, <4>2, <4>3 DEF AssemblySound
      <3> QED BY <1>b, <2>1, <2>6, <3>2
    <2>7. CASE i \notin a.excluded /\ assembly' = e
      <3>1. /\ e.stage = "placing" /\ e.next = i + 1 /\ e.selected = a.selected
            /\ e.overflow = a.overflow \cup {i} /\ e.excluded = a.excluded
            /\ e \in [stage : {e.stage}, next : Nat, selected : {e.selected}, overflow : {e.overflow},
                      excluded : {e.excluded}, target : {e.target}, excerpts : {e.excerpts},
                      compacted : {e.compacted}, summary : {e.summary}]
        <4>1. /\ a \in [stage : {a.stage}, next : Nat, selected : {a.selected}, overflow : {a.overflow},
                       excluded : {a.excluded}, target : {a.target}, excerpts : {a.excerpts},
                       compacted : {a.compacted}, summary : {a.summary}]
              /\ a.stage = "placing" /\ i + 1 \in Nat
          BY <1>0, <2>1, <2>2 DEF AssemblySound
        <4> HIDE DEF a, i
        <4>2. /\ e.stage = "placing" /\ e.next = i + 1 /\ e.selected = a.selected
              /\ e.overflow = a.overflow \cup {i} /\ e.excluded = a.excluded
          BY <4>1
        <4> QED BY <4>1, <4>2
      <3> HIDE DEF e
      <3>2. AssemblySound(e)
        <4>1. \A j \in e.selected \cup e.overflow : j < i + 1 BY <2>2, <2>3, <3>1
        <4>2. e.selected \cup e.overflow \cup e.excluded = Hidden \cup {j \in ContextItems : j < i + 1}
          BY <2>2, <2>3, <3>1
        <4>3. Partition(e) /\ e.excluded \cap e.overflow = {}
          BY <2>1, <2>3, <2>4, <2>7, <3>1 DEF Partition
        <4> HIDE DEF i
        <4> QED BY <2>3, <3>1, <4>1, <4>2, <4>3 DEF AssemblySound
      <3> QED BY <1>b, <2>1, <2>7, <3>2
    <2> QED BY <2>1, <2>5, <2>6, <2>7
  <1>3. CASE PlacingEnds
    <2>1. a.stage = "placing" /\ a.next > Ranks /\ UNCHANGED <<offered, talk>>
      BY <1>3 DEF PlacingEnds
    <2>2. CASE a.overflow = {}
      <3>1. Rendered(a.selected, 0) <= InputBudget BY <1>0, <2>1 DEF AssemblySound
      <3>2. AssemblySound(EndPlacing({}, 0)) BY <1>0, <2>1, <3>1, PlacingEndsWell DEF EndPlacing
      <3>3. assembly' = EndPlacing({}, 0) BY <1>3, <2>2 DEF PlacingEnds
      <3> QED BY <1>b, <2>1, <3>2, <3>3
    <2>3. CASE a.overflow # {}
      <3>1. PICK target : TrySummary(target) BY <1>3, <2>3 DEF PlacingEnds
      <3> QED BY <1>0, <1>b, <2>1, <3>1, SummaryTried
    <2> QED BY <2>2, <2>3
  <1>4. CASE ShrinkSummary
    <2> DEFINE x == a.excerpts
    <2>1. /\ a.stage = "compacting" /\ UNCHANGED <<offered, talk>>
          /\ \E y : DOMAIN y \subseteq DOMAIN x /\ assembly' = [a EXCEPT !.excerpts = y]
      <3>1. PICK longest : assembly' = [a EXCEPT !.excerpts =
                IF x[longest] <= ExcerptFloor
                THEN Restrict(x, DOMAIN x \ {longest})
                ELSE [x EXCEPT ![longest] = Max({ExcerptFloor, @ \div 2})]]
        <4> DEFINE l == CHOOSE i \in DOMAIN x :
                         /\ \A j \in DOMAIN x : x[j] <= x[i]
                         /\ \A j \in DOMAIN x : x[j] = x[i] => i <= j
        <4>1. assembly' = [a EXCEPT !.excerpts =
                IF x[l] <= ExcerptFloor THEN Restrict(x, DOMAIN x \ {l})
                ELSE [x EXCEPT ![l] = Max({ExcerptFloor, @ \div 2})]]
          BY <1>4, Zenon DEF ShrinkSummary
        <4> HIDE DEF l
        <4> QED BY <4>1
      <3>2. DOMAIN Restrict(x, DOMAIN x \ {longest}) \subseteq DOMAIN x BY DEF Restrict
      <3>3. \A m : DOMAIN [x EXCEPT ![longest] = m] = DOMAIN x OBVIOUS
      <3> QED BY <1>4, <3>1, <3>2, <3>3 DEF ShrinkSummary
    <2>2. PICK y : DOMAIN y \subseteq DOMAIN x /\ assembly' = [a EXCEPT !.excerpts = y] BY <2>1
    <2> DEFINE b == [a EXCEPT !.excerpts = y]
    <2>3. /\ b.stage = "compacting" /\ b.excerpts = y /\ b.next = a.next
          /\ b.selected = a.selected /\ b.overflow = a.overflow /\ b.excluded = a.excluded
          /\ b \in [stage : {b.stage}, next : Nat, selected : {b.selected}, overflow : {b.overflow},
                    excluded : {b.excluded}, target : {b.target}, excerpts : {b.excerpts},
                    compacted : {b.compacted}, summary : {b.summary}]
      BY <1>0, <2>1 DEF AssemblySound
    <2> HIDE DEF b
    <2>4. DOMAIN x \subseteq a.overflow BY <1>0, <2>1 DEF AssemblySound
    <2>5. AssemblySound(b) BY <1>0, <2>1, <2>2, <2>3, <2>4 DEF AssemblySound, Partition
    <2> QED BY <1>b, <2>1, <2>2, <2>5 DEF b
  <1>5. CASE SummaryEmpty
    <2> DEFINE b == [a EXCEPT !.stage = "failed"]
    <2>1. assembly' = b /\ UNCHANGED <<offered, talk>> BY <1>5 DEF SummaryEmpty
    <2>2. AssemblySound(b) BY <1>0 DEF AssemblySound
    <2> HIDE DEF b
    <2> QED BY <1>b, <2>1, <2>2
  <1>6. CASE SummaryMade
    <2> DEFINE x == a.excerpts
    <2>1. /\ a.stage = "compacting" /\ UNCHANGED <<offered, talk>> BY <1>6 DEF SummaryMade
    <2>2. a.next > Ranks /\ DOMAIN x \subseteq a.overflow BY <1>0, <2>1 DEF AssemblySound
    <2>3. PICK escapes \in 0..EscapeLimit :
            LET summary == SummaryTokens(x) + Frame + escapes
                tokens == Rendered(a.selected, summary)
            IN  IF SummaryAccepted(tokens, escapes)
                THEN assembly' = EndPlacing(DOMAIN x, summary)
                ELSE TrySummary(a.target - Max({SummaryStep, tokens - InputBudget + 1}))
      BY <1>6 DEF SummaryMade
    <2>4. PICK summary : summary = SummaryTokens(x) + Frame + escapes OBVIOUS
    <2>5. CASE SummaryAccepted(Rendered(a.selected, summary), escapes)
      <3>1. assembly' = EndPlacing(DOMAIN x, summary) BY <2>3, <2>4, <2>5
      <3>2. Rendered(a.selected, summary) <= InputBudget BY <2>5 DEF SummaryAccepted
      <3>3. AssemblySound(EndPlacing(DOMAIN x, summary))
        BY <1>0, <2>1, <2>2, <3>2, PlacingEndsWell DEF EndPlacing
      <3> QED BY <1>b, <2>1, <3>1, <3>3
    <2>6. CASE ~SummaryAccepted(Rendered(a.selected, summary), escapes)
      <3>1. PICK target : TrySummary(target) BY <2>3, <2>4, <2>6
      <3> QED BY <1>0, <1>b, <2>1, <2>2, <3>1, SummaryTried
    <2> QED BY <2>5, <2>6
  <1>7. CASE FinishAssembly
    <2> DEFINE b == [a EXCEPT !.stage = "assembled"]
    <2>1. a.stage = "rendering" /\ UNCHANGED <<offered, talk>> BY <1>7 DEF FinishAssembly
    <2>2. Rendered(a.selected, a.summary) <= InputBudget BY <1>0, <2>1 DEF AssemblySound
    <2>4. assembly' = b BY <1>7, <2>2 DEF FinishAssembly
    <2>5. AssemblySound(b) BY <1>0, <2>1 DEF AssemblySound, Partition
    <2> HIDE DEF b
    <2> QED BY <1>b, <2>1, <2>4, <2>5
  <1>8. ASSUME NEW p \in Talkers, ProposeCheckpoint(p) \/ ReviewCheckpoint(p) \/ ResumeCheckpoint(p)
        PROVE  ContextInv'
    <2>1. CASE ProposeCheckpoint(p) \/ ReviewCheckpoint(p)
      BY <1>0, <1>b, <2>1 DEF ProposeCheckpoint, ReviewCheckpoint, ContextInv, AssemblySound, Hidden,
         Partition, Rendered, ItemTokens
    <2>2. CASE ResumeCheckpoint(p)
      BY <2>2, ContextAssumption DEF ResumeCheckpoint, ContextInv, AssemblySound, NewAssembly
    <2> QED BY <1>8, <2>1, <2>2
  <1>9. CASE UNCHANGED contextVars
    BY <1>0, <1>9 DEF contextVars, ContextInv, AssemblySound, Hidden, Partition, Rendered, ItemTokens
  <1> QED BY <1>1, <1>2, <1>3, <1>4, <1>5, <1>6, <1>7, <1>8, <1>9 DEF ContextNext

(* Three disjoint sets that make up the items have as many members          *)
(* together.                                                                *)
LEMMA AccountsAddUp ==
    ASSUME NEW n \in Nat, NEW A, NEW B, NEW C, A \cup B \cup C = 1..n,
           A \cap B = {}, A \cap C = {}, B \cap C = {}
    PROVE  Cardinality(A) + Cardinality(B) + Cardinality(C) = n
  <1>1. IsFiniteSet(1..n) /\ Cardinality(1..n) = n BY FS_Interval
  <1>2. IsFiniteSet(A) /\ IsFiniteSet(B) /\ IsFiniteSet(C)
    <2>1. A \subseteq 1..n /\ B \subseteq 1..n /\ C \subseteq 1..n OBVIOUS
    <2> QED BY <1>1, <2>1, FS_Subset
  <1>3. IsFiniteSet(A \cup B) /\ Cardinality(A \cup B) = Cardinality(A) + Cardinality(B)
    <2>1. IsFiniteSet(A \cup B)
          /\ Cardinality(A \cup B) = Cardinality(A) + Cardinality(B) - Cardinality(A \cap B)
      BY <1>2, FS_Union
    <2>2. Cardinality(A \cap B) = 0 BY FS_EmptySet
    <2> QED BY <1>2, <2>1, <2>2, FS_CardinalityType
  <1>4. Cardinality(A \cup B \cup C) = Cardinality(A \cup B) + Cardinality(C)
    <2>1. Cardinality((A \cup B) \cup C)
            = Cardinality(A \cup B) + Cardinality(C) - Cardinality((A \cup B) \cap C)
      BY <1>2, <1>3, FS_Union
    <2>2. (A \cup B) \cap C = {} OBVIOUS
    <2>3. Cardinality((A \cup B) \cap C) = 0 BY <2>2, FS_EmptySet
    <2> QED BY <1>2, <1>3, <2>1, <2>3, FS_CardinalityType
  <1> QED BY <1>1, <1>3, <1>4

(* The invariant says what the run checks.                                  *)
LEMMA ContextInvImplies == ContextInv => AssemblyAccountsForItems
  <1> SUFFICES ASSUME ContextInv PROVE AssemblyAccountsForItems OBVIOUS
  <1> DEFINE a == assembly
  <1>1. a.stage # "overrun" BY DEF ContextInv, AssemblySound
  <1>2. ASSUME a.stage = "assembled"
        PROVE  /\ a.selected \cup a.compacted \cup a.excluded = ContextItems
               /\ Cardinality(a.selected) + Cardinality(a.compacted) + Cardinality(a.excluded) = Ranks
    <2>1. /\ a.selected \cup a.compacted \cup a.excluded = 1..Ranks
          /\ a.selected \cap a.compacted = {} /\ a.selected \cap a.excluded = {}
          /\ a.compacted \cap a.excluded = {} /\ Ranks \in Nat
      BY <1>2, ContextAssumption DEF ContextInv, AssemblySound, Partition, ContextItems
    <2> HIDE DEF a
    <2> QED BY <2>1, AccountsAddUp DEF ContextItems
  <1> QED BY <1>1, <1>2 DEF AssemblyAccountsForItems

(* assemble never reaches its last guard, and an assembled context accounts *)
(* for every item once, for any number of items, sizes, priorities and      *)
(* budgets.                                                                 *)
THEOREM AssembliesAddUp == ContextSpec => []AssemblyAccountsForItems
  <1>1. ContextSpec => []ContextInv BY ContextInvInit, ContextInvNext, PTL DEF ContextSpec
  <1> QED BY <1>1, ContextInvImplies, PTL

-----------------------------------------------------------------------------
(* WorkerIdentity                                                           *)

IdentityRow(i) ==
    i \in [stage : {i.stage}, token : [key : SigningKeyIds \cup {Nobody}, expires : Int],
           began : Int, reply : SUBSET SigningKeyIds, cached : BOOLEAN, at : Int,
           tenants : {i.tenants}]

(* The key is published, or was and has been withdrawn.                     *)
Issued(k) == k \in SigningKeyIds /\ (k \in published \/ withdrawn[k] >= 0)

(* The key was still published at t.                                        *)
PublishedAt(k, t) == k \in published \/ (withdrawn[k] >= 0 /\ withdrawn[k] >= t)

ProviderTypes ==
    /\ instant \in Nat /\ published \subseteq SigningKeyIds
    /\ withdrawn \in [SigningKeyIds -> Int]
    /\ \A k \in published : withdrawn[k] = -1

TokensAreIssued ==
    /\ accessToken \in [Endpoints -> [key : SigningKeyIds \cup {Nobody}, expires : Int]]
    /\ \A e \in Endpoints : accessToken[e] # NoToken => Issued(accessToken[e].key)

(* What the cache serves was published CacheMax before it expires, or later. *)
CacheIsRecent ==
    /\ verifier \in [keys : SUBSET SigningKeyIds, keysExpire : Int, discovery : {verifier.discovery}]
    /\ verifier.keysExpire <= instant + CacheMax
    /\ \A k \in verifier.keys : PublishedAt(k, verifier.keysExpire - CacheMax)

CallSound(i) ==
    /\ IdentityRow(i)
    /\ i.stage \in {"holding", "discovering", "fetching", "served", "accepted", "rejected"} =>
          Issued(i.token.key)
    /\ i.stage \in {"discovering", "fetching", "served"} => i.began <= instant
    /\ i.stage = "served" =>
          /\ \A k \in i.reply : PublishedAt(k, i.began)
          /\ i.token.key \in i.reply \/ withdrawn[i.token.key] >= 0
    /\ i.stage = "rejected" => withdrawn[i.token.key] >= 0 \/ i.at >= i.token.expires
    /\ i.stage = "accepted" /\ i.cached =>
          /\ CacheMax > 0 /\ i.at <= instant
          /\ withdrawn[i.token.key] >= 0 => i.at < withdrawn[i.token.key] + CacheMax

IdentityInv ==
    /\ ProviderTypes /\ TokensAreIssued /\ CacheIsRecent
    /\ identity = [c \in IdentityCalls |-> identity[c]]
    /\ \A c \in IdentityCalls : CallSound(identity[c])

(* The cache is empty and no token was issued at first.                     *)
LEMMA IdentityInvInit == WorkerIdentityInit => IdentityInv
  <1> SUFFICES ASSUME WorkerIdentityInit PROVE IdentityInv OBVIOUS
  <1>1. ProviderTypes BY DEF WorkerIdentityInit, ProviderTypes
  <1>2. TokensAreIssued BY DEF WorkerIdentityInit, TokensAreIssued, NoToken
  <1>3. CacheIsRecent BY IdentityAssumption DEF WorkerIdentityInit, CacheIsRecent
  <1>4. CallSound(NewIdentityCall) BY DEF CallSound, IdentityRow, NewIdentityCall, NoToken
  <1>5. \A c \in IdentityCalls : identity[c] = NewIdentityCall BY DEF WorkerIdentityInit
  <1> QED BY <1>1, <1>2, <1>3, <1>4, <1>5 DEF IdentityInv, WorkerIdentityInit

(* The times of a call are integers.                                        *)
LEMMA SoundIntLemma ==
    ASSUME NEW i, IdentityRow(i)
    PROVE  /\ i.began \in Int /\ i.at \in Int /\ i.reply \subseteq SigningKeyIds
           /\ i.token.expires \in Int /\ i.cached \in BOOLEAN
  BY DEF IdentityRow

(* Time passes, a key is withdrawn: what was sound stays so.                 *)
LEMMA ProviderKeeps ==
    ASSUME IdentityInv, ClockAdvances \/ RotateKey \/ EditOwner
    PROVE  IdentityInv'
  <1>0. /\ instant \in Nat /\ withdrawn \in [SigningKeyIds -> Int] /\ published \subseteq SigningKeyIds
        /\ CacheMax \in Nat /\ \A k \in published : withdrawn[k] = -1
    BY IdentityAssumption DEF IdentityInv, ProviderTypes
  <1>1. UNCHANGED <<accessToken, verifier, identity>>
    BY DEF ClockAdvances, RotateKey, EditOwner, identityCallVars
  <1>2. /\ instant' \in Nat /\ instant' >= instant /\ withdrawn' \in [SigningKeyIds -> Int]
        /\ published' \subseteq SigningKeyIds /\ \A k \in published' : withdrawn'[k] = -1
        /\ \A k \in SigningKeyIds :
              /\ withdrawn[k] >= 0 => withdrawn'[k] = withdrawn[k]
              /\ k \in published => k \in published' \/ withdrawn'[k] = instant
              /\ k \notin published => withdrawn'[k] = withdrawn[k]
    <2>1. CASE ClockAdvances \/ EditOwner
      BY <1>0, <2>1 DEF ClockAdvances, EditOwner
    <2>2. CASE RotateKey
      <3>1. PICK new \in SigningKeyIds \ published :
              withdrawn[new] = -1 /\ published' = {new}
        BY <2>2 DEF RotateKey
      <3>2. /\ withdrawn' = [k \in SigningKeyIds |-> IF k \in published THEN instant ELSE withdrawn[k]]
            /\ instant' = instant
        BY <2>2 DEF RotateKey
      <3> QED BY <1>0, <3>1, <3>2
    <2> QED BY <2>1, <2>2
  <1>3. \A k \in SigningKeyIds : Issued(k) => Issued(k)'
    BY <1>0, <1>2 DEF Issued
  <1>4. ASSUME NEW k \in SigningKeyIds, NEW t \in Int, t <= instant, PublishedAt(k, t)
        PROVE  PublishedAt(k, t)'
    BY <1>0, <1>2, <1>4 DEF PublishedAt
  <1>5. ProviderTypes' BY <1>2 DEF ProviderTypes
  <1>6. TokensAreIssued'
    BY <1>1, <1>3 DEF IdentityInv, TokensAreIssued, Issued
  <1>7. CacheIsRecent'
    <2>0. /\ verifier \in [keys : SUBSET SigningKeyIds, keysExpire : Int, discovery : {verifier.discovery}]
          /\ verifier.keysExpire <= instant + CacheMax
          /\ \A k \in verifier.keys : PublishedAt(k, verifier.keysExpire - CacheMax)
      BY DEF IdentityInv, CacheIsRecent
    <2>1. verifier.keysExpire \in Int /\ verifier.keys \subseteq SigningKeyIds BY <2>0
    <2> DEFINE t == verifier.keysExpire - CacheMax
    <2>a. t \in Int /\ t <= instant BY <1>0, <2>0, <2>1
    <2>b. \A k \in verifier.keys : PublishedAt(k, t) BY <2>0
    <2>c. t' = t BY <1>1
    <2>2. \A k \in verifier.keys : PublishedAt(k, verifier.keysExpire - CacheMax)'
      <3> HIDE DEF t
      <3>3. \A k \in verifier.keys : PublishedAt(k, t)'
        BY <1>0, <1>2, <2>1, <2>a, <2>b, <2>c DEF PublishedAt
      <3> QED BY <3>3 DEF t
    <2>3. verifier.keysExpire <= instant' + CacheMax
      <3>1. instant' \in Nat /\ instant' >= instant BY <1>2
      <3> QED BY <1>0, <2>0, <2>1, <3>1
    <2> QED BY <1>1, <2>0, <2>2, <2>3 DEF CacheIsRecent
  <1>8. ASSUME NEW i, CallSound(i) PROVE CallSound(i)'
    <2>0. IdentityRow(i)' BY <1>8 DEF CallSound, IdentityRow
    <2>1. /\ i.began \in Int /\ i.at \in Int /\ i.reply \subseteq SigningKeyIds
          /\ i.token.expires \in Int
      BY <1>8, SoundIntLemma DEF CallSound
    <2>2. i.stage \in {"holding", "discovering", "fetching", "served", "accepted", "rejected"} =>
            Issued(i.token.key) /\ Issued(i.token.key)' /\ i.token.key \in SigningKeyIds
      BY <1>3, <1>8 DEF CallSound, Issued
    <2>3. i.stage \in {"discovering", "fetching", "served"} => i.began <= instant /\ i.began <= instant'
      BY <1>0, <1>2, <1>8, <2>1 DEF CallSound
    <2>4. i.stage = "served" =>
            /\ (\A k \in i.reply : PublishedAt(k, i.began))'
            /\ i.token.key \in i.reply \/ withdrawn'[i.token.key] >= 0
      BY <1>0, <1>2, <1>4, <1>8, <2>1, <2>2, <2>3 DEF CallSound
    <2>5. i.stage = "rejected" => withdrawn'[i.token.key] >= 0 \/ i.at >= i.token.expires
      BY <1>0, <1>2, <1>8, <2>2 DEF CallSound
    <2>6. i.stage = "accepted" /\ i.cached =>
            /\ CacheMax > 0 /\ i.at <= instant'
            /\ withdrawn'[i.token.key] >= 0 => i.at < withdrawn'[i.token.key] + CacheMax
      <3> SUFFICES ASSUME i.stage = "accepted" /\ i.cached
                   PROVE  /\ CacheMax > 0 /\ i.at <= instant'
                          /\ withdrawn'[i.token.key] >= 0 => i.at < withdrawn'[i.token.key] + CacheMax
        OBVIOUS
      <3>1. /\ CacheMax > 0 /\ i.at <= instant /\ i.token.key \in SigningKeyIds
            /\ withdrawn[i.token.key] >= 0 => i.at < withdrawn[i.token.key] + CacheMax
        BY <1>8, <2>2 DEF CallSound
      <3> QED BY <1>0, <1>2, <2>1, <3>1
    <2> QED BY <2>0, <2>2, <2>3, <2>4, <2>5, <2>6 DEF CallSound
  <1>9. \A c \in IdentityCalls : CallSound(identity[c])'
    BY <1>1, <1>8 DEF IdentityInv
  <1> QED BY <1>1, <1>5, <1>6, <1>7, <1>9 DEF IdentityInv

(* A step of one call.                                                       *)
LEMMA CallMoves ==
    ASSUME IdentityInv, NEW c \in IdentityCalls, NEW new, CallSound(new),
           identity' = [identity EXCEPT ![c] = new], UNCHANGED identityProviderVars,
           TokensAreIssued', CacheIsRecent'
    PROVE  IdentityInv'
  <1>1. UNCHANGED <<instant, published, withdrawn>> BY DEF identityProviderVars
  <1>2. ProviderTypes' BY <1>1 DEF IdentityInv, ProviderTypes
  <1>3. ASSUME NEW i, CallSound(i) PROVE CallSound(i)'
    BY <1>1, <1>3 DEF CallSound, IdentityRow, Issued, PublishedAt
  <1>4. \A d \in IdentityCalls : identity'[d] = IF d = c THEN new ELSE identity[d]
    BY DEF IdentityInv
  <1>5. \A d \in IdentityCalls : CallSound(identity[d])'
    <2> TAKE d \in IdentityCalls
    <2>1. CallSound(IF d = c THEN new ELSE identity[d]) BY DEF IdentityInv
    <2>2. \A i : CallSound(i) => CallSound(i)' BY <1>3
    <2> QED BY <1>4, <2>1, <2>2 DEF CallSound, IdentityRow, Issued, PublishedAt
  <1>6. identity' = [d \in IdentityCalls |-> identity'[d]] BY <1>4 DEF IdentityInv
  <1> QED BY <1>2, <1>5, <1>6 DEF IdentityInv

(* A token that is kept or dropped was issued.                              *)
LEMMA TokenKept ==
    ASSUME IdentityInv, UNCHANGED <<instant, published, withdrawn>>,
           accessToken' = accessToken \/ \E c \in IdentityCalls : accessToken' = Invalidated(c)
    PROVE  TokensAreIssued'
  <1>1. CASE accessToken' = accessToken BY <1>1 DEF IdentityInv, TokensAreIssued, Issued
  <1>2. ASSUME NEW c \in IdentityCalls, accessToken' = Invalidated(c) PROVE TokensAreIssued'
    <2>1. NoToken \in [key : SigningKeyIds \cup {Nobody}, expires : Int] BY DEF NoToken
    <2>2. \A e \in Endpoints : accessToken'[e] = accessToken[e] \/ accessToken'[e] = NoToken
      BY <1>2 DEF IdentityInv, TokensAreIssued, Invalidated
    <2>3. accessToken' \in [Endpoints -> [key : SigningKeyIds \cup {Nobody}, expires : Int]]
      BY <1>2, <2>1 DEF IdentityInv, TokensAreIssued, Invalidated
    <2>4. \A k : Issued(k)' <=> Issued(k) BY DEF Issued
    <2> QED BY <2>2, <2>3, <2>4 DEF IdentityInv, TokensAreIssued, Issued, NoToken
  <1> QED BY <1>1, <1>2

(* A step that leaves the clock, the keys and the verifier alone keeps the  *)
(* cache recent.                                                            *)
LEMMA CacheKept ==
    ASSUME IdentityInv, UNCHANGED <<instant, published, withdrawn, verifier>>
    PROVE  CacheIsRecent'
  BY DEF IdentityInv, CacheIsRecent, PublishedAt

(* The worker gets, keeps or drops its token.                               *)
LEMMA TokenStepKeeps ==
    ASSUME IdentityInv, NEW c \in IdentityCalls, TokenStep(c)
    PROVE  IdentityInv'
  <1> DEFINE i == identity[c]
  <1>0. /\ CallSound(i) /\ IdentityRow(i) /\ TokensAreIssued /\ ProviderTypes
        /\ Endpoint(c) \in Endpoints
    BY DEF IdentityInv, CallSound, Endpoint, Endpoints
  <1>1. UNCHANGED <<instant, published, withdrawn, verifier>> /\ UNCHANGED identityProviderVars
    BY DEF TokenStep, TakeCachedToken, WaitForToken, LockToken, TokenGranted, TokenRefused,
       identityProviderVars
  <1>2. CacheIsRecent' BY <1>1, CacheKept
  <1>3. ASSUME NEW stage \in {"waiting", "requesting", "unavailable"}
        PROVE  CallSound([i EXCEPT !.stage = stage])
    BY <1>0 DEF CallSound, IdentityRow
  <1>4. ASSUME NEW token \in [key : SigningKeyIds \cup {Nobody}, expires : Int], Issued(token.key)
        PROVE  CallSound(Holding(i, token))
    BY <1>0, <1>4 DEF CallSound, IdentityRow, Holding
  <1>5. ASSUME NEW stage \in {"waiting", "requesting", "unavailable"}, UNCHANGED accessToken,
               identity' = [identity EXCEPT ![c].stage = stage]
        PROVE  IdentityInv'
    <2> DEFINE new == [i EXCEPT !.stage = stage]
    <2>1. CallSound(new) BY <1>3
    <2>2. identity' = [identity EXCEPT ![c] = new] BY <1>5
    <2>3. TokensAreIssued' BY <1>1, <1>5, TokenKept
    <2> HIDE DEF new
    <2> QED BY <1>1, <1>2, <2>1, <2>2, <2>3, CallMoves
  <1>6. ASSUME Usable(accessToken[Endpoint(c)]), UNCHANGED accessToken,
               identity' = [identity EXCEPT ![c] = Holding(@, accessToken[Endpoint(c)])]
        PROVE  IdentityInv'
    <2> DEFINE new == Holding(i, accessToken[Endpoint(c)])
    <2>1. CallSound(new) BY <1>0, <1>4, <1>6 DEF TokensAreIssued, Usable
    <2>2. identity' = [identity EXCEPT ![c] = new] BY <1>6
    <2>3. TokensAreIssued' BY <1>1, <1>6, TokenKept
    <2> HIDE DEF new
    <2> QED BY <1>1, <1>2, <2>1, <2>2, <2>3, CallMoves
  <1>7. CASE TokenGranted(c)
    <2>1. PICK key \in published, duration \in Lifetimes :
            /\ accessToken' = [accessToken EXCEPT ![Endpoint(c)] = [key |-> key, expires |-> instant + duration]]
            /\ identity' = [identity EXCEPT ![c] = Holding(@, [key |-> key, expires |-> instant + duration])]
      BY <1>7 DEF TokenGranted
    <2> DEFINE token == [key |-> key, expires |-> instant + duration]
               new == Holding(i, token)
    <2>2. instant + duration \in Int /\ key \in SigningKeyIds
      BY <1>0, IdentityAssumption DEF ProviderTypes
    <2>3. token \in [key : SigningKeyIds \cup {Nobody}, expires : Int] /\ Issued(token.key)
      BY <2>2 DEF Issued
    <2>4. CallSound(new) BY <1>4, <2>3
    <2>5. identity' = [identity EXCEPT ![c] = new] BY <2>1
    <2>6. TokensAreIssued'
      <3>1. accessToken' = [accessToken EXCEPT ![Endpoint(c)] = token] BY <2>1
      <3> HIDE DEF token
      <3>2. \A e \in Endpoints : accessToken'[e] = accessToken[e] \/ accessToken'[e] = token
        BY <1>0, <3>1 DEF TokensAreIssued
      <3>3. accessToken' \in [Endpoints -> [key : SigningKeyIds \cup {Nobody}, expires : Int]]
        BY <1>0, <2>3, <3>1 DEF TokensAreIssued
      <3>4. \A k : Issued(k)' <=> Issued(k) BY <1>1 DEF Issued
      <3> QED BY <1>0, <2>3, <3>2, <3>3, <3>4 DEF TokensAreIssued, Issued
    <2> HIDE DEF new
    <2> QED BY <1>1, <1>2, <2>4, <2>5, <2>6, CallMoves
  <1>8. CASE TakeCachedToken(c) \/ WaitForToken(c) \/ LockToken(c) \/ TokenRefused(c)
    BY <1>5, <1>6, <1>8 DEF TakeCachedToken, WaitForToken, LockToken, TokenRefused, EndIdentity
  <1> QED BY <1>7, <1>8 DEF TokenStep

(* The age a refresh gives the keys is capped.                               *)
LEMMA AgeIsCapped ==
    ASSUME NEW age \in Ages
    PROVE  CacheAge(age) \in Nat /\ CacheAge(age) <= CacheMax
  BY IdentityAssumption DEF CacheAge

(* A verdict given on keys that serve the token's key, or were published     *)
(* after the token was held.                                                 *)
LEMMA ConcludeKeeps ==
    ASSUME IdentityInv, NEW c \in IdentityCalls, NEW keys, NEW cached \in BOOLEAN,
           Issued(identity[c].token.key), Conclude(c, keys, cached),
           UNCHANGED identityProviderVars, CacheIsRecent',
           identity[c].token.key \in keys \/ withdrawn[identity[c].token.key] >= 0,
           cached => /\ CacheMax > 0
                     /\ withdrawn[identity[c].token.key] >= 0 =>
                           instant < withdrawn[identity[c].token.key] + CacheMax
    PROVE  IdentityInv'
  <1> DEFINE i == identity[c]
             verdict == Verdict(i.token, keys)
             new == [i EXCEPT !.stage = verdict, !.cached = cached, !.at = instant]
  <1>0. /\ CallSound(i) /\ IdentityRow(i) /\ instant \in Nat
    BY DEF IdentityInv, CallSound, ProviderTypes
  <1>1. identity' = [identity EXCEPT ![c] = new] BY DEF Conclude
  <1>2. /\ verdict \in {"accepted", "rejected"}
        /\ verdict = "rejected" => withdrawn[i.token.key] >= 0 \/ ~(instant < i.token.expires)
    BY DEF Verdict
  <1>3. UNCHANGED <<instant, published, withdrawn>> BY DEF identityProviderVars
  <1>4. TokensAreIssued' BY <1>3, TokenKept DEF Conclude
  <1> HIDE DEF verdict
  <1>7. new = [i EXCEPT !.stage = verdict, !.cached = cached, !.at = instant] /\ instant \in Int
    BY <1>0
  <1> HIDE DEF new, i
  <1>5. /\ IdentityRow(new) /\ new.stage = verdict /\ new.token = i.token /\ new.cached = cached
        /\ new.at = instant /\ i.token.expires \in Int
    <2>1. i \in [stage : {i.stage}, token : [key : SigningKeyIds \cup {Nobody}, expires : Int],
                      began : Int, reply : SUBSET SigningKeyIds, cached : BOOLEAN, at : Int,
                      tenants : {i.tenants}]
      BY <1>0 DEF IdentityRow
    <2>2. /\ new.stage = verdict /\ new.token = i.token /\ new.cached = cached /\ new.at = instant
          /\ new.tenants = i.tenants /\ i.token.expires \in Int
      BY <1>7, <2>1
    <2>3. new \in [stage : {verdict}, token : [key : SigningKeyIds \cup {Nobody}, expires : Int],
                      began : Int, reply : SUBSET SigningKeyIds, cached : BOOLEAN, at : Int,
                      tenants : {i.tenants}]
      BY <1>7, <2>1
    <2> QED BY <2>2, <2>3 DEF IdentityRow
  <1> USE DEF i
  <1>6. CallSound(new) BY <1>0, <1>2, <1>5 DEF CallSound
  <1> QED BY <1>1, <1>4, <1>6, CallMoves

(* The verifier reads its cache or fetches the keys.                        *)
LEMMA VerifierStepKeeps ==
    ASSUME IdentityInv, NEW c \in IdentityCalls, VerifierStep(c)
    PROVE  IdentityInv'
  <1> DEFINE i == identity[c]
  <1>0. /\ CallSound(i) /\ IdentityRow(i) /\ instant \in Nat /\ CacheMax \in Nat
        /\ withdrawn \in [SigningKeyIds -> Int] /\ published \subseteq SigningKeyIds
        /\ verifier \in [keys : SUBSET SigningKeyIds, keysExpire : Int, discovery : {verifier.discovery}]
        /\ verifier.keysExpire <= instant + CacheMax
        /\ \A k \in verifier.keys : PublishedAt(k, verifier.keysExpire - CacheMax)
        /\ \A k \in published : withdrawn[k] = -1
    BY IdentityAssumption DEF IdentityInv, CallSound, ProviderTypes, CacheIsRecent
  <1>1. UNCHANGED <<instant, published, withdrawn>> /\ UNCHANGED identityProviderVars
    BY DEF VerifierStep, VerifyFromCache, BeginRefresh, DiscoveryAnswered, KeysServed, KeysArrive,
       RefreshFails, identityProviderVars
  <1>2. i.began \in Int /\ i.reply \subseteq SigningKeyIds BY <1>0, SoundIntLemma
  <1>3. CASE VerifyFromCache(c)
    <2>1. /\ i.stage = "holding" /\ i.token.key \in verifier.keys /\ instant < verifier.keysExpire
          /\ Conclude(c, verifier.keys, TRUE) /\ UNCHANGED verifier
      BY <1>3 DEF VerifyFromCache, CacheServes
    <2>2. Issued(i.token.key) BY <1>0, <2>1 DEF CallSound
    <2>3. i.token.key \in SigningKeyIds /\ verifier.keysExpire \in Int BY <1>0, <2>1
    <2>4. PublishedAt(i.token.key, verifier.keysExpire - CacheMax) BY <1>0, <2>1
    <2>5. CacheMax > 0 BY <1>0, <2>1, <2>3
    <2>6. withdrawn[i.token.key] >= 0 => instant < withdrawn[i.token.key] + CacheMax
      BY <1>0, <2>1, <2>3, <2>4 DEF PublishedAt
    <2>7. CacheIsRecent' BY <1>1, <2>1, CacheKept
    <2> QED BY <1>1, <2>1, <2>2, <2>5, <2>6, <2>7, ConcludeKeeps
  <1>4. CASE BeginRefresh(c)
    <2>1. PICK stage \in {"fetching", "discovering"} :
            identity' = [identity EXCEPT ![c].stage = stage, ![c].began = instant]
      BY <1>4 DEF BeginRefresh
    <2> DEFINE new == [i EXCEPT !.stage = stage, !.began = instant]
    <2>2. i.stage = "holding" /\ UNCHANGED <<accessToken, verifier>> BY <1>4 DEF BeginRefresh
    <2>3. identity' = [identity EXCEPT ![c] = new] BY <2>1
    <2>4. new = [i EXCEPT !.stage = stage, !.began = instant] /\ instant \in Int BY <1>0
    <2> HIDE DEF new, i
    <2>7. IdentityRow(new) /\ new.stage = stage /\ new.token = i.token /\ new.began = instant
      <3>1. i \in [stage : {i.stage}, token : [key : SigningKeyIds \cup {Nobody}, expires : Int],
                      began : Int, reply : SUBSET SigningKeyIds, cached : BOOLEAN, at : Int,
                      tenants : {i.tenants}]
        BY <1>0 DEF IdentityRow
      <3>2. new.stage = stage /\ new.token = i.token /\ new.began = instant /\ new.tenants = i.tenants
        BY <2>4, <3>1
      <3>3. new \in [stage : {stage}, token : [key : SigningKeyIds \cup {Nobody}, expires : Int],
                      began : Int, reply : SUBSET SigningKeyIds, cached : BOOLEAN, at : Int,
                      tenants : {i.tenants}]
        BY <2>4, <3>1
      <3> QED BY <3>2, <3>3 DEF IdentityRow
    <2> USE DEF i
    <2>5. Issued(i.token.key) BY <1>0, <2>2 DEF CallSound
    <2>6. CallSound(new) BY <1>0, <2>4, <2>5, <2>7 DEF CallSound
    <2> QED BY <1>1, <2>2, <2>3, <2>6, CallMoves, TokenKept, CacheKept
  <1>5. CASE DiscoveryAnswered(c)
    <2> DEFINE new == [i EXCEPT !.stage = "fetching"]
    <2>1. /\ i.stage = "discovering" /\ identity' = [identity EXCEPT ![c] = new]
          /\ UNCHANGED accessToken
      BY <1>5 DEF DiscoveryAnswered
    <2>2. CallSound(new) BY <1>0, <2>1 DEF CallSound, IdentityRow
    <2>3. PICK d : verifier' = [verifier EXCEPT !.discovery = d]
      BY <1>5 DEF DiscoveryAnswered
    <2>4. CacheIsRecent' BY <1>0, <1>1, <2>3 DEF CacheIsRecent, PublishedAt
    <2> HIDE DEF new
    <2> QED BY <1>1, <2>1, <2>2, <2>4, CallMoves, TokenKept
  <1>6. CASE KeysServed(c)
    <2> DEFINE new == [i EXCEPT !.stage = "served", !.reply = published]
    <2>1. /\ i.stage = "fetching" /\ identity' = [identity EXCEPT ![c] = new]
          /\ UNCHANGED <<accessToken, verifier>>
      BY <1>6 DEF KeysServed
    <2>2. CallSound(new) BY <1>0, <2>1 DEF CallSound, IdentityRow, PublishedAt, Issued
    <2> HIDE DEF new
    <2> QED BY <1>1, <2>1, <2>2, CallMoves, TokenKept, CacheKept
  <1>7. CASE KeysArrive(c)
    <2>1. PICK age \in Ages :
            verifier' = [verifier EXCEPT !.keys = i.reply, !.keysExpire = i.began + CacheAge(age)]
      BY <1>7 DEF KeysArrive
    <2>2. i.stage = "served" /\ Conclude(c, i.reply, FALSE) BY <1>7 DEF KeysArrive
    <2>3. /\ Issued(i.token.key) /\ i.began <= instant
          /\ \A k \in i.reply : PublishedAt(k, i.began)
          /\ i.token.key \in i.reply \/ withdrawn[i.token.key] >= 0
      BY <1>0, <2>2 DEF CallSound
    <2>4. CacheIsRecent'
      <3>0. PICK t : t = i.began + CacheAge(age) OBVIOUS
      <3>1. t \in Int /\ t <= instant + CacheMax /\ t - CacheMax <= i.began
        BY <1>0, <1>2, <2>3, <3>0, AgeIsCapped
      <3>2. /\ verifier'.keys = i.reply /\ verifier'.keysExpire = t
            /\ verifier' \in [keys : SUBSET SigningKeyIds, keysExpire : Int, discovery : {verifier'.discovery}]
        BY <1>0, <1>2, <2>1, <3>0, <3>1
      <3>3. ASSUME NEW k \in i.reply
            PROVE  k \in published' \/ (withdrawn'[k] >= 0 /\ withdrawn'[k] >= t - CacheMax)
        <4>1. k \in SigningKeyIds /\ PublishedAt(k, i.began) BY <1>2, <2>3
        <4>2. t - CacheMax \in Int /\ withdrawn[k] \in Int BY <1>0, <3>1, <4>1
        <4>3. k \in published \/ (withdrawn[k] >= 0 /\ withdrawn[k] >= t - CacheMax)
          BY <1>2, <3>1, <4>1, <4>2 DEF PublishedAt
        <4> QED BY <1>1, <4>3
      <3>4. verifier'.keysExpire <= instant' + CacheMax BY <1>1, <3>1, <3>2
      <3> HIDE DEF i
      <3>5. (\A k \in verifier.keys : PublishedAt(k, verifier.keysExpire - CacheMax))'
        BY <3>2, <3>3 DEF PublishedAt
      <3> QED BY <3>2, <3>4, <3>5 DEF CacheIsRecent
    <2> QED BY <1>1, <2>2, <2>3, <2>4, ConcludeKeeps
  <1>8. CASE RefreshFails(c)
    <2> DEFINE new == [i EXCEPT !.stage = "unavailable"]
    <2>1. identity' = [identity EXCEPT ![c] = new] /\ UNCHANGED <<accessToken, verifier>>
      BY <1>8 DEF RefreshFails, EndIdentity
    <2>2. CallSound(new) BY <1>0 DEF CallSound, IdentityRow
    <2> HIDE DEF new
    <2> QED BY <1>1, <2>1, <2>2, CallMoves, TokenKept, CacheKept
  <1> QED BY <1>3, <1>4, <1>5, <1>6, <1>7, <1>8 DEF VerifierStep

(* The directory answers about the owner.                                   *)
LEMMA OwnerStepKeeps ==
    ASSUME IdentityInv, NEW c \in IdentityCalls, OwnerStep(c)
    PROVE  IdentityInv'
  <1> DEFINE i == identity[c]
  <1>0. CallSound(i) BY DEF IdentityInv
  <1>1. /\ UNCHANGED <<instant, published, withdrawn, verifier>> /\ UNCHANGED identityProviderVars
        /\ accessToken' = accessToken \/ accessToken' = Invalidated(c)
    BY DEF OwnerStep, DirectoryFails, ReadUser, ReadGroups, ReadRoles, Proceeds, identityProviderVars
  <1>2. ASSUME NEW stage \in {"unavailable", "groups", "roles", "resolved", "denied"}, NEW tenants,
               identity' = [identity EXCEPT ![c].stage = stage, ![c].tenants = tenants]
        PROVE  IdentityInv'
    <2> DEFINE new == [i EXCEPT !.stage = stage, !.tenants = tenants]
    <2>1. CallSound(new) BY <1>0 DEF CallSound, IdentityRow
    <2>2. identity' = [identity EXCEPT ![c] = new] BY <1>2
    <2> HIDE DEF new
    <2> QED BY <1>1, <2>1, <2>2, CallMoves, TokenKept, CacheKept
  <1>3. CASE DirectoryFails(c)
    <2> DEFINE new == [i EXCEPT !.stage = "unavailable"]
    <2>1. CallSound(new) BY <1>0 DEF CallSound, IdentityRow
    <2>2. identity' = [identity EXCEPT ![c] = new] BY <1>3 DEF DirectoryFails, EndIdentity
    <2> HIDE DEF new
    <2> QED BY <1>1, <2>1, <2>2, CallMoves, TokenKept, CacheKept
  <1> QED BY <1>2, <1>3 DEF OwnerStep, ReadUser, ReadGroups, ReadRoles, Proceeds

(* The key cache of the identity verifier follows the rotation: a token     *)
(* signed by a published key is not refused for a stale cache, and a        *)
(* withdrawn key is accepted for less than the maximal age of the cache.    *)
THEOREM RotationIsFollowed == WorkerIdentitySpec => []KeysFollowRotation
  <1>1. IdentityInv /\ [WorkerIdentityNext]_workerIdentityVars => IdentityInv'
    <2> SUFFICES ASSUME IdentityInv, [WorkerIdentityNext]_workerIdentityVars PROVE IdentityInv'
      OBVIOUS
    <2>1. CASE UNCHANGED workerIdentityVars
      BY <2>1 DEF workerIdentityVars, identityProviderVars, identityCallVars, IdentityInv,
         ProviderTypes, TokensAreIssued, CacheIsRecent, CallSound, IdentityRow, Issued, PublishedAt
    <2> QED BY <2>1, ProviderKeeps, TokenStepKeeps, VerifierStepKeeps, OwnerStepKeeps
            DEF WorkerIdentityNext
  <1>2. IdentityInv => KeysFollowRotation
    <2> SUFFICES ASSUME IdentityInv, NEW c \in WorkerCalls
                 PROVE  /\ identity[c].stage = "rejected" =>
                              \/ withdrawn[identity[c].token.key] >= 0
                              \/ identity[c].at >= identity[c].token.expires
                        /\ identity[c].stage = "accepted" /\ identity[c].cached
                              /\ withdrawn[identity[c].token.key] >= 0 =>
                              identity[c].at < withdrawn[identity[c].token.key] + CacheMax
      BY DEF KeysFollowRotation, LiveTokenIsAccepted, WithdrawnKeyExpires
    <2>1. CallSound(identity[c]) BY DEF IdentityInv, IdentityCalls
    <2> QED BY <2>1 DEF CallSound
  <1> QED BY <1>1, <1>2, IdentityInvInit, PTL DEF WorkerIdentitySpec

-----------------------------------------------------------------------------
(* Approvals                                                                *)

(* One inductive invariant carries these proofs: a granted approval names a *)
(* second person, an executor past prepare_dispatch holds a used-up         *)
(* approval of its content, and a claim has one owner until its handler has *)
(* run.                                                                     *)

(* A record's version counts its changes, and a granted one was granted by  *)
(* somebody else.                                                           *)
RecordShape ==
    \A a \in Ids :
        /\ appr[a].status # "absent" => appr[a].content \in Contents
        /\ appr[a].status = "absent" => appr[a].version = 0 /\ appr[a].decided_by = Nil
        /\ appr[a].status = "pending" => appr[a].version = 1
        /\ appr[a].status = "approved" => appr[a].version = 2
        /\ appr[a].status \in {"approved", "consumed"} =>
              appr[a].decided_by \in Approvers \ {Requester[appr[a].content]}

(* An executor that may run its operation has its approval.                 *)
ExecutorShape ==
    \A x \in Executors : ex[x].pc # "idle" =>
        /\ ex[x].op \in Ops
        /\ ex[x].op \in HighRisk => Approved(ex[x].op)

(* What ran is what claimed the key, and a claim has one owner.             *)
ClaimShape ==
    /\ \A o \in Ops : effects[o] > 0 => effects[o] = 1 /\ claimed[KeyOf[o]] = o
    /\ \A x \in Executors : ex[x].pc = "claimed" =>
          /\ claimed[KeyOf[ex[x].op]] = ex[x].op
          /\ effects[ex[x].op] = 0
          /\ \A y \in Executors : ex[y].pc = "claimed" /\ ex[y].op = ex[x].op => x = y

ApprovalsInv == ApprovalsTypeOK /\ RecordShape /\ ExecutorShape /\ ClaimShape /\ EffectsAreApproved

(* A used-up approval is never touched again, so Approved is stable.        *)
LEMMA ApprovedStays ==
    ASSUME ApprovalsInv, NEW o \in Ops, Approved(o),
           \A a \in Ids : appr[a].status = "consumed" => appr'[a] = appr[a]
    PROVE  Approved(o)'
  BY DEF Approved

LEMMA ApprovalsInvInit == ApprovalsInit => ApprovalsInv
  BY OpsAssumption
  DEF ApprovalsInit, ApprovalsInv, ApprovalsTypeOK, RecordShape, ExecutorShape, ClaimShape, EffectsAreApproved,
      Record, Call, NoRecord, IdleExecutor, ApprovalStatus, Ids

(* Whatever only changes the table keeps the invariant, if it keeps the     *)
(* records well-formed and the used-up ones as they are.                    *)
LEMMA TableStep ==
    ASSUME ApprovalsInv, UNCHANGED <<claimed, ex, effects>>,
           appr' \in [Ids -> Record], seen' \in [People -> [Ids -> 0..3]],
           RecordShape',
           \A a \in Ids : appr[a].status = "consumed" => appr'[a] = appr[a]
    PROVE  ApprovalsInv'
  <1>1. ApprovalsTypeOK' BY DEF ApprovalsInv, ApprovalsTypeOK
  <1>2. ExecutorShape' BY ApprovedStays DEF ApprovalsInv, ExecutorShape, ApprovalsTypeOK
  <1>3. ClaimShape' BY DEF ApprovalsInv, ClaimShape
  <1>4. EffectsAreApproved'
    BY ApprovedStays, OpsAssumption DEF ApprovalsInv, EffectsAreApproved
  <1> QED BY <1>1, <1>2, <1>3, <1>4 DEF ApprovalsInv

LEMMA CreateApprovalKeeps ==
    ASSUME ApprovalsInv, NEW a \in Ids, NEW c \in Contents,
           NEW origin \in {"manual", "tool_managed"},
           Create(a, c, origin), UNCHANGED <<seen, claimed, ex, effects>>
    PROVE  ApprovalsInv'
  <1>1. appr' \in [Ids -> Record]
    BY DEF Create, ApprovalsInv, ApprovalsTypeOK, Record, ApprovalStatus
  <1>2. RecordShape'
    BY DEF Create, ApprovalsInv, ApprovalsTypeOK, RecordShape, Record, ApprovalStatus
  <1>3. \A b \in Ids : appr[b].status = "consumed" => appr'[b] = appr[b]
    BY DEF Create, ApprovalsInv, ApprovalsTypeOK
  <1> QED BY <1>1, <1>2, <1>3, TableStep DEF ApprovalsInv, ApprovalsTypeOK

LEMMA PersonStepKeeps ==
    ASSUME ApprovalsInv, NEW p \in People, NEW a \in Ids, PersonStep(p, a)
    PROVE  ApprovalsInv'
  <1>1. CASE Fetch(p, a)
    <2>1. appr[a].version \in 0..3 BY DEF ApprovalsInv, ApprovalsTypeOK, Record
    <2> QED BY <1>1, <2>1, TableStep DEF Fetch, ApprovalsInv, ApprovalsTypeOK, RecordShape
  <1>2. CASE Decide(p, a) \/ Revoke(p, a)
    <2>1. PICK s \in {"approved", "rejected", "revoked"} :
            /\ appr[a].status \in {"pending", "approved"}
            /\ s # "revoked" => /\ appr[a].status = "pending"
                                /\ p \in Approvers \ {Requester[appr[a].content]}
            /\ appr' = [appr EXCEPT ![a] = Decided(appr[a], s, p)]
            /\ UNCHANGED <<seen, claimed, ex, effects>>
      BY <1>2 DEF Decide, Revoke
    <2>2. appr[a] \in Record /\ appr[a].version \in 1..2
      BY <2>1 DEF ApprovalsInv, ApprovalsTypeOK, RecordShape
    <2>3. Decided(appr[a], s, p) \in Record
      BY <2>2 DEF Decided, Record, ApprovalStatus
    <2>4. appr' \in [Ids -> Record] BY <2>1, <2>3 DEF ApprovalsInv, ApprovalsTypeOK
    <2>5. RecordShape'
      BY <2>1, <2>2 DEF ApprovalsInv, ApprovalsTypeOK, RecordShape, Decided
    <2>6. \A b \in Ids : appr[b].status = "consumed" => appr'[b] = appr[b]
      BY <2>1 DEF ApprovalsInv, ApprovalsTypeOK
    <2> QED BY <2>1, <2>4, <2>5, <2>6, TableStep DEF ApprovalsInv, ApprovalsTypeOK
  <1> QED BY <1>1, <1>2 DEF PersonStep

(* The record a high-risk operation is prepared with.                       *)
LEMMA ConsumeKeeps ==
    ASSUME ApprovalsInv, NEW a \in Ids, NEW o \in Ops, Consumable(a, o),
           appr' = [appr EXCEPT ![a] = Consumed(appr[a], KeyOf[o])]
    PROVE  /\ appr' \in [Ids -> Record]
           /\ RecordShape'
           /\ \A b \in Ids : appr[b].status = "consumed" => appr'[b] = appr[b]
           /\ Approved(o)'
  <1>1. appr[a] \in Record /\ KeyOf[o] \in Keys
    BY OpsAssumption DEF ApprovalsInv, ApprovalsTypeOK
  <1>2. CASE appr[a].status = "consumed"
    <2>1. appr' = appr BY <1>2 DEF Consumed, ApprovalsInv, ApprovalsTypeOK
    <2>2. Approved(o) BY <1>2 DEF Consumable, Approved, ApprovalsInv, RecordShape
    <2> QED BY <2>1, <2>2 DEF ApprovalsInv, ApprovalsTypeOK, RecordShape, Approved
  <1>3. CASE appr[a].status = "approved"
    <2>1. appr[a].version = 2 BY <1>3 DEF ApprovalsInv, RecordShape
    <2>2. Consumed(appr[a], KeyOf[o]) \in Record
      BY <1>1, <1>3, <2>1 DEF Consumed, Record, ApprovalStatus
    <2>3. appr' \in [Ids -> Record] BY <2>2 DEF ApprovalsInv, ApprovalsTypeOK
    <2>4. /\ appr'[a].status = "consumed" /\ appr'[a].origin = appr[a].origin
          /\ appr'[a].content = appr[a].content
          /\ appr'[a].decided_by = appr[a].decided_by
          /\ appr'[a].consumed_by = KeyOf[o]
      BY <1>1, <1>3 DEF Consumed, ApprovalsInv, ApprovalsTypeOK, Record
    <2>5. \A b \in Ids \ {a} : appr'[b] = appr[b] BY DEF ApprovalsInv, ApprovalsTypeOK
    <2>6. RecordShape' BY <1>3, <2>4, <2>5 DEF ApprovalsInv, RecordShape
    <2>7. Approved(o)'
      BY <1>3, <2>4 DEF Approved, Consumable, ApprovalsInv, RecordShape
    <2> QED BY <1>3, <2>3, <2>5, <2>6, <2>7
  <1> QED BY <1>2, <1>3 DEF Consumable

LEMMA PrepareKeeps ==
    ASSUME ApprovalsInv, NEW x \in Executors, NEW o \in Ops, NEW a \in Ids, Prepare(x, o, a)
    PROVE  ApprovalsInv'
  <1>1. /\ appr' \in [Ids -> Record]
        /\ RecordShape'
        /\ \A b \in Ids : appr[b].status = "consumed" => appr'[b] = appr[b]
        /\ o \in HighRisk => Approved(o)'
    <2>1. CASE o \notin HighRisk /\ UNCHANGED appr
      BY <2>1 DEF ApprovalsInv, ApprovalsTypeOK, RecordShape
    <2>2. CASE o \in HighRisk /\ Consumable(a, o)
               /\ appr' = [appr EXCEPT ![a] = Consumed(appr[a], KeyOf[o])]
      BY <2>2, ConsumeKeeps
    <2> QED BY <2>1, <2>2 DEF Prepare
  <1>2. /\ ex'[x] = [pc |-> "prepared", op |-> o]
        /\ \A y \in Executors \ {x} : ex'[y] = ex[y]
        /\ ex' \in [Executors -> Call]
        /\ UNCHANGED <<seen, claimed, effects>>
    BY DEF Prepare, ApprovalsInv, ApprovalsTypeOK, Call
  <1>3. ApprovalsTypeOK' BY <1>1, <1>2 DEF ApprovalsInv, ApprovalsTypeOK
  <1>4. ExecutorShape'
    <2>1. \A q \in Ops : Approved(q) => Approved(q)' BY <1>1, ApprovedStays
    <2> QED BY <1>1, <1>2, <2>1 DEF ApprovalsInv, ExecutorShape
  <1>5. ClaimShape' BY <1>2 DEF ApprovalsInv, ClaimShape
  <1>6. EffectsAreApproved'
    BY <1>1, <1>2, ApprovedStays, OpsAssumption DEF ApprovalsInv, EffectsAreApproved
  <1> QED BY <1>1, <1>3, <1>4, <1>5, <1>6 DEF ApprovalsInv

LEMMA ExecutorCallKeeps ==
    ASSUME ApprovalsInv, NEW x \in Executors, ClaimKey(x) \/ RunHandler(x) \/ ExecutorVanishes(x)
    PROVE  ApprovalsInv'
  <1> USE OpsAssumption
  <1>0. /\ ex[x] \in Call /\ ex[x].pc # "idle" /\ ex[x].op \in Ops
        /\ KeyOf[ex[x].op] \in Keys
    BY DEF ClaimKey, RunHandler, ExecutorVanishes, ApprovalsInv, ApprovalsTypeOK, ExecutorShape
  <1>1. UNCHANGED <<appr, seen>> BY DEF ClaimKey, RunHandler, ExecutorVanishes
  <1>2. RecordShape' /\ (\A o \in Ops : Approved(o) => Approved(o)')
    BY <1>1 DEF ApprovalsInv, RecordShape, Approved
  <1>3. CASE ex' = [ex EXCEPT ![x] = IdleExecutor] /\ UNCHANGED <<claimed, effects>>
    <2>1. ApprovalsTypeOK' BY <1>1, <1>3 DEF ApprovalsInv, ApprovalsTypeOK, Call, IdleExecutor
    <2>2. ExecutorShape'
      BY <1>2, <1>3 DEF ApprovalsInv, ApprovalsTypeOK, ExecutorShape, IdleExecutor
    <2>3. ClaimShape'
      BY <1>3 DEF ApprovalsInv, ApprovalsTypeOK, ClaimShape, IdleExecutor
    <2>4. EffectsAreApproved' BY <1>2, <1>3 DEF ApprovalsInv, EffectsAreApproved
    <2> QED BY <1>2, <2>1, <2>2, <2>3, <2>4 DEF ApprovalsInv
  <1>4. CASE /\ ex[x].pc = "prepared" /\ claimed[KeyOf[ex[x].op]] = Nil
             /\ claimed' = [claimed EXCEPT ![KeyOf[ex[x].op]] = ex[x].op]
             /\ ex' = [ex EXCEPT ![x].pc = "claimed"]
             /\ UNCHANGED effects
    <2>1. ex'[x].pc = "claimed" /\ ex'[x].op = ex[x].op /\ ex'[x] \in Call
      BY <1>0, <1>4 DEF ApprovalsInv, ApprovalsTypeOK, Call
    <2>2. \A y \in Executors \ {x} : ex'[y] = ex[y] BY <1>4 DEF ApprovalsInv, ApprovalsTypeOK
    <2>3. ApprovalsTypeOK' BY <1>0, <1>1, <1>4, <2>1 DEF ApprovalsInv, ApprovalsTypeOK
    <2>4. ExecutorShape' BY <1>0, <1>2, <2>1, <2>2 DEF ApprovalsInv, ExecutorShape
    <2>5. \A o \in Ops : KeyOf[o] = KeyOf[ex[x].op] => claimed[KeyOf[o]] # o
      BY <1>4
    <2>6. \A o \in Ops : effects[o] > 0 => KeyOf[o] # KeyOf[ex[x].op]
      BY <2>5 DEF ApprovalsInv, ClaimShape
    <2>7. \A y \in Executors : ex[y].pc = "claimed" =>
             ex[y].op \in Ops /\ KeyOf[ex[y].op] # KeyOf[ex[x].op]
      BY <2>5 DEF ApprovalsInv, ClaimShape, ExecutorShape
    <2>8. /\ claimed'[KeyOf[ex[x].op]] = ex[x].op
          /\ \A k \in Keys \ {KeyOf[ex[x].op]} : claimed'[k] = claimed[k]
      BY <1>0, <1>4 DEF ApprovalsInv, ApprovalsTypeOK
    <2>9. effects[ex[x].op] = 0 BY <1>0, <2>6 DEF ApprovalsInv, ApprovalsTypeOK
    <2>10. \A o \in Ops : effects'[o] > 0 => effects'[o] = 1 /\ claimed'[KeyOf[o]] = o
      BY <1>4, <2>6, <2>8 DEF ApprovalsInv, ClaimShape
    <2>11. ClaimShape'
      <3> SUFFICES ASSUME NEW y \in Executors, ex'[y].pc = "claimed"
                   PROVE  /\ claimed'[KeyOf[ex'[y].op]] = ex'[y].op
                          /\ effects'[ex'[y].op] = 0
                          /\ \A z \in Executors :
                               ex'[z].pc = "claimed" /\ ex'[z].op = ex'[y].op => y = z
        BY <2>10 DEF ClaimShape
      <3>1. CASE y = x BY <3>1, <1>4, <2>1, <2>2, <2>7, <2>8, <2>9
      <3>2. CASE y # x
        <4>1. /\ ex'[y] = ex[y] /\ ex[y].pc = "claimed" /\ ex[y].op \in Ops
              /\ KeyOf[ex[y].op] \in Keys \ {KeyOf[ex[x].op]}
          BY <3>2, <2>2, <2>7
        <4> QED BY <3>2, <4>1, <1>4, <2>1, <2>2, <2>8 DEF ApprovalsInv, ClaimShape
      <3> QED BY <3>1, <3>2
    <2>12. EffectsAreApproved' BY <1>2, <1>4 DEF ApprovalsInv, EffectsAreApproved
    <2> QED BY <1>2, <2>3, <2>4, <2>11, <2>12 DEF ApprovalsInv
  <1>5. CASE RunHandler(x)
    <2>1. /\ ex[x].pc = "claimed" /\ effects[ex[x].op] = 0
          /\ claimed[KeyOf[ex[x].op]] = ex[x].op
      BY <1>5 DEF RunHandler, ApprovalsInv, ClaimShape
    <2>2. /\ effects'[ex[x].op] = 1 /\ claimed' = claimed
          /\ \A o \in Ops \ {ex[x].op} : effects'[o] = effects[o]
          /\ effects' \in [Ops -> Nat]
      BY <1>0, <1>5, <2>1 DEF RunHandler, ApprovalsInv, ApprovalsTypeOK
    <2>3. /\ ex'[x].pc = "idle" /\ ex' \in [Executors -> Call]
          /\ \A y \in Executors \ {x} : ex'[y] = ex[y]
      BY <1>5 DEF RunHandler, ApprovalsInv, ApprovalsTypeOK, Call, IdleExecutor
    <2>4. ApprovalsTypeOK' BY <1>1, <2>2, <2>3 DEF ApprovalsInv, ApprovalsTypeOK
    <2>5. ExecutorShape' BY <1>2, <2>3 DEF ApprovalsInv, ExecutorShape
    <2>6. ClaimShape' BY <1>0, <2>1, <2>2, <2>3 DEF ApprovalsInv, ClaimShape, ExecutorShape
    <2>7. EffectsAreApproved'
      BY <1>0, <1>2, <2>2 DEF ApprovalsInv, EffectsAreApproved, ExecutorShape
    <2> QED BY <1>2, <2>4, <2>5, <2>6, <2>7 DEF ApprovalsInv
  <1> QED BY <1>3, <1>4, <1>5 DEF ClaimKey, ExecutorVanishes

LEMMA ApprovalsInvNext == ApprovalsInv /\ [ApprovalsNext]_approvalVars => ApprovalsInv'
  <1> SUFFICES ASSUME ApprovalsInv, [ApprovalsNext]_approvalVars PROVE ApprovalsInv' OBVIOUS
  <1>1. ASSUME NEW a \in Ids, NEW c \in Contents, Request(a, c) PROVE ApprovalsInv'
    BY <1>1, CreateApprovalKeeps DEF Request
  <1>2. ASSUME NEW p \in People, NEW a \in Ids, PersonStep(p, a) PROVE ApprovalsInv'
    BY <1>2, PersonStepKeeps
  <1>3. ASSUME NEW x \in Executors, ExecutorStep(x) PROVE ApprovalsInv'
    <2>1. ASSUME NEW o \in Ops, RequestForTool(x, o) PROVE ApprovalsInv'
      <3>1. o \in Ids /\ ContentOf[o] \in Contents
        BY <2>1, OpsAssumption DEF RequestForTool, Ids
      <3> QED BY <2>1, <3>1, CreateApprovalKeeps DEF RequestForTool
    <2>2. ASSUME NEW o \in Ops, NEW a \in Ids, Prepare(x, o, a) PROVE ApprovalsInv'
      BY <2>2, PrepareKeeps
    <2>3. CASE ClaimKey(x) \/ RunHandler(x) \/ ExecutorVanishes(x) BY <2>3, ExecutorCallKeeps
    <2> QED BY <1>3, <2>1, <2>2, <2>3 DEF ExecutorStep
  <1>4. CASE UNCHANGED approvalVars
    BY <1>4 DEF approvalVars, ApprovalsInv, ApprovalsTypeOK, RecordShape, ExecutorShape, ClaimShape,
                EffectsAreApproved, Approved
  <1> QED BY <1>1, <1>2, <1>3, <1>4 DEF ApprovalsNext

(* The types hold, versions included: a record changes at most three times  *)
(* (create, decide, revoke or consume).                                     *)
THEOREM ApprovalsTyped == ApprovalsSpec => []ApprovalsTypeOK
  <1>1. ApprovalsInv => ApprovalsTypeOK BY DEF ApprovalsInv
  <1> QED BY <1>1, ApprovalsInvInit, ApprovalsInvNext, PTL DEF ApprovalsSpec

(* No high-risk handler ever ran without a second person's approval of its  *)
(* content that its own execution used up (prepare_dispatch, consume).      *)
THEOREM ApprovalComesFirst == ApprovalsSpec => []EffectsAreApproved
  <1>1. ApprovalsInv => EffectsAreApproved BY DEF ApprovalsInv
  <1> QED BY <1>1, ApprovalsInvInit, ApprovalsInvNext, PTL DEF ApprovalsSpec

(* One execution id lets one handler run once, whatever crashes, retries    *)
(* and repeated call ids do (execute, idempotency.claim).                   *)
THEOREM EffectsAtMostOnce == ApprovalsSpec => []AtMostOnce
  <1>1. ApprovalsInv => AtMostOnce
    BY DEF ApprovalsInv, ApprovalsTypeOK, ClaimShape, AtMostOnce
  <1> QED BY <1>1, ApprovalsInvInit, ApprovalsInvNext, PTL DEF ApprovalsSpec

(* Consuming changes nobody's decision.                                     *)
LEMMA ConsumedKeepsDecision ==
    ASSUME NEW r, NEW k
    PROVE  /\ r.status = "consumed" => Consumed(r, k) = r
           /\ Consumed(r, k).decided_by = r.decided_by
  BY DEF Consumed

(* What DecisionsStand says of one step and one record.                     *)
DecisionStands(a) ==
    /\ appr[a].status \in {"rejected", "revoked", "consumed"} => appr'[a] = appr[a]
    /\ appr'[a].decided_by # appr[a].decided_by =>
          seen[appr'[a].decided_by][a] = appr[a].version

(* A step that writes one record and leaves the others.                     *)
LEMMA OneRecordWritten ==
    ASSUME ApprovalsInv, NEW b \in Ids, NEW r,
           appr' = [appr EXCEPT ![b] = r],
           appr[b].status \in {"rejected", "revoked", "consumed"} => r = appr[b],
           r.decided_by # appr[b].decided_by => seen[r.decided_by][b] = appr[b].version
    PROVE  \A a \in Ids : DecisionStands(a)
  BY DEF DecisionStands, ApprovalsInv, ApprovalsTypeOK

LEMMA DecisionStandsNext ==
    ASSUME ApprovalsInv, [ApprovalsNext]_approvalVars
    PROVE  \A a \in Ids : DecisionStands(a)
  <1>1. ASSUME NEW b \in Ids, NEW c, NEW origin, Create(b, c, origin)
        PROVE  \A a \in Ids : DecisionStands(a)
    <2>1. appr[b].status = "absent" /\ appr[b].decided_by = Nil
      BY <1>1 DEF Create, ApprovalsInv, RecordShape
    <2> QED BY <1>1, <2>1, OneRecordWritten DEF Create
  <1>2. ASSUME NEW p \in People, NEW b \in Ids, Decide(p, b) \/ Revoke(p, b)
        PROVE  \A a \in Ids : DecisionStands(a)
    <2>1. PICK s : /\ appr' = [appr EXCEPT ![b] = Decided(appr[b], s, p)]
                   /\ appr[b].status \in {"pending", "approved"}
                   /\ appr[b].version = seen[p][b]
      BY <1>2 DEF Decide, Revoke
    <2>2. Decided(appr[b], s, p).decided_by = p BY DEF Decided
    <2> QED BY <2>1, <2>2, OneRecordWritten
  <1>3. ASSUME NEW x, NEW o \in Ops, NEW b \in Ids, Prepare(x, o, b)
        PROVE  \A a \in Ids : DecisionStands(a)
    <2>1. CASE UNCHANGED appr BY <2>1 DEF DecisionStands
    <2>2. CASE appr' = [appr EXCEPT ![b] = Consumed(appr[b], KeyOf[o])] /\ Consumable(b, o)
      BY <2>2, ConsumedKeepsDecision, OneRecordWritten DEF Consumable
    <2> QED BY <1>3, <2>1, <2>2 DEF Prepare
  <1>4. CASE UNCHANGED appr BY <1>4 DEF DecisionStands
  <1>5. ASSUME NEW x \in Executors, ExecutorStep(x)
        PROVE  \A a \in Ids : DecisionStands(a)
    <2>1. ASSUME NEW o \in Ops, RequestForTool(x, o)
          PROVE  \A a \in Ids : DecisionStands(a)
      <3>1. o \in Ids BY <2>1 DEF RequestForTool, Ids
      <3> QED BY <2>1, <3>1, <1>1 DEF RequestForTool
    <2>2. ClaimKey(x) \/ RunHandler(x) \/ ExecutorVanishes(x) => UNCHANGED appr
      BY DEF ClaimKey, RunHandler, ExecutorVanishes
    <2> QED BY <1>3, <1>4, <1>5, <2>1, <2>2 DEF ExecutorStep
  <1>6. ASSUME NEW p \in People, NEW b \in Ids, PersonStep(p, b)
        PROVE  \A a \in Ids : DecisionStands(a)
    BY <1>2, <1>4, <1>6 DEF PersonStep, Fetch
  <1> QED BY <1>1, <1>4, <1>5, <1>6 DEF ApprovalsNext, approvalVars, Request

(* A rejected, revoked or used-up approval never changes again, and only    *)
(* who had seen the record as it is decides it (decide, revoke with         *)
(* expected_version; consume).                                              *)
THEOREM DecisionsAreFinal == ApprovalsSpec => DecisionsStand
  <1>1. ApprovalsInv /\ [ApprovalsNext]_approvalVars =>
          [\A a \in Ids :
              /\ appr[a].status \in {"rejected", "revoked", "consumed"} => appr'[a] = appr[a]
              /\ appr'[a].decided_by # appr[a].decided_by =>
                    seen[appr'[a].decided_by][a] = appr[a].version]_approvalVars
    BY DecisionStandsNext DEF DecisionStands
  <1> QED BY <1>1, ApprovalsInvInit, ApprovalsInvNext, PTL DEF ApprovalsSpec, DecisionsStand

-----------------------------------------------------------------------------
(* Connectors                                                               *)

RevisionRow ==
    [action : {"activate", "disable"}, status : {"pending", "active", "rejected", "disabled"},
     at : Adapters, by : Administrators, reviewer : ConnectorReviewers \cup {NoPrincipal}]

RemoteRow(c) ==
    [step : {"idle", "token", "waiting", "backoff", "retryable", "failed", "done"},
     tries : 0 .. JobTries[c], attempt : 0 .. ClientAttempts, at : 0 .. RevisionLimit]

PostRow ==
    [at : Adapters,
     step : {"posted", "begun", "acted", "answered", "refused", "unknown", "gone"}]

CallKeys == {CallKey[c] : c \in ConnectorCalls}

(* At most the last revision is pending.                                    *)
RegistryInv ==
    /\ revisions \in Seq(RevisionRow) /\ Len(revisions) <= RevisionLimit
    /\ \A v \in Pending : v = Len(revisions)
    /\ OneRevisionInForce

(* An execution that posts has a revision and attempts left for what it     *)
(* will post; a job that is done was answered last.                         *)
RemoteSound(c) ==
    /\ remote[c] \in RemoteRow(c)
    /\ remote[c].step \in {"token", "waiting", "backoff"} =>
          remote[c].at \in DOMAIN revisions /\ remote[c].tries > 0
    /\ remote[c].step \in {"waiting", "done"} => posts[c] # <<>>
    /\ remote[c].step = "token" => remote[c].attempt = 0
    /\ remote[c].step = "backoff" => remote[c].attempt < ClientAttempts
    /\ remote[c].step = "done" => Answer(c) = "answered"

(* What one job may have posted so far.                                     *)
PostsAllowed(r) ==
    IF r.step \in {"token", "waiting", "backoff"}
    THEN ClientAttempts * (r.tries - 1) + r.attempt ELSE ClientAttempts * r.tries

ClientInv ==
    /\ breaker \in [failures : 0 .. BreakerThreshold, open : BOOLEAN]
    /\ remote = [c \in ConnectorCalls |-> remote[c]]
    /\ posts \in [ConnectorCalls -> Seq(PostRow)]
    /\ \A c \in ConnectorCalls : RemoteSound(c) /\ Len(posts[c]) <= PostsAllowed(remote[c])

(* The request is in the hands of the adapter, or was carried out.          *)
Started(c, n) == posts[c][n].step \in {"begun", "acted"} \/ <<c, n>> \in carried

WriteRequest(c, n) == c \in ConnectorCalls \ ReadCalls /\ n \in DOMAIN posts[c]

EntryRow == [body : {CallBody[c] : c \in ConnectorCalls} \cup {"none"}, result : BOOLEAN]

LedgerType == ledger \in [Adapters -> [CallKeys -> EntryRow]]

CarriedWerePosted ==
    \A e \in carried : \E c \in ConnectorCalls : \E n \in DOMAIN posts[c] : e = <<c, n>>

(* What was started has its intent in the ledger, and what was answered its  *)
(* result.                                                                  *)
RequestSound(c, n) ==
    /\ Started(c, n) => Entry(c, n).body = CallBody[c]
    /\ posts[c][n].step = "acted" => <<c, n>> \in carried
    /\ posts[c][n].step = "answered" => Entry(c, n).result /\ Entry(c, n).body = CallBody[c]

(* Of the writes under one key an adapter starts one.                       *)
OneIsStarted ==
    \A c, n, d, m :
        /\ WriteRequest(c, n) /\ WriteRequest(d, m) /\ Started(c, n) /\ Started(d, m)
        /\ CallKey[c] = CallKey[d] /\ At(c, n) = At(d, m)
        => c = d /\ n = m

ResultsWereCarried ==
    \A a \in Adapters, k \in CallKeys :
        ledger[a][k].result =>
            \E c, n : /\ WriteRequest(c, n) /\ <<c, n>> \in carried
                      /\ CallKey[c] = k /\ At(c, n) = a

AdapterInv ==
    /\ LedgerType /\ CarriedWerePosted
    /\ \A c, n : WriteRequest(c, n) => RequestSound(c, n)
    /\ OneIsStarted /\ ResultsWereCarried

ConnectorsInv == RegistryInv /\ ClientInv /\ AdapterInv

-----------------------------------------------------------------------------
(* No revision, no post and no entry of the ledger is there at first.       *)
LEMMA ConnectorsInvInit == ConnectorsInit => ConnectorsInv
  <1> SUFFICES ASSUME ConnectorsInit PROVE ConnectorsInv OBVIOUS
  <1>1. RegistryInv
    BY ConnectorAssumption DEF ConnectorsInit, RegistryInv, Pending, OneRevisionInForce, Active
  <1>2. ASSUME NEW c \in ConnectorCalls
        PROVE  RemoteSound(c) /\ Len(posts[c]) <= PostsAllowed(remote[c])
    BY ConnectorAssumption
       DEF ConnectorsInit, CallsInit, NewRemote, RemoteSound, RemoteRow, PostsAllowed
  <1>3. ClientInv
    BY <1>2, ConnectorAssumption DEF ConnectorsInit, CallsInit, ClientInv
  <1>4. \A c, n : ~WriteRequest(c, n) BY DEF ConnectorsInit, CallsInit, WriteRequest
  <1>5. LedgerType /\ CarriedWerePosted /\ OneIsStarted /\ ResultsWereCarried
    <2>1. Unseen \in EntryRow /\ ~Unseen.result BY DEF Unseen, EntryRow
    <2>2. ledger = [a \in Adapters |-> [k \in CallKeys |-> Unseen]]
      BY DEF ConnectorsInit, CallsInit, CallKeys
    <2>3. LedgerType BY <2>1, <2>2 DEF LedgerType
    <2>4. ResultsWereCarried
      <3>1. \A a \in Adapters, k \in CallKeys : ledger[a][k] = Unseen BY <2>2
      <3> QED BY <2>1, <3>1 DEF ResultsWereCarried
    <2> QED BY <1>4, <2>3, <2>4 DEF ConnectorsInit, CallsInit, CarriedWerePosted, OneIsStarted
  <1> QED BY <1>1, <1>3, <1>4, <1>5 DEF ConnectorsInv, AdapterInv

-----------------------------------------------------------------------------
(* A post is a row of its call, to one adapter, under the key of the call.  *)
LEMMA PostIsRow ==
    ASSUME ClientInv, NEW c \in ConnectorCalls, NEW n \in DOMAIN posts[c]
    PROVE  posts[c][n] \in PostRow /\ At(c, n) \in Adapters /\ CallKey[c] \in CallKeys
  <1>1. posts[c] \in Seq(PostRow) BY DEF ClientInv
  <1>2. posts[c][n] \in PostRow BY <1>1
  <1> QED BY <1>2 DEF PostRow, At, CallKeys

(* A step that leaves posts, ledger and GitHub alone keeps what is said of  *)
(* them.                                                                    *)
LEMMA AdapterStays == ASSUME AdapterInv, UNCHANGED <<posts, ledger, carried>> PROVE AdapterInv'
  <1>1. LedgerType' /\ CarriedWerePosted' BY DEF AdapterInv, LedgerType, CarriedWerePosted
  <1>2. \A c, n : /\ WriteRequest(c, n)' <=> WriteRequest(c, n)
                  /\ RequestSound(c, n)' <=> RequestSound(c, n)
                  /\ Started(c, n)' <=> Started(c, n)
                  /\ At(c, n)' = At(c, n)
    BY DEF WriteRequest, RequestSound, Started, Entry, At
  <1>3. OneIsStarted' BY <1>2 DEF AdapterInv, OneIsStarted
  <1>4. ResultsWereCarried' BY <1>2 DEF AdapterInv, ResultsWereCarried
  <1> QED BY <1>1, <1>2, <1>3, <1>4 DEF AdapterInv

(* The registry changes, and no call.                                       *)
LEMMA RegistryKeeps ==
    ASSUME ConnectorsInv, RegistryNext
    PROVE  ConnectorsInv'
  <1>1. UNCHANGED <<remote, breaker, posts, ledger, carried>>
    BY DEF RegistryNext, ProposeRevision, RequestDisable, Insert, Review
  <1>2. revisions \in Seq(RevisionRow) /\ Len(revisions) \in Nat /\ RevisionLimit \in Nat
    BY ConnectorAssumption DEF ConnectorsInv, RegistryInv
  <1>3. RegistryInv' /\ DOMAIN revisions \subseteq DOMAIN revisions'
    <2>1. ASSUME NEW p \in Administrators, NEW action \in {"activate", "disable"},
                 NEW a \in Adapters, Insert(p, action, a)
          PROVE  RegistryInv' /\ DOMAIN revisions \subseteq DOMAIN revisions'
      <3> DEFINE row == [action |-> action, status |-> "pending", at |-> a, by |-> p,
                         reviewer |-> NoPrincipal]
      <3>1. row \in RevisionRow BY DEF RevisionRow
      <3>2. revisions' = Append(revisions, row) /\ Pending = {} /\ Len(revisions) < RevisionLimit
        BY <2>1 DEF Insert
      <3> HIDE DEF row
      <3>3. /\ revisions' \in Seq(RevisionRow) /\ Len(revisions') = Len(revisions) + 1
            /\ \A u \in 1..Len(revisions) : revisions'[u] = revisions[u]
            /\ revisions'[Len(revisions) + 1] = row
        BY <1>2, <3>1, <3>2
      <3>4. row.status = "pending" BY DEF row
      <3>5. \A v \in Pending' : v = Len(revisions')
        BY <1>2, <3>2, <3>3 DEF Pending
      <3>6. OneRevisionInForce'
        BY <1>2, <3>3, <3>4 DEF ConnectorsInv, RegistryInv, OneRevisionInForce, Active
      <3> QED BY <1>2, <3>2, <3>3, <3>5, <3>6 DEF RegistryInv
    <2>2. ASSUME NEW p \in ConnectorReviewers, NEW v \in DOMAIN revisions, MayReview(p, v),
                 NEW status \in {"rejected", "active", "disabled"},
                 revisions' = Reviewed(p, v, status)
          PROVE  RegistryInv' /\ DOMAIN revisions \subseteq DOMAIN revisions'
      <3>1. v = Len(revisions) /\ v \in Pending /\ revisions[v].by # p /\ v \in Nat
        BY <1>2, <2>2 DEF MayReview, ConnectorsInv, RegistryInv
      <3>2. \A u \in 1..Len(revisions) : revisions[u] \in RevisionRow BY <1>2
      <3>3. \A u \in 1..Len(revisions) :
              /\ revisions'[u] \in RevisionRow
              /\ u = v => /\ revisions'[u].status = status /\ revisions'[u].reviewer = p
                          /\ revisions'[u].by = revisions[u].by
              /\ u # v => \/ revisions'[u] = revisions[u] /\ (u \in Active => status = "rejected")
                          \/ u \in Active /\ revisions'[u].status = "disabled"
        <4> SUFFICES ASSUME NEW u \in 1..Len(revisions)
                     PROVE  /\ revisions'[u] \in RevisionRow
                            /\ u = v => /\ revisions'[u].status = status /\ revisions'[u].reviewer = p
                                        /\ revisions'[u].by = revisions[u].by
                            /\ u # v => \/ /\ revisions'[u] = revisions[u]
                                           /\ u \in Active => status = "rejected"
                                        \/ u \in Active /\ revisions'[u].status = "disabled"
          OBVIOUS
        <4>1. revisions[u] \in RevisionRow /\ u \in DOMAIN revisions BY <1>2, <3>2
        <4>2. CASE u = v
          <5>1. revisions'[u] = [revisions[u] EXCEPT !.status = status, !.reviewer = p]
            BY <2>2, <4>1, <4>2 DEF Reviewed
          <5> QED BY <4>1, <4>2, <5>1 DEF RevisionRow
        <4>3. CASE u # v /\ status # "rejected" /\ u \in Active
          <5>1. revisions'[u] = [revisions[u] EXCEPT !.status = "disabled"]
            BY <2>2, <4>1, <4>3 DEF Reviewed, Superseded
          <5> QED BY <4>1, <4>3, <5>1 DEF RevisionRow
        <4>4. CASE u # v /\ ~(status # "rejected" /\ u \in Active)
          <5>1. revisions'[u] = revisions[u] BY <2>2, <4>1, <4>4 DEF Reviewed, Superseded
          <5> QED BY <4>1, <4>4, <5>1
        <4> QED BY <4>2, <4>3, <4>4
      <3>4. DOMAIN revisions' = 1..Len(revisions) /\ revisions' \in [1..Len(revisions) -> RevisionRow]
        <4>1. DOMAIN revisions = 1..Len(revisions) BY <1>2
        <4>2. revisions' = [u \in 1..Len(revisions) |-> revisions'[u]] BY <2>2, <4>1 DEF Reviewed
        <4> QED BY <3>3, <4>2
      <3>5. revisions' \in Seq(RevisionRow) /\ Len(revisions') = Len(revisions)
        BY <1>2, <3>4
      <3>6. Pending' = {}
        BY <1>2, <3>1, <3>3, <3>4 DEF ConnectorsInv, RegistryInv, Pending, Active
      <3>7. OneRevisionInForce'
        <4>1. p # NoPrincipal BY ConnectorAssumption
        <4> QED BY <1>2, <3>1, <3>3, <3>4, <4>1
            DEF ConnectorsInv, RegistryInv, OneRevisionInForce, Active, Pending
      <3> QED BY <1>2, <3>4, <3>5, <3>6, <3>7 DEF ConnectorsInv, RegistryInv
    <2>3. ASSUME NEW p \in Administrators, ProposeRevision(p) \/ RequestDisable(p)
          PROVE  RegistryInv' /\ DOMAIN revisions \subseteq DOMAIN revisions'
      <3>1. \A v \in DOMAIN revisions : revisions[v].at \in Adapters
        <4>1. \A v \in DOMAIN revisions : revisions[v] \in RevisionRow BY <1>2
        <4> QED BY <4>1 DEF RevisionRow
      <3> QED BY <2>1, <2>3, <3>1 DEF ProposeRevision, RequestDisable, Active
    <2> QED BY <2>2, <2>3 DEF RegistryNext, Review
  <1>4. ClientInv' BY <1>1, <1>3 DEF ConnectorsInv, ClientInv, RemoteSound, Answer
  <1>5. AdapterInv' BY <1>1, AdapterStays DEF ConnectorsInv
  <1> QED BY <1>3, <1>4, <1>5 DEF ConnectorsInv

(* A step that leaves the revisions alone keeps the registry.               *)
LEMMA RegistryStays == ASSUME RegistryInv, UNCHANGED revisions PROVE RegistryInv'
  BY DEF RegistryInv, Pending, OneRevisionInForce, Active

(* One more execution is allowed ClientAttempts more posts.                 *)
LEMMA AllowedGrows ==
    ASSUME NEW t \in Nat
    PROVE  ClientAttempts * (t + 1) = ClientAttempts * t + ClientAttempts /\ ClientAttempts * t \in Nat
           /\ t + 1 - 1 = t
  BY ConnectorAssumption

(* More executions of a job are never allowed fewer posts.                  *)
LEMMA AllowedBounded ==
    ASSUME NEW t \in Nat, NEW u \in Nat, t <= u
    PROVE  ClientAttempts * t <= ClientAttempts * u
  BY ConnectorAssumption

-----------------------------------------------------------------------------
(* A step of one job that posts nothing.                                    *)
LEMMA RemoteMoves ==
    ASSUME ConnectorsInv, NEW c \in ConnectorCalls, NEW r,
           remote' = [remote EXCEPT ![c] = r], UNCHANGED <<revisions, posts, ledger, carried>>,
           breaker' \in [failures : 0 .. BreakerThreshold, open : BOOLEAN],
           r \in RemoteRow(c),
           r.step \in {"token", "waiting", "backoff"} => r.at \in DOMAIN revisions /\ r.tries > 0,
           r.step \in {"waiting", "done"} => posts[c] # <<>>,
           r.step = "token" => r.attempt = 0, r.step = "backoff" => r.attempt < ClientAttempts,
           r.step = "done" => Answer(c) = "answered",
           Len(posts[c]) <= PostsAllowed(r)
    PROVE  ConnectorsInv'
  <1>1. RegistryInv' BY RegistryStays DEF ConnectorsInv
  <1>2. remote'[c] = r /\ \A d \in ConnectorCalls \ {c} : remote'[d] = remote[d]
    BY DEF ConnectorsInv, ClientInv
  <1>3. ASSUME NEW d \in ConnectorCalls
        PROVE  RemoteSound(d)' /\ Len(posts'[d]) <= PostsAllowed(remote'[d])
    <2>1. CASE d = c
      BY <1>2, <2>1 DEF RemoteSound, RemoteRow, Answer
    <2>2. CASE d # c
      <3>1. RemoteSound(d) /\ Len(posts[d]) <= PostsAllowed(remote[d])
        BY DEF ConnectorsInv, ClientInv
      <3> QED BY <1>2, <2>2, <3>1 DEF RemoteSound, RemoteRow, Answer
    <2> QED BY <2>1, <2>2
  <1>4. ClientInv' BY <1>3 DEF ConnectorsInv, ClientInv
  <1>5. AdapterInv' BY AdapterStays DEF ConnectorsInv
  <1> QED BY <1>1, <1>4, <1>5 DEF ConnectorsInv

(* The job is executed once more, or uses up an execution without posting.  *)
LEMMA ExecutionKeeps ==
    ASSUME ConnectorsInv, NEW c \in ConnectorCalls, ExecuteJob(c) \/ Denied(c) \/ ShortCircuit(c)
    PROVE  ConnectorsInv'
  <1> PICK old : old = remote[c] OBVIOUS
  <1>1. /\ old \in RemoteRow(c) /\ old.tries \in Nat /\ JobTries[c] \in Nat
        /\ Len(posts[c]) <= PostsAllowed(old) /\ Len(posts[c]) \in Nat
    BY ConnectorAssumption DEF ConnectorsInv, ClientInv, RemoteSound, RemoteRow
  <1>2. old.step \in {"idle", "retryable"} /\ old.tries < JobTries[c]
    BY DEF ExecuteJob, Denied, ShortCircuit
  <1>3. Len(posts[c]) <= ClientAttempts * old.tries BY <1>1, <1>2 DEF PostsAllowed
  <1>4. /\ ClientAttempts * (old.tries + 1) = ClientAttempts * old.tries + ClientAttempts
        /\ ClientAttempts * old.tries \in Nat /\ old.tries + 1 - 1 = old.tries
    BY <1>1, AllowedGrows
  <1>5. ClientAttempts \in Nat \ {0} BY ConnectorAssumption
  <1>6. breaker' = breaker /\ breaker \in [failures : 0 .. BreakerThreshold, open : BOOLEAN]
    BY DEF ConnectorsInv, ClientInv, ExecuteJob, Denied, ShortCircuit
  <1>7. CASE ExecuteJob(c)
    <2>1. PICK v \in Active :
            remote' = [remote EXCEPT ![c] = [step |-> "token", tries |-> old.tries + 1,
                                             attempt |-> 0, at |-> v]]
      BY <1>7 DEF ExecuteJob, ConnectorsInv, ClientInv
    <2>2. v \in DOMAIN revisions /\ v \in 0 .. RevisionLimit
      BY ConnectorAssumption DEF Active, ConnectorsInv, RegistryInv
    <2> DEFINE r == [step |-> "token", tries |-> old.tries + 1, attempt |-> 0, at |-> v]
    <2>3. r \in RemoteRow(c) /\ r.step = "token" /\ r.attempt = 0 /\ r.at = v /\ r.tries = old.tries + 1
      BY <1>1, <1>2, <1>5, <2>2 DEF RemoteRow
    <2>4. Len(posts[c]) <= PostsAllowed(r)
      BY <1>1, <1>3, <1>4, <2>3 DEF PostsAllowed
    <2>5. UNCHANGED <<revisions, posts, ledger, carried>> BY <1>7 DEF ExecuteJob
    <2>6. r.tries > 0 BY <1>1, <2>3
    <2> HIDE DEF r
    <2> QED BY <1>6, <2>1, <2>2, <2>3, <2>4, <2>5, <2>6, RemoteMoves DEF r
  <1>8. CASE Denied(c) \/ ShortCircuit(c)
    <2>1. PICK step \in {"failed", "retryable"} :
            remote' = [remote EXCEPT ![c].step = step, ![c].tries = @ + 1]
      BY <1>8 DEF Denied, ShortCircuit
    <2> DEFINE r == [old EXCEPT !.step = step, !.tries = old.tries + 1]
    <2>2. remote' = [remote EXCEPT ![c] = r]
      BY <2>1 DEF ConnectorsInv, ClientInv
    <2>3. r \in RemoteRow(c) /\ r.step = step /\ r.tries = old.tries + 1
      <3>1. old.tries + 1 \in 0 .. JobTries[c] BY <1>1, <1>2
      <3> QED BY <1>1, <3>1 DEF RemoteRow
    <2>4. Len(posts[c]) <= PostsAllowed(r)
      BY <1>1, <1>3, <1>4, <1>5, <2>3, SMTT(30) DEF PostsAllowed
    <2>5. UNCHANGED <<revisions, posts, ledger, carried>> BY <1>8 DEF Denied, ShortCircuit
    <2> HIDE DEF r
    <2> QED BY <1>6, <2>2, <2>3, <2>4, <2>5, RemoteMoves
  <1> QED BY <1>7, <1>8

(* The execution goes on or ends, with what it has posted.                  *)
LEMMA AnswerKeeps ==
    ASSUME ConnectorsInv, NEW c \in ConnectorCalls,
           TokenFails(c) \/ NetworkFailure(c) \/ Receive(c) \/ Cancelled(c)
    PROVE  ConnectorsInv'
  <1> PICK old : old = remote[c] OBVIOUS
  <1>1. /\ RemoteSound(c) /\ Len(posts[c]) <= PostsAllowed(old) /\ Len(posts[c]) \in Nat
        /\ breaker \in [failures : 0 .. BreakerThreshold, open : BOOLEAN]
    BY DEF ConnectorsInv, ClientInv
  <1>2. old.step \in {"token", "waiting", "backoff"}
    BY DEF TokenFails, NetworkFailure, Receive, Cancelled
  <1>3. /\ old \in RemoteRow(c) /\ old.tries \in Nat \ {0} /\ old.attempt \in 0 .. ClientAttempts
        /\ old.at \in DOMAIN revisions
    BY <1>1, <1>2, ConnectorAssumption DEF RemoteSound, RemoteRow
  <1>4. Len(posts[c]) <= ClientAttempts * (old.tries - 1) + old.attempt
    BY <1>1, <1>2 DEF PostsAllowed
  <1>5. Failed \in [failures : 0 .. BreakerThreshold, open : BOOLEAN]
    BY <1>1, ConnectorAssumption DEF Failed
  <1>6. PICK step \in {"backoff", "retryable", "failed", "done"} :
          /\ remote' = [remote EXCEPT ![c].step = step]
          /\ breaker' \in {breaker, Failed, [failures |-> 0, open |-> FALSE]}
          /\ step = "backoff" => old.attempt < ClientAttempts
          /\ step = "done" => old.step = "waiting" /\ Answer(c) = "answered"
    BY DEF TokenFails, NetworkFailure, Receive, Cancelled, Transient
  <1> DEFINE r == [old EXCEPT !.step = step]
  <1>7. remote' = [remote EXCEPT ![c] = r] BY <1>6 DEF ConnectorsInv, ClientInv
  <1>8. /\ r \in RemoteRow(c) /\ r.step = step /\ r.tries = old.tries /\ r.attempt = old.attempt
        /\ r.at = old.at
    BY <1>3 DEF RemoteRow
  <1>9. breaker' \in [failures : 0 .. BreakerThreshold, open : BOOLEAN]
    <2>1. 0 \in 0 .. BreakerThreshold BY ConnectorAssumption
    <2>2. [failures |-> 0, open |-> FALSE] \in [failures : 0 .. BreakerThreshold, open : BOOLEAN]
      BY <2>1
    <2> QED BY <1>1, <1>5, <1>6, <2>2
  <1>10. Len(posts[c]) <= PostsAllowed(r)
    <2>1. PICK t \in Nat : t = old.tries - 1 BY <1>3
    <2>2. old.tries = t + 1 BY <1>3, <2>1
    <2>3. ClientAttempts * old.tries = ClientAttempts * t + ClientAttempts /\ ClientAttempts * t \in Nat
      BY <2>2, AllowedGrows
    <2>4. Len(posts[c]) <= ClientAttempts * t + old.attempt BY <1>4, <2>1
    <2>5. Len(posts[c]) <= ClientAttempts * old.tries
      <3> PICK x \in Nat : x = ClientAttempts * t BY <2>3
      <3>1. PICK y : y = ClientAttempts * old.tries OBVIOUS
      <3>2. y = x + ClientAttempts BY <2>3, <3>1
      <3>3. Len(posts[c]) <= x + old.attempt BY <2>4
      <3>4. old.attempt \in Nat /\ old.attempt <= ClientAttempts /\ ClientAttempts \in Nat
        BY <1>3, ConnectorAssumption
      <3>5. Len(posts[c]) <= y BY <3>2, <3>3, <3>4, <1>1
      <3> QED BY <3>1, <3>5
    <2> QED BY <1>4, <1>8, <2>5 DEF PostsAllowed
  <1>11. UNCHANGED <<revisions, posts, ledger, carried>>
    BY DEF TokenFails, NetworkFailure, Receive, Cancelled
  <1>12. r.step = "done" => posts[c] # <<>> BY <1>1, <1>6, <1>8 DEF RemoteSound
  <1>13. /\ r.step \in {"token", "waiting", "backoff"} => r.at \in DOMAIN revisions /\ r.tries > 0
         /\ r.step \in {"waiting", "done"} => posts[c] # <<>>
         /\ r.step = "token" => r.attempt = 0
         /\ r.step = "backoff" => r.attempt < ClientAttempts
         /\ r.step = "done" => Answer(c) = "answered"
    BY <1>3, <1>6, <1>8, <1>12
  <1> HIDE DEF r
  <1> QED BY <1>7, <1>8, <1>9, <1>10, <1>11, <1>13, RemoteMoves

-----------------------------------------------------------------------------
(* The job posts its request once more.                                     *)
LEMMA PostKeeps ==
    ASSUME ConnectorsInv, NEW c \in ConnectorCalls, Post(c)
    PROVE  ConnectorsInv'
  <1> PICK old : old = remote[c] OBVIOUS
  <1> PICK len : len = Len(posts[c]) OBVIOUS
  <1>1. /\ RemoteSound(c) /\ len <= PostsAllowed(old) /\ len \in Nat
        /\ posts \in [ConnectorCalls -> Seq(PostRow)] /\ old.step \in {"token", "backoff"}
    BY DEF ConnectorsInv, ClientInv, Post
  <1>2. /\ old \in RemoteRow(c) /\ old.tries \in Nat \ {0} /\ old.attempt \in Nat
        /\ old.attempt < ClientAttempts /\ old.at \in DOMAIN revisions
    BY <1>1, ConnectorAssumption DEF RemoteSound, RemoteRow
  <1>3. revisions[old.at].at \in Adapters
    <2>1. revisions[old.at] \in RevisionRow BY <1>2 DEF ConnectorsInv, RegistryInv
    <2> QED BY <2>1 DEF RevisionRow
  <1> DEFINE row == [at |-> revisions[old.at].at, step |-> "posted"]
             r == [old EXCEPT !.step = "waiting", !.attempt = old.attempt + 1]
  <1>4. row \in PostRow /\ row.step = "posted" BY <1>3 DEF PostRow
  <1>5. /\ r \in RemoteRow(c) /\ r.step = "waiting" /\ r.tries = old.tries
        /\ r.attempt = old.attempt + 1 /\ r.at = old.at
    <2>1. old.attempt + 1 \in 0 .. ClientAttempts BY <1>2, ConnectorAssumption
    <2> QED BY <1>2, <2>1 DEF RemoteRow
  <1>6. remote' = [remote EXCEPT ![c] = r] /\ posts' = [posts EXCEPT ![c] = Append(posts[c], row)]
        /\ UNCHANGED <<revisions, breaker, ledger, carried>>
    BY DEF Post, ConnectorsInv, ClientInv
  <1> HIDE DEF row, r
  <1>7. /\ posts' \in [ConnectorCalls -> Seq(PostRow)]
        /\ Len(posts'[c]) = len + 1 /\ posts'[c][len + 1] = row
        /\ \A n \in 1..len : posts'[c][n] = posts[c][n]
        /\ \A d \in ConnectorCalls \ {c} : posts'[d] = posts[d]
        /\ DOMAIN posts[c] = 1..len /\ DOMAIN posts'[c] = 1..(len + 1)
    BY <1>1, <1>4, <1>6
  <1>8. remote'[c] = r /\ \A d \in ConnectorCalls \ {c} : remote'[d] = remote[d]
    BY <1>6 DEF ConnectorsInv, ClientInv
  <1>9. ClientInv'
    <2>1. RemoteSound(c)' /\ Len(posts'[c]) <= PostsAllowed(remote'[c])
      <3>1. len <= ClientAttempts * (old.tries - 1) + old.attempt BY <1>1 DEF PostsAllowed
      <3>2. len + 1 <= ClientAttempts * (old.tries - 1) + (old.attempt + 1)
        <4>1. PICK t \in Nat : t = old.tries - 1 BY <1>2
        <4>2. ClientAttempts * t \in Nat BY AllowedGrows
        <4>3. PICK x \in Nat : x = ClientAttempts * t BY <4>2
        <4>4. len <= x + old.attempt BY <3>1, <4>1, <4>3
        <4>5. len + 1 <= x + (old.attempt + 1) BY <4>4, <1>1, <1>2
        <4> QED BY <4>1, <4>3, <4>5
      <3>3. Len(posts'[c]) <= PostsAllowed(r) BY <1>5, <1>7, <3>2 DEF PostsAllowed
      <3>4. posts'[c] # <<>> BY <1>1, <1>7
      <3> QED BY <1>2, <1>5, <1>6, <1>8, <3>3, <3>4 DEF RemoteSound, RemoteRow
    <2>2. ASSUME NEW d \in ConnectorCalls \ {c}
          PROVE  RemoteSound(d)' /\ Len(posts'[d]) <= PostsAllowed(remote'[d])
      <3>1. RemoteSound(d) /\ Len(posts[d]) <= PostsAllowed(remote[d])
        BY DEF ConnectorsInv, ClientInv
      <3> QED BY <1>6, <1>7, <1>8, <3>1 DEF RemoteSound, RemoteRow, Answer
    <2> QED BY <1>6, <1>7, <2>1, <2>2 DEF ConnectorsInv, ClientInv
  <1>10. AdapterInv'
    <2>1. \A d, m : WriteRequest(d, m) => WriteRequest(d, m)' /\ posts'[d][m] = posts[d][m]
      <3> SUFFICES ASSUME NEW d, NEW m, WriteRequest(d, m)
                   PROVE  WriteRequest(d, m)' /\ posts'[d][m] = posts[d][m]
        OBVIOUS
      <3>1. d \in ConnectorCalls \ ReadCalls /\ m \in DOMAIN posts[d] BY DEF WriteRequest
      <3>2. CASE d = c
        <4>1. m \in 1..len /\ m \in 1..(len + 1) BY <1>1, <1>7, <3>1, <3>2
        <4> QED BY <1>7, <3>1, <3>2, <4>1 DEF WriteRequest
      <3>3. CASE d # c BY <1>7, <3>1, <3>3 DEF WriteRequest
      <3> QED BY <3>2, <3>3
    <2>2. \A d, m : WriteRequest(d, m)' => WriteRequest(d, m) \/ (d = c /\ m = len + 1)
      BY <1>1, <1>7 DEF WriteRequest
    <2>3. \A e \in carried : e # <<c, len + 1>>
      BY <1>1, <1>7 DEF ConnectorsInv, AdapterInv, CarriedWerePosted
    <2>4. \A d, m : WriteRequest(d, m)' /\ posts'[d][m].step # "posted" => WriteRequest(d, m)
      BY <1>4, <1>7, <2>2
    <2>5. \A d, m : WriteRequest(d, m)' /\ Started(d, m)' => WriteRequest(d, m) /\ Started(d, m)
      <3> SUFFICES ASSUME NEW d, NEW m, WriteRequest(d, m)', Started(d, m)'
                   PROVE  WriteRequest(d, m) /\ Started(d, m)
        OBVIOUS
      <3>1. CASE d = c /\ m = len + 1
        BY <1>4, <1>6, <1>7, <2>3, <3>1 DEF Started
      <3>2. CASE ~(d = c /\ m = len + 1)
        <4>1. WriteRequest(d, m) /\ posts'[d][m] = posts[d][m] BY <2>1, <2>2, <3>2
        <4> QED BY <1>6, <4>1 DEF Started
      <3> QED BY <3>1, <3>2
    <2>6. \A d, m : WriteRequest(d, m) =>
            At(d, m)' = At(d, m) /\ Entry(d, m)' = Entry(d, m) /\ (Started(d, m)' <=> Started(d, m))
      <3> SUFFICES ASSUME NEW d, NEW m, WriteRequest(d, m)
                   PROVE  /\ At(d, m)' = At(d, m) /\ Entry(d, m)' = Entry(d, m)
                          /\ Started(d, m)' <=> Started(d, m)
        OBVIOUS
      <3>1. posts'[d][m] = posts[d][m] BY <2>1
      <3> QED BY <1>6, <3>1 DEF At, Entry, Started
    <2>7. CarriedWerePosted'
      BY <1>1, <1>6, <1>7 DEF ConnectorsInv, AdapterInv, CarriedWerePosted
    <2>8. \A d, m : WriteRequest(d, m)' => RequestSound(d, m)'
      <3> SUFFICES ASSUME NEW d, NEW m, WriteRequest(d, m)' PROVE RequestSound(d, m)' OBVIOUS
      <3>1. CASE WriteRequest(d, m)
        <4>1. RequestSound(d, m) /\ posts'[d][m] = posts[d][m] BY <2>1, <3>1 DEF ConnectorsInv, AdapterInv
        <4> QED BY <1>6, <2>6, <3>1, <4>1 DEF RequestSound
      <3>2. CASE ~WriteRequest(d, m)
        <4>1. posts'[d][m].step = "posted" /\ ~Started(d, m)' BY <2>4, <2>5, <3>2
        <4> QED BY <4>1 DEF RequestSound
      <3> QED BY <3>1, <3>2
    <2>9. OneIsStarted'
      BY <2>5, <2>6 DEF ConnectorsInv, AdapterInv, OneIsStarted
    <2>10. ResultsWereCarried'
      <3> SUFFICES ASSUME NEW a \in Adapters, NEW k \in CallKeys, ledger[a][k].result
                   PROVE  \E d, m : /\ WriteRequest(d, m)' /\ <<d, m>> \in carried'
                                    /\ CallKey[d] = k /\ At(d, m)' = a
        BY <1>6 DEF ResultsWereCarried
      <3>1. PICK d, m : WriteRequest(d, m) /\ <<d, m>> \in carried /\ CallKey[d] = k /\ At(d, m) = a
        BY DEF ConnectorsInv, AdapterInv, ResultsWereCarried
      <3> QED BY <1>6, <2>1, <2>6, <3>1
    <2> QED BY <1>6, <2>7, <2>8, <2>9, <2>10 DEF ConnectorsInv, AdapterInv, LedgerType
  <1>11. RegistryInv' BY <1>6, RegistryStays DEF ConnectorsInv
  <1> QED BY <1>9, <1>10, <1>11 DEF ConnectorsInv

-----------------------------------------------------------------------------
(* A posted request moves on: where it was sent stays, and no other moves.  *)
RequestMoved(c, n, from, to) ==
    /\ posts[c][n].step = from /\ posts'[c][n].step = to
    /\ \A d \in ConnectorCalls : DOMAIN posts'[d] = DOMAIN posts[d]
    /\ \A d \in ConnectorCalls : \A m \in DOMAIN posts[d] :
          /\ posts'[d][m].at = posts[d][m].at
          /\ d # c \/ m # n => posts'[d][m] = posts[d][m]

(* A step of one request keeps the client's part if it keeps the request's. *)
LEMMA RequestMoves ==
    ASSUME ConnectorsInv, NEW c \in ConnectorCalls, NEW n \in DOMAIN posts[c],
           NEW from \in {"posted", "begun", "acted"},
           NEW to \in {"begun", "acted", "answered", "refused", "unknown", "gone"},
           Moves(c, n, from, to), UNCHANGED <<revisions, remote, breaker>>
    PROVE  ClientInv' /\ RequestMoved(c, n, from, to)
  <1>1. posts \in [ConnectorCalls -> Seq(PostRow)] BY DEF ConnectorsInv, ClientInv
  <1> PICK rows : rows = posts[c] OBVIOUS
  <1>2. rows \in Seq(PostRow) /\ n \in 1..Len(rows) /\ rows[n] \in PostRow BY <1>1
  <1> DEFINE row == [rows[n] EXCEPT !.step = to]
             new == [rows EXCEPT ![n] = row]
  <1>3. row \in PostRow /\ row.at = rows[n].at /\ row.step = to BY <1>2 DEF PostRow
  <1>4. posts' = [posts EXCEPT ![c] = new] BY <1>1, <1>2 DEF Moves
  <1> HIDE DEF row
  <1>5. /\ new \in Seq(PostRow) /\ Len(new) = Len(rows) /\ DOMAIN new = DOMAIN rows
        /\ new[n] = row /\ \A m \in DOMAIN rows \ {n} : new[m] = rows[m]
    BY <1>2, <1>3
  <1> HIDE DEF new
  <1>6. /\ posts' \in [ConnectorCalls -> Seq(PostRow)] /\ posts'[c] = new
        /\ \A d \in ConnectorCalls \ {c} : posts'[d] = posts[d]
    BY <1>1, <1>4, <1>5
  <1>7. RequestMoved(c, n, from, to)
    BY <1>3, <1>5, <1>6 DEF RequestMoved, Moves
  <1>8. ASSUME NEW d \in ConnectorCalls
        PROVE  RemoteSound(d)' /\ Len(posts'[d]) <= PostsAllowed(remote'[d])
    <2>1. RemoteSound(d) /\ Len(posts[d]) <= PostsAllowed(remote[d]) /\ Len(posts'[d]) = Len(posts[d])
      BY <1>5, <1>6 DEF ConnectorsInv, ClientInv
    <2>2. posts[d] # <<>> => posts'[d] # <<>>
      BY <1>1, <1>6, <2>1
    <2>3. remote[d].step = "done" => Answer(d)' = "answered"
      <3>1. CASE d # c BY <1>6, <2>1, <3>1 DEF RemoteSound, Answer
      <3>2. CASE d = c /\ n = Len(posts[c])
        BY <1>7, <2>1, <3>2 DEF RemoteSound, Answer, RequestMoved
      <3>3. CASE d = c /\ n # Len(posts[c]) /\ posts[c] # <<>>
        <4>1. Len(posts[c]) \in DOMAIN rows \ {n} BY <1>2, <3>3
        <4>2. posts'[c][Len(posts[c])] = posts[c][Len(posts[c])] BY <1>5, <1>6, <4>1
        <4> QED BY <2>1, <3>3, <4>2 DEF RemoteSound, Answer
      <3> QED BY <2>1, <3>1, <3>2, <3>3 DEF RemoteSound
    <2> QED BY <2>1, <2>2, <2>3 DEF RemoteSound, RemoteRow
  <1>9. ClientInv' BY <1>6, <1>8 DEF ConnectorsInv, ClientInv
  <1> QED BY <1>7, <1>9

(* Nothing new is started and the ledger stays, unless for a read.          *)
LEMMA RequestEnds ==
    ASSUME ConnectorsInv, NEW c \in ConnectorCalls, NEW n \in DOMAIN posts[c],
           NEW from \in {"posted", "begun", "acted"},
           NEW to \in {"begun", "acted", "answered", "refused", "unknown", "gone"},
           RequestMoved(c, n, from, to), UNCHANGED ledger,
           \/ carried' = carried
           \/ carried' = carried \cup {<<c, n>>} /\ from = "begun",
           c \notin ReadCalls =>
              /\ to = "begun" => FALSE
              /\ to = "acted" => <<c, n>> \in carried'
              /\ to = "answered" => Entry(c, n).result /\ Entry(c, n).body = CallBody[c]
    PROVE  AdapterInv'
  <1>1. AdapterInv BY DEF ConnectorsInv
  <1>2. \A d, m : WriteRequest(d, m)' <=> WriteRequest(d, m) BY DEF RequestMoved, WriteRequest
  <1>3. \A d, m : WriteRequest(d, m) => At(d, m)' = At(d, m) /\ Entry(d, m)' = Entry(d, m)
    BY DEF RequestMoved, WriteRequest, At, Entry
  <1>4. \A d, m : WriteRequest(d, m) /\ Started(d, m)' => Started(d, m)
    BY DEF RequestMoved, WriteRequest, Started
  <1>5. \A d, m : WriteRequest(d, m) => RequestSound(d, m)'
    <2>1. ASSUME NEW d, NEW m, WriteRequest(d, m), d # c \/ m # n
          PROVE  posts'[d][m] = posts[d][m] BY <2>1 DEF RequestMoved, WriteRequest
    <2>2. posts'[c][n].step = to BY DEF RequestMoved
    <2> QED BY <1>1, <1>3, <1>4, <2>1, <2>2 DEF AdapterInv, RequestSound, WriteRequest
  <1>6. CarriedWerePosted'
    BY <1>1 DEF AdapterInv, RequestMoved, CarriedWerePosted
  <1>7. ResultsWereCarried'
    BY <1>1, <1>2, <1>3 DEF AdapterInv, ResultsWereCarried
  <1>8. OneIsStarted'
    BY <1>1, <1>2, <1>3, <1>4 DEF AdapterInv, OneIsStarted
  <1> QED BY <1>1, <1>2, <1>5, <1>6, <1>7, <1>8 DEF AdapterInv, LedgerType

(* The adapter records an entry of the ledger: the others stay.             *)
LEMMA LedgerMoves ==
    ASSUME AdapterInv, ClientInv, NEW c \in ConnectorCalls, NEW n \in DOMAIN posts[c],
           NEW entry \in EntryRow, ledger' = Recorded(c, n, entry)
    PROVE  /\ LedgerType'
           /\ ledger'[At(c, n)][CallKey[c]] = entry
           /\ \A a \in Adapters, k \in CallKeys :
                 a # At(c, n) \/ k # CallKey[c] => ledger'[a][k] = ledger[a][k]
  <1>1. At(c, n) \in Adapters /\ CallKey[c] \in CallKeys BY PostIsRow
  <1>3. ledger \in [Adapters -> [CallKeys -> EntryRow]] BY DEF AdapterInv, LedgerType
  <1>4. ledger' = [ledger EXCEPT ![At(c, n)][CallKey[c]] = entry] BY DEF Recorded
  <1>5. PICK a, k : a = At(c, n) /\ k = CallKey[c] OBVIOUS
  <1> QED BY <1>1, <1>3, <1>4, <1>5 DEF LedgerType

(* A result in the ledger was carried out at GitHub for some write.         *)
LEMMA CarriedFor ==
    ASSUME ResultsWereCarried, NEW a \in Adapters, NEW k \in CallKeys, ledger[a][k].result
    PROVE  \E d, m : /\ WriteRequest(d, m) /\ <<d, m>> \in carried
                     /\ CallKey[d] = k /\ At(d, m) = a
  BY DEF ResultsWereCarried

(* The intent of a write is stored: nothing was started under its key.      *)
LEMMA BeginKeeps ==
    ASSUME ConnectorsInv, NEW c \in ConnectorCalls, NEW n \in DOMAIN posts[c], c \notin ReadCalls,
           Known(c, n) = "", RequestMoved(c, n, "posted", "begun"), UNCHANGED carried,
           NEW entry \in EntryRow, entry.body = CallBody[c], ~entry.result,
           ledger' = Recorded(c, n, entry)
    PROVE  AdapterInv'
  <1>1. AdapterInv /\ ClientInv BY DEF ConnectorsInv
  <1>e. entry.body = CallBody[c] /\ ~entry.result OBVIOUS
  <1>2. /\ LedgerType'
        /\ ledger'[At(c, n)][CallKey[c]] = entry
        /\ \A a \in Adapters, k \in CallKeys :
              a # At(c, n) \/ k # CallKey[c] => ledger'[a][k] = ledger[a][k]
    BY <1>1, LedgerMoves
  <1>3. Entry(c, n) = Unseen BY DEF Known
  <1>4. \A d, m : WriteRequest(d, m) => At(d, m) \in Adapters /\ CallKey[d] \in CallKeys
    BY <1>1, PostIsRow DEF WriteRequest
  <1>5. \A d, m : WriteRequest(d, m) /\ CallKey[d] = CallKey[c] /\ At(d, m) = At(c, n) =>
          ~Started(d, m) /\ posts[d][m].step \notin {"answered", "acted"}
    <2> SUFFICES ASSUME NEW d, NEW m, WriteRequest(d, m), CallKey[d] = CallKey[c], At(d, m) = At(c, n)
                 PROVE  ~Started(d, m) /\ posts[d][m].step \notin {"answered", "acted"}
      OBVIOUS
    <2>1. Entry(d, m).body = "none" /\ Entry(d, m).result = FALSE
      <3>1. Entry(d, m) = Entry(c, n) BY DEF Entry
      <3>2. PICK u : u = Unseen OBVIOUS
      <3>3. u.body = "none" /\ u.result = FALSE BY <3>2 DEF Unseen
      <3> QED BY <1>3, <3>1, <3>2, <3>3
    <2>2. CallBody[d] # "none" BY ConnectorAssumption DEF WriteRequest
    <2>3. RequestSound(d, m) BY <1>1 DEF AdapterInv
    <2> QED BY <2>1, <2>2, <2>3 DEF RequestSound, Started
  <1>6. \A d, m : WriteRequest(d, m)' <=> WriteRequest(d, m) BY DEF RequestMoved, WriteRequest
  <1>7. \A d, m : WriteRequest(d, m) => At(d, m)' = At(d, m) BY DEF RequestMoved, WriteRequest, At
  <1>8. \A d, m : WriteRequest(d, m) /\ Started(d, m)' => Started(d, m) \/ (d = c /\ m = n)
    BY DEF RequestMoved, WriteRequest, Started
  <1>9. \A d, m : WriteRequest(d, m) /\ (d # c \/ m # n) => posts'[d][m] = posts[d][m]
    BY DEF RequestMoved, WriteRequest
  <1>10. \A d, m : WriteRequest(d, m) /\ (CallKey[d] # CallKey[c] \/ At(d, m) # At(c, n)) =>
           Entry(d, m)' = Entry(d, m)
    <2> SUFFICES ASSUME NEW d, NEW m, WriteRequest(d, m),
                        CallKey[d] # CallKey[c] \/ At(d, m) # At(c, n)
                 PROVE  Entry(d, m)' = Entry(d, m)
      OBVIOUS
    <2>1. ledger'[At(d, m)][CallKey[d]] = ledger[At(d, m)][CallKey[d]] BY <1>2, <1>4
    <2>2. At(d, m)' = At(d, m) BY <1>7
    <2> QED BY <2>1, <2>2 DEF Entry
  <1>11. Entry(c, n)' = entry /\ posts'[c][n].step = "begun"
    BY <1>2 DEF Entry, RequestMoved, At
  <1>12. \A d, m : WriteRequest(d, m) => RequestSound(d, m)'
    <2> SUFFICES ASSUME NEW d, NEW m, WriteRequest(d, m)
                 PROVE  RequestSound(d, m)'
      OBVIOUS
    <2>1. CASE d = c /\ m = n
      <3>0. Entry(d, m)' = entry BY <1>11, <2>1
      <3>1. Entry(d, m)'.body = CallBody[d] BY <3>0, <1>e, <2>1
      <3>2. posts'[d][m].step = "begun" BY <1>11, <2>1
      <3> QED BY <3>1, <3>2 DEF RequestSound
    <2>2. CASE (d # c \/ m # n) /\ CallKey[d] = CallKey[c] /\ At(d, m) = At(c, n)
      BY <1>5, <1>8, <1>9, <2>2 DEF RequestSound
    <2>3. CASE (d # c \/ m # n) /\ (CallKey[d] # CallKey[c] \/ At(d, m) # At(c, n))
      <3>1. Entry(d, m)' = Entry(d, m) /\ posts'[d][m] = posts[d][m] BY <1>9, <1>10, <2>3
      <3>2. Started(d, m)' => Started(d, m) BY <1>8, <2>3
      <3>3. RequestSound(d, m) BY <1>1 DEF AdapterInv
      <3> QED BY <3>1, <3>2, <3>3 DEF RequestSound
    <2> QED BY <2>1, <2>2, <2>3
  <1>13. OneIsStarted'
    <2> SUFFICES ASSUME NEW d, NEW m, NEW e, NEW k,
                        WriteRequest(d, m)', WriteRequest(e, k)', Started(d, m)', Started(e, k)',
                        CallKey[d] = CallKey[e], At(d, m)' = At(e, k)'
                 PROVE  d = e /\ m = k
      BY DEF OneIsStarted
    <2>1. /\ WriteRequest(d, m) /\ WriteRequest(e, k) /\ WriteRequest(c, n) /\ At(d, m) = At(e, k)
      BY <1>6, <1>7 DEF WriteRequest
    <2>2. CASE Started(d, m) /\ Started(e, k) BY <1>1, <2>1, <2>2 DEF AdapterInv, OneIsStarted
    <2>3. CASE ~Started(d, m) \/ ~Started(e, k)
      <3>1. CASE d = c /\ m = n
        <4>1. At(e, k) = At(c, n) /\ CallKey[e] = CallKey[c] BY <2>1, <3>1
        <4> QED BY <1>5, <1>8, <2>1, <3>1, <4>1
      <3>2. CASE e = c /\ k = n
        <4>1. At(d, m) = At(c, n) /\ CallKey[d] = CallKey[c] BY <2>1, <3>2
        <4> QED BY <1>5, <1>8, <2>1, <3>2, <4>1
      <3> QED BY <1>8, <2>1, <2>3, <3>1, <3>2
    <2> QED BY <2>2, <2>3
  <1>14. ResultsWereCarried'
    <2> SUFFICES ASSUME NEW a \in Adapters, NEW k \in CallKeys, ledger'[a][k].result
                 PROVE  \E d, m : /\ WriteRequest(d, m)' /\ <<d, m>> \in carried'
                                  /\ CallKey[d] = k /\ At(d, m)' = a
      BY DEF ResultsWereCarried
    <2>1. CASE a = At(c, n) /\ k = CallKey[c]
      <3>1. ledger'[a][k] = entry BY <1>2, <2>1
      <3> QED BY <1>e, <3>1
    <2>2. CASE ~(a = At(c, n) /\ k = CallKey[c])
      <3>1. ledger'[a][k] = ledger[a][k] BY <1>2, <2>2
      <3>2. ledger[a][k].result BY <3>1
      <3>3. \E d, m : /\ WriteRequest(d, m) /\ <<d, m>> \in carried
                      /\ CallKey[d] = k /\ At(d, m) = a
        <4> HIDE <3>1, <2>2
        <4>1. ResultsWereCarried BY <1>1 DEF AdapterInv
        <4> QED BY <3>2, <4>1, CarriedFor
      <3> QED BY <1>6, <1>7, <3>3
    <2> QED BY <2>1, <2>2
  <1>15. CarriedWerePosted'
    BY <1>1 DEF AdapterInv, RequestMoved, CarriedWerePosted
  <1> QED BY <1>2, <1>6, <1>12, <1>13, <1>14, <1>15 DEF AdapterInv

(* A write that GitHub carried out is completed in the ledger.              *)
LEMMA CompleteKeeps ==
    ASSUME ConnectorsInv, NEW c \in ConnectorCalls, NEW n \in DOMAIN posts[c], c \notin ReadCalls,
           RequestMoved(c, n, "acted", "answered"), UNCHANGED carried,
           ledger' = Recorded(c, n, [Entry(c, n) EXCEPT !.result = TRUE])
    PROVE  AdapterInv'
  <1>1. AdapterInv /\ ClientInv BY DEF ConnectorsInv
  <1> PICK entry : entry = [Entry(c, n) EXCEPT !.result = TRUE] OBVIOUS
  <1>a. At(c, n) \in Adapters /\ CallKey[c] \in CallKeys
    BY <1>1, PostIsRow
  <1>b. WriteRequest(c, n) /\ Started(c, n) /\ <<c, n>> \in carried
    BY <1>1 DEF WriteRequest, RequestMoved, Started, AdapterInv, RequestSound
  <1>c. entry \in EntryRow /\ entry.body = CallBody[c] /\ entry.result
    <2>1. Entry(c, n).body = CallBody[c] BY <1>1, <1>b DEF AdapterInv, RequestSound
    <2>2. Entry(c, n) \in EntryRow
      BY <1>1, <1>a DEF AdapterInv, LedgerType, Entry
    <2>3. PICK e : e = Entry(c, n) OBVIOUS
    <2>4. e \in EntryRow /\ e.body = CallBody[c] /\ entry = [e EXCEPT !.result = TRUE]
      BY <2>1, <2>2, <2>3
    <2> QED BY <2>4 DEF EntryRow
  <1>2. /\ LedgerType'
        /\ ledger'[At(c, n)][CallKey[c]] = entry
        /\ \A a \in Adapters, k \in CallKeys :
              a # At(c, n) \/ k # CallKey[c] => ledger'[a][k] = ledger[a][k]
    <2>1. ledger' = Recorded(c, n, entry) OBVIOUS
    <2> QED BY <1>1, <1>c, <2>1, LedgerMoves, ZenonT(30)
  <1>4. \A d, m : WriteRequest(d, m) => At(d, m) \in Adapters /\ CallKey[d] \in CallKeys
    BY <1>1, PostIsRow DEF WriteRequest
  <1>6. \A d, m : WriteRequest(d, m)' <=> WriteRequest(d, m) BY DEF RequestMoved, WriteRequest
  <1>7. \A d, m : WriteRequest(d, m) => At(d, m)' = At(d, m) BY DEF RequestMoved, WriteRequest, At
  <1>8. \A d, m : WriteRequest(d, m) /\ Started(d, m)' => Started(d, m)
    BY DEF RequestMoved, WriteRequest, Started
  <1>9. \A d, m : WriteRequest(d, m) /\ (d # c \/ m # n) => posts'[d][m] = posts[d][m]
    BY DEF RequestMoved, WriteRequest
  <1>10. \A d, m : WriteRequest(d, m) /\ (CallKey[d] # CallKey[c] \/ At(d, m) # At(c, n)) =>
           Entry(d, m)' = Entry(d, m)
    <2> SUFFICES ASSUME NEW d, NEW m, WriteRequest(d, m),
                        CallKey[d] # CallKey[c] \/ At(d, m) # At(c, n)
                 PROVE  Entry(d, m)' = Entry(d, m)
      OBVIOUS
    <2>1. ledger'[At(d, m)][CallKey[d]] = ledger[At(d, m)][CallKey[d]] BY <1>2, <1>4
    <2>2. At(d, m)' = At(d, m) BY <1>7
    <2> QED BY <2>1, <2>2 DEF Entry
  <1>11. \A d, m : WriteRequest(d, m) /\ CallKey[d] = CallKey[c] /\ At(d, m) = At(c, n) =>
           Entry(d, m)' = entry
    <2> SUFFICES ASSUME NEW d, NEW m, WriteRequest(d, m), CallKey[d] = CallKey[c], At(d, m) = At(c, n)
                 PROVE  Entry(d, m)' = entry
      OBVIOUS
    <2>1. At(d, m)' = At(c, n) BY <1>7
    <2> QED BY <1>2, <2>1 DEF Entry
  <1>12. \A d, m : WriteRequest(d, m) => RequestSound(d, m)'
    <2> SUFFICES ASSUME NEW d, NEW m, WriteRequest(d, m)
                 PROVE  RequestSound(d, m)'
      OBVIOUS
    <2>0. posts'[c][n].step = "answered" BY DEF RequestMoved
    <2>1. CASE d = c /\ m = n
      <3>1. Entry(d, m)' = entry BY <1>11, <2>1
      <3>2. Entry(d, m)'.body = CallBody[d] /\ Entry(d, m)'.result BY <3>1, <1>c, <2>1
      <3>3. posts'[d][m].step = "answered" BY <2>0, <2>1
      <3> QED BY <3>2, <3>3 DEF RequestSound
    <2>2. CASE (d # c \/ m # n) /\ CallKey[d] = CallKey[c] /\ At(d, m) = At(c, n)
      <3>1. ~Started(d, m) BY <1>1, <1>b, <2>2 DEF AdapterInv, OneIsStarted
      <3>2. Entry(d, m) = Entry(c, n) BY <2>2 DEF Entry
      <3>3. posts[d][m].step = "answered" => CallBody[c] = CallBody[d]
        BY <1>1, <1>b, <3>2 DEF AdapterInv, RequestSound
      <3>4. posts[d][m].step # "acted" BY <3>1 DEF Started
      <3>5. Entry(d, m)' = entry /\ ~Started(d, m)' /\ posts'[d][m] = posts[d][m]
        BY <1>8, <1>9, <1>11, <2>2, <3>1
      <3>6. posts[d][m].step = "answered" => Entry(d, m)'.result /\ Entry(d, m)'.body = CallBody[d]
        BY <1>c, <3>3, <3>5
      <3> QED BY <3>4, <3>5, <3>6 DEF RequestSound
    <2>3. CASE (d # c \/ m # n) /\ (CallKey[d] # CallKey[c] \/ At(d, m) # At(c, n))
      BY <1>1, <1>8, <1>9, <1>10, <2>3 DEF AdapterInv, RequestSound
    <2> QED BY <2>1, <2>2, <2>3
  <1>13. OneIsStarted'
    BY <1>1, <1>6, <1>7, <1>8 DEF AdapterInv, OneIsStarted
  <1>14. ResultsWereCarried'
    <2> SUFFICES ASSUME NEW a \in Adapters, NEW k \in CallKeys, ledger'[a][k].result
                 PROVE  \E d, m : /\ WriteRequest(d, m)' /\ <<d, m>> \in carried'
                                  /\ CallKey[d] = k /\ At(d, m)' = a
      BY DEF ResultsWereCarried
    <2>1. CASE a = At(c, n) /\ k = CallKey[c] BY <1>b, <1>6, <1>7, <2>1
    <2>2. CASE ~(a = At(c, n) /\ k = CallKey[c])
      <3>1. ledger[a][k].result BY <1>2, <2>2
      <3>2. PICK d, m : WriteRequest(d, m) /\ <<d, m>> \in carried /\ CallKey[d] = k /\ At(d, m) = a
        BY <1>1, <3>1 DEF AdapterInv, ResultsWereCarried
      <3> QED BY <1>6, <1>7, <3>2
    <2> QED BY <2>1, <2>2
  <1>15. CarriedWerePosted'
    BY <1>1 DEF AdapterInv, RequestMoved, CarriedWerePosted
  <1> QED BY <1>2, <1>6, <1>12, <1>13, <1>14, <1>15 DEF AdapterInv

(* Every step of the adapter keeps the invariant.                           *)
LEMMA AdapterKeeps ==
    ASSUME ConnectorsInv, NEW c \in ConnectorCalls, NEW n \in DOMAIN posts[c], AdapterNext(c, n)
    PROVE  ConnectorsInv'
  <1>1. UNCHANGED <<revisions, remote, breaker>>
    BY DEF AdapterNext, Begin, BeginRead, Native, CompleteCall, AdapterDies
  <1>2. RegistryInv' BY <1>1, RegistryStays DEF ConnectorsInv
  <1>3. CASE Begin(c, n) /\ Known(c, n) = ""
    <2>1. Moves(c, n, "posted", "begun") BY <1>3 DEF Begin
    <2>2. ClientInv' /\ RequestMoved(c, n, "posted", "begun") BY <1>1, <2>1, RequestMoves
    <2>3. PICK entry : entry = [body |-> CallBody[c], result |-> FALSE] OBVIOUS
    <2>4. entry \in EntryRow /\ entry.body = CallBody[c] /\ ~entry.result BY <2>3 DEF EntryRow
    <2>5. c \notin ReadCalls /\ UNCHANGED carried /\ ledger' = Recorded(c, n, entry)
      BY <1>3, <2>3 DEF Begin
    <2>6. AdapterInv' BY <1>3, <2>2, <2>4, <2>5, BeginKeeps
    <2> QED BY <1>2, <2>2, <2>6 DEF ConnectorsInv
  <1>4. CASE Begin(c, n) /\ Known(c, n) # ""
    <2>1. PICK to \in {"answered", "refused"} :
            Moves(c, n, "posted", to) /\ to = Known(c, n)
      <3>1. Known(c, n) \in {"answered", "refused"}
        <4>1. CASE Entry(c, n) = Unseen BY <1>4, <4>1 DEF Known
        <4>2. CASE Entry(c, n) # Unseen BY <4>2 DEF Known
        <4> QED BY <4>1, <4>2
      <3> QED BY <1>4, <3>1 DEF Begin
    <2>2. ClientInv' /\ RequestMoved(c, n, "posted", to) BY <1>1, <2>1, RequestMoves
    <2>3. to = "answered" => Entry(c, n).result /\ Entry(c, n).body = CallBody[c]
      <3>1. At(c, n) \in Adapters /\ CallKey[c] \in CallKeys
        BY PostIsRow DEF ConnectorsInv
      <3>2. Entry(c, n).result \in BOOLEAN BY <3>1 DEF ConnectorsInv, AdapterInv, LedgerType, EntryRow, Entry
      <3> QED BY <2>1, <3>2 DEF Known
    <2>4. UNCHANGED <<ledger, carried>> BY <1>4 DEF Begin
    <2>5. AdapterInv' BY <2>2, <2>3, <2>4, RequestEnds
    <2> QED BY <1>2, <2>2, <2>5 DEF ConnectorsInv
  <1>5. CASE BeginRead(c, n)
    <2>1. Moves(c, n, "posted", "begun") /\ UNCHANGED <<ledger, carried>> /\ c \in ReadCalls
      BY <1>5 DEF BeginRead
    <2>2. ClientInv' /\ RequestMoved(c, n, "posted", "begun") BY <1>1, <2>1, RequestMoves
    <2>3. AdapterInv' BY <2>1, <2>2, RequestEnds
    <2> QED BY <1>2, <2>2, <2>3 DEF ConnectorsInv
  <1>6. CASE Native(c, n)
    <2>1. PICK to \in {"acted", "unknown"} :
            /\ Moves(c, n, "begun", to) /\ UNCHANGED ledger
            /\ carried' = carried \cup {<<c, n>>} \/ (carried' = carried /\ to = "unknown")
      BY <1>6 DEF Native
    <2>2. ClientInv' /\ RequestMoved(c, n, "begun", to) BY <1>1, <2>1, RequestMoves
    <2>3. AdapterInv' BY <2>1, <2>2, RequestEnds
    <2> QED BY <1>2, <2>2, <2>3 DEF ConnectorsInv
  <1>7. CASE CompleteCall(c, n)
    <2>1. Moves(c, n, "acted", "answered") /\ UNCHANGED carried BY <1>7 DEF CompleteCall
    <2>2. ClientInv' /\ RequestMoved(c, n, "acted", "answered") BY <1>1, <2>1, RequestMoves
    <2>3. CASE c \in ReadCalls
      <3>1. UNCHANGED ledger BY <1>7, <2>3 DEF CompleteCall
      <3>2. AdapterInv' BY <2>1, <2>2, <2>3, <3>1, RequestEnds
      <3> QED BY <1>2, <2>2, <3>2 DEF ConnectorsInv
    <2>4. CASE c \notin ReadCalls
      <3>1. AdapterInv' BY <1>7, <2>1, <2>2, <2>4, CompleteKeeps DEF CompleteCall
      <3> QED BY <1>2, <2>2, <3>1 DEF ConnectorsInv
    <2> QED BY <2>3, <2>4
  <1>8. CASE AdapterDies(c, n)
    <2>1. PICK from \in {"begun", "acted"} :
            Moves(c, n, from, "gone") /\ UNCHANGED <<ledger, carried>>
      BY <1>8 DEF AdapterDies
    <2>2. ClientInv' /\ RequestMoved(c, n, from, "gone") BY <1>1, <2>1, RequestMoves
    <2>3. AdapterInv' BY <2>1, <2>2, RequestEnds
    <2> QED BY <1>2, <2>2, <2>3 DEF ConnectorsInv
  <1> QED BY <1>3, <1>4, <1>5, <1>6, <1>7, <1>8 DEF AdapterNext

-----------------------------------------------------------------------------
(* Every step keeps the invariant, whichever side takes it.                 *)
LEMMA ConnectorsInvNext == ConnectorsInv /\ [ConnectorsNext]_connectorVars => ConnectorsInv'
  <1> SUFFICES ASSUME ConnectorsInv, [ConnectorsNext]_connectorVars PROVE ConnectorsInv' OBVIOUS
  <1>1. ASSUME UNCHANGED <<revisions, remote, posts, ledger, carried>>,
               breaker' = breaker \/ breaker' = [breaker EXCEPT !.open = FALSE]
        PROVE  ConnectorsInv'
    <2>1. breaker' \in [failures : 0 .. BreakerThreshold, open : BOOLEAN]
      BY <1>1 DEF ConnectorsInv, ClientInv
    <2>2. RegistryInv' BY <1>1, RegistryStays DEF ConnectorsInv
    <2>3. ClientInv' BY <1>1, <2>1 DEF ConnectorsInv, ClientInv, RemoteSound, RemoteRow, Answer
    <2>4. AdapterInv' BY <1>1, AdapterStays DEF ConnectorsInv
    <2> QED BY <2>2, <2>3, <2>4 DEF ConnectorsInv
  <1>2. CASE UNCHANGED connectorVars BY <1>1, <1>2 DEF connectorVars
  <1>3. CASE RegistryNext BY <1>3, RegistryKeeps
  <1>4. CASE Cooldown BY <1>1, <1>4 DEF Cooldown
  <1>5. ASSUME NEW c \in ConnectorCalls, ClientNext(c) PROVE ConnectorsInv'
    BY <1>5, ExecutionKeeps, AnswerKeeps, PostKeeps DEF ClientNext
  <1> QED BY <1>2, <1>3, <1>4, <1>5, AdapterKeeps DEF ConnectorsNext, CallsNext

(* The invariant says what the run checks: of the requests under one key at *)
(* most one was started, so at most one was carried out.                    *)
LEMMA ConnectorsInvImplies == ConnectorsInv => ConnectorsAreFaithful
  <1> SUFFICES ASSUME ConnectorsInv PROVE ConnectorsAreFaithful OBVIOUS
  <1>1. ConnectorsTypeOK
    <2>1. ASSUME NEW c \in ConnectorCalls
          PROVE  remote[c] \in RemoteRow(c) /\ Len(posts[c]) <= ClientAttempts * JobTries[c]
      <3> PICK r : r = remote[c] OBVIOUS
      <3>1. /\ r \in RemoteRow(c) /\ Len(posts[c]) <= PostsAllowed(r) /\ Len(posts[c]) \in Nat
            /\ r.step \in {"token", "waiting", "backoff"} => r.tries > 0
        BY DEF ConnectorsInv, ClientInv, RemoteSound
      <3>2. r.tries \in Nat /\ r.tries <= JobTries[c] /\ JobTries[c] \in Nat /\ r.attempt \in 0..ClientAttempts
        BY <3>1, ConnectorAssumption DEF RemoteRow
      <3>3. Len(posts[c]) <= ClientAttempts * r.tries
        <4>1. CASE r.step \notin {"token", "waiting", "backoff"} BY <3>1, <4>1 DEF PostsAllowed
        <4>2. CASE r.step \in {"token", "waiting", "backoff"}
          <5>1. PICK t \in Nat : t = r.tries - 1 BY <3>1, <3>2, <4>2
          <5>2. r.tries = t + 1 BY <3>2, <5>1
          <5>3. ClientAttempts * r.tries = ClientAttempts * t + ClientAttempts /\ ClientAttempts * t \in Nat
            BY <5>2, AllowedGrows
          <5>4. Len(posts[c]) <= ClientAttempts * t + r.attempt BY <3>1, <4>2, <5>1 DEF PostsAllowed
          <5> PICK x \in Nat : x = ClientAttempts * t BY <5>3
          <5>5. PICK y : y = ClientAttempts * r.tries OBVIOUS
          <5>6. y = x + ClientAttempts BY <5>3, <5>5
          <5>7. Len(posts[c]) <= x + r.attempt BY <5>4
          <5>8. r.attempt \in Nat /\ r.attempt <= ClientAttempts /\ ClientAttempts \in Nat
            BY <3>2, ConnectorAssumption
          <5>9. Len(posts[c]) <= y BY <5>6, <5>7, <5>8, <3>1
          <5> QED BY <5>5, <5>9
        <4> QED BY <4>1, <4>2
      <3>4. ClientAttempts * r.tries <= ClientAttempts * JobTries[c] BY <3>2, AllowedBounded
      <3>5. ClientAttempts * r.tries \in Nat /\ ClientAttempts * JobTries[c] \in Nat
        BY <3>2, AllowedGrows
      <3> QED BY <3>1, <3>3, <3>4, <3>5
    <2>2. carried \subseteq UNION {{c} \X DOMAIN posts[c] : c \in ConnectorCalls}
      BY DEF ConnectorsInv, AdapterInv, CarriedWerePosted
    <2>3. revisions \in Seq(RevisionRow) /\ breaker \in [failures : 0 .. BreakerThreshold, open : BOOLEAN]
      BY DEF ConnectorsInv, RegistryInv, ClientInv
    <2> QED BY <2>1, <2>2, <2>3 DEF ConnectorsTypeOK, RevisionRow, RemoteRow
  <1>2. \A a, k : \A e \in Writes(a, k) :
          \E c, n : e = <<c, n>> /\ WriteRequest(c, n) /\ Started(c, n) /\ CallKey[c] = k /\ At(c, n) = a
    BY DEF Writes, ConnectorsInv, AdapterInv, CarriedWerePosted, WriteRequest, Started
  <1>3. \A c, n : WriteRequest(c, n) /\ <<c, n>> \in carried => <<c, n>> \in Writes(At(c, n), CallKey[c])
    BY DEF Writes, WriteRequest
  <1>4. ASSUME NEW a \in Adapters, NEW k \in CallKeys
        PROVE  /\ Cardinality(Writes(a, k)) <= 1
               /\ \A e \in Writes(a, k) : ledger[a][k].body = CallBody[e[1]]
               /\ ledger[a][k].result => Writes(a, k) # {}
    <2>1. \A e, f \in Writes(a, k) : e = f BY <1>2 DEF ConnectorsInv, AdapterInv, OneIsStarted
    <2>2. Cardinality(Writes(a, k)) <= 1
      <3>1. CASE Writes(a, k) = {} BY <3>1, FS_EmptySet
      <3>2. CASE Writes(a, k) # {}
        <4>1. PICK e \in Writes(a, k) : TRUE BY <3>2
        <4>2. Writes(a, k) = {e} BY <2>1, <4>1
        <4> QED BY <4>2, FS_Singleton
      <3> QED BY <3>1, <3>2
    <2>3. \A e \in Writes(a, k) : ledger[a][k].body = CallBody[e[1]]
      BY <1>2 DEF ConnectorsInv, AdapterInv, RequestSound, Entry
    <2>4. ledger[a][k].result => Writes(a, k) # {}
      BY <1>3, ZenonT(30) DEF ConnectorsInv, AdapterInv, ResultsWereCarried
    <2> QED BY <2>2, <2>3, <2>4
  <1>5. WrittenOnce BY <1>4 DEF WrittenOnce, CallKeys
  <1>6. SuccessIsReal
    <2> SUFFICES ASSUME NEW c \in ConnectorCalls \ ReadCalls, remote[c].step = "done"
                 PROVE  \E e \in Writes(At(c, Len(posts[c])), CallKey[c]) : CallBody[e[1]] = CallBody[c]
      BY DEF SuccessIsReal
    <2> PICK n : n = Len(posts[c]) OBVIOUS
    <2>1. posts[c] \in Seq(PostRow) /\ posts[c] # <<>> /\ posts[c][n].step = "answered"
      BY DEF ConnectorsInv, ClientInv, RemoteSound, Answer
    <2>2. n \in DOMAIN posts[c] BY <2>1
    <2>3. WriteRequest(c, n) /\ At(c, n) \in Adapters /\ CallKey[c] \in CallKeys
      BY <2>2, PostIsRow DEF WriteRequest, ConnectorsInv
    <2>4. Entry(c, n).result /\ Entry(c, n).body = CallBody[c]
      BY <2>1, <2>3 DEF ConnectorsInv, AdapterInv, RequestSound
    <2>5. PICK e \in Writes(At(c, n), CallKey[c]) : TRUE BY <1>4, <2>3, <2>4 DEF Entry
    <2>6. CallBody[e[1]] = CallBody[c] BY <1>4, <2>3, <2>4, <2>5 DEF Entry
    <2> QED BY <2>5, <2>6
  <1> QED BY <1>1, <1>5, <1>6 DEF ConnectorsAreFaithful, ConnectorsInv, RegistryInv

(* A write whose answer is lost is posted again by the client, by the       *)
(* handler and by the next execution of its job, to a connector that may    *)
(* have been disabled or replaced between: GitHub carries it out once per   *)
(* key, what is reported done was done with these arguments, and the        *)
(* reviewed revision is the active one.                                     *)
THEOREM ConnectorsStayFaithful == ConnectorsSpec => []ConnectorsAreFaithful
  <1>1. ConnectorsSpec => []ConnectorsInv
    BY ConnectorsInvInit, ConnectorsInvNext, PTL DEF ConnectorsSpec
  <1> QED BY <1>1, ConnectorsInvImplies, PTL
=============================================================================
