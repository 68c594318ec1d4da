--------------------------- MODULE ProjectProofs ---------------------------
(* Machine-checked proofs about the workspace of a project: its             *)
(* conversations and the exchanges between teams, its plan and the planner  *)
(* that extends it, its documents, the memories kept of it and the          *)
(* agreement that completes it. Each part states an inductive invariant and *)
(* shows that every action keeps it.                                        *)
EXTENDS Exchanges, Planner, Documents, Memory, Completion,
        FiniteSetTheorems, TLAPS

-----------------------------------------------------------------------------
(* Conversations and Exchanges                                              *)

ConversationRow ==
    [status : {"none", "active", "archived"}, sequence : Nat, agent : BOOLEAN]

(* What the run of a turn has answered is stored.                           *)
AnswerStored(t) == runs[t] \in RunOutcomes /\ (Importing(t) => t \in imported)

(* A run is created for a turn that is there and has none, and a turn that  *)
(* is completed has stored what its run has answered.                       *)
TurnSound(t) ==
    /\ turns[t].status = "none" => launch[t] = "none" /\ runs[t] = "none"
    /\ launch[t] = "starting" => runs[t] = "none"
    /\ turns[t].status = "completed" => AnswerStored(t)

(* What a projector has read does not change any more, and what it writes   *)
(* next has been stored before.                                             *)
ProjectorSound(x) ==
    /\ x.turn \in Turns
    /\ x.step \in {"observed", "projected", "settling"} => runs[x.turn] \in RunOutcomes
    /\ x.step \in {"projected", "settling"} => (Importing(x.turn) => x.turn \in imported)

TurnTypes ==
    /\ turns \in [Turns -> TurnRow]
    /\ conversation \in ConversationRow
    /\ \A x \in messages : x \in MessageRow /\ x.sequence <= conversation.sequence
    /\ runs \in [Turns -> RunOutcomes \cup {"none", "running"}]
    /\ launch = [t \in Turns |-> launch[t]]
    /\ projector = [p \in Projectors |-> projector[p]]

(* The turns are numbered in the order in which they begin.                 *)
TurnsInOrder == \E n \in 0 .. TurnLimit : \A t \in Turns : turns[t].status # "none" <=> t <= n

OneIsActive ==
    \A s, t \in Turns : turns[s].status = "active" /\ turns[t].status = "active" => s = t

TurnsInv ==
    /\ TurnTypes /\ TurnsInOrder /\ OneIsActive
    /\ \A t \in Turns : TurnSound(t)
    /\ \A p \in Projectors : ProjectorSound(projector[p])

(* A step that begins no turn.                                              *)
RowsMove ==
    \A t \in Turns :
       /\ turns'[t].kind = turns[t].kind
       /\ turns'[t].status # "none" <=> turns[t].status # "none"
       /\ turns'[t].status = "active" => turns[t].status = "active"
       /\ turns'[t].status = "completed" => turns[t].status = "completed" \/ AnswerStored(t)

RunsMove ==
    \A t \in Turns :
       /\ turns[t].status = "none" => launch'[t] = launch[t] /\ runs'[t] = runs[t]
       /\ runs[t] \in RunOutcomes => runs'[t] = runs[t]
       /\ launch'[t] = "starting" => launch[t] = "starting" /\ runs'[t] = runs[t]

TurnsMove == RowsMove /\ RunsMove /\ imported \subseteq imported'

(* A step that begins no turn keeps the invariant if every projector that   *)
(* moved is sound.                                                          *)
LEMMA TurnsKeep ==
    ASSUME TurnsInv, TurnTypes', TurnsMove,
           \A p \in Projectors : projector'[p] = projector[p] \/ ProjectorSound(projector[p])'
    PROVE  TurnsInv'
  <1>1. \A t \in Turns : runs[t] \in RunOutcomes => (Importing(t)' <=> Importing(t))
    BY DEF TurnsMove, RowsMove, RunsMove, Importing
  <1>2. \A t \in Turns : TurnSound(t)'
    <2> SUFFICES ASSUME NEW t \in Turns PROVE TurnSound(t)' OBVIOUS
    <2>1. TurnSound(t) BY DEF TurnsInv
    <2>2. turns'[t].status = "none" => launch'[t] = "none" /\ runs'[t] = "none"
      BY <2>1 DEF TurnsMove, RowsMove, RunsMove, TurnSound
    <2>3. launch'[t] = "starting" => runs'[t] = "none" BY <2>1 DEF TurnsMove, RowsMove, RunsMove, TurnSound
    <2>4. turns'[t].status = "completed" => AnswerStored(t)'
      BY <1>1, <2>1 DEF TurnsMove, RowsMove, RunsMove, TurnSound, AnswerStored
    <2> QED BY <2>2, <2>3, <2>4 DEF TurnSound
  <1>3. \A p \in Projectors : ProjectorSound(projector[p])'
    <2> SUFFICES ASSUME NEW p \in Projectors, projector'[p] = projector[p]
                 PROVE  ProjectorSound(projector[p])'
      OBVIOUS
    <2> PICK x : x = projector[p] OBVIOUS
    <2>1. ProjectorSound(x) BY DEF TurnsInv
    <2>2. ProjectorSound(x)' BY <1>1, <2>1 DEF TurnsMove, RowsMove, RunsMove, ProjectorSound
    <2> QED BY <2>2
  <1>4. TurnsInOrder' BY DEF TurnsInv, TurnsInOrder, TurnsMove, RowsMove, RunsMove
  <1>5. OneIsActive' BY DEF TurnsInv, OneIsActive, TurnsMove, RowsMove, RunsMove
  <1> QED BY <1>2, <1>3, <1>4, <1>5 DEF TurnsInv

(* The next turn is the first that has not begun.                           *)
LEMMA NextTurnIsFresh ==
    ASSUME TurnsInv
    PROVE  /\ NextTurn \in Nat
           /\ NextTurn <= TurnLimit => NextTurn \in Turns /\ turns[NextTurn].status = "none"
           /\ \A t \in Turns : turns[t].status # "none" <=> t <= NextTurn - 1
  <1>0. TurnLimit \in Nat BY ConversationParameters
  <1>1. PICK n \in 0 .. TurnLimit : \A t \in Turns : turns[t].status # "none" <=> t <= n
    BY DEF TurnsInv, TurnsInOrder
  <1>2. {t \in Turns : turns[t].status # "none"} = 1 .. n
    BY <1>0, <1>1 DEF Turns
  <1>3. Cardinality(1 .. n) = n
    <2>1. 1 \in Int /\ n \in Int BY <1>0
    <2>2. Cardinality(1 .. n) = IF 1 > n THEN 0 ELSE n - 1 + 1 BY <2>1, FS_Interval
    <2> QED BY <1>0, <2>2
  <1>4. NextTurn = n + 1 BY <1>2, <1>3 DEF NextTurn
  <1> QED BY <1>0, <1>1, <1>4 DEF Turns

(* A message begins a turn when no other one is active.                     *)
LEMMA AppendTurnKeeps ==
    ASSUME TurnsInv, NEW kind \in TurnKinds, AppendUserMessage(kind)
    PROVE  TurnsInv'
  <1> PICK t : t = NextTurn OBVIOUS
  <1> PICK row : row = [NoTurn EXCEPT !.status = "active", !.kind = kind] OBVIOUS
  <1>1. /\ row \in TurnRow /\ row.status = "active" /\ row.kind = kind
    BY DEF NoTurn, TurnRow, TurnStatus
  <1>2. /\ t \in Turns /\ turns[t].status = "none" /\ t \in Nat
        /\ \A u \in Turns : turns[u].status # "none" <=> u <= t - 1
    BY NextTurnIsFresh DEF AppendUserMessage
  <1>3. /\ turns' = [turns EXCEPT ![t] = row] /\ launch' = [launch EXCEPT ![t] = "starting"]
        /\ UNCHANGED <<runs, imported, projector>> /\ ActiveTurns = {}
        /\ messages' = Said(t, "user")
        /\ conversation' = [conversation EXCEPT !.sequence = @ + 1]
    BY DEF AppendUserMessage, NoActiveTurn
  <1>4. /\ turns' \in [Turns -> TurnRow] /\ turns'[t] = row
        /\ \A u \in Turns : u # t => turns'[u] = turns[u]
    BY <1>1, <1>2, <1>3 DEF TurnsInv, TurnTypes
  <1>5. /\ launch' = [u \in Turns |-> launch'[u]] /\ launch'[t] = "starting"
        /\ \A u \in Turns : u # t => launch'[u] = launch[u]
    BY <1>2, <1>3 DEF TurnsInv, TurnTypes
  <1>6. /\ conversation' \in ConversationRow
        /\ \A x \in messages' : x \in MessageRow /\ x.sequence <= conversation'.sequence
    <2>0. conversation \in ConversationRow BY DEF TurnsInv, TurnTypes
    <2>1. conversation' \in ConversationRow /\ conversation'.sequence = conversation.sequence + 1
      BY <1>3, <2>0 DEF ConversationRow
    <2> PICK m : m = [sequence |-> conversation.sequence + 1, turn |-> t, role |-> "user"] OBVIOUS
    <2>2. m \in MessageRow /\ m.sequence = conversation.sequence + 1
      BY <1>2, <2>0 DEF MessageRow, ConversationRow
    <2>3. messages' = messages \cup {m} BY <1>3 DEF Said
    <2>4. conversation.sequence \in Nat BY <2>0 DEF ConversationRow
    <2>5. \A x \in messages : x \in MessageRow /\ x.sequence \in Nat /\ x.sequence <= conversation.sequence
      BY DEF TurnsInv, TurnTypes, MessageRow
    <2> QED BY <2>1, <2>2, <2>3, <2>4, <2>5
  <1>7. TurnTypes' BY <1>3, <1>4, <1>5, <1>6 DEF TurnsInv, TurnTypes
  <1>8. OneIsActive'
    <2>1. \A u \in Turns : turns[u].status # "active" BY <1>3 DEF ActiveTurns
    <2> QED BY <1>4, <2>1 DEF OneIsActive
  <1>9. TurnsInOrder'
    <2>1. t \in 0 .. TurnLimit BY <1>2, ConversationParameters DEF Turns
    <2>2. \A u \in Turns : turns'[u].status # "none" <=> u <= t
      <3> SUFFICES ASSUME NEW u \in Turns PROVE turns'[u].status # "none" <=> u <= t OBVIOUS
      <3>1. u \in Nat BY ConversationParameters DEF Turns
      <3>2. CASE u = t
        <4>1. turns'[u].status = "active" BY <1>1, <1>4, <3>2
        <4>2. u <= t BY <1>2, <3>2
        <4> QED BY <4>1, <4>2
      <3>3. CASE u # t
        <4>1. u <= t <=> u <= t - 1 BY <1>2, <3>1, <3>3
        <4> QED BY <1>2, <1>4, <3>3, <4>1
      <3> QED BY <3>2, <3>3
    <2> QED BY <2>1, <2>2 DEF TurnsInOrder
  <1>10. runs[t] = "none" BY <1>2 DEF TurnsInv, TurnSound
  <1>11. \A u \in Turns : TurnSound(u)'
    <2> SUFFICES ASSUME NEW u \in Turns PROVE TurnSound(u)' OBVIOUS
    <2>1. CASE u = t
      <3>1. turns'[u].status = "active" /\ runs'[u] = "none" BY <1>1, <1>3, <1>4, <1>10, <2>1
      <3> QED BY <3>1 DEF TurnSound
    <2>2. CASE u # t
      <3>1. TurnSound(u) BY DEF TurnsInv
      <3>2. turns'[u] = turns[u] /\ launch'[u] = launch[u] BY <1>4, <1>5, <2>2
      <3> QED BY <1>3, <3>1, <3>2 DEF TurnSound, AnswerStored, Importing
    <2> QED BY <2>1, <2>2
  <1>12. \A p \in Projectors : ProjectorSound(projector[p])'
    <2> SUFFICES ASSUME NEW p \in Projectors PROVE ProjectorSound(projector[p])' OBVIOUS
    <2> PICK x : x = projector[p] OBVIOUS
    <2>1. ProjectorSound(x) BY DEF TurnsInv
    <2>2. x.step \in {"observed", "projected", "settling"} => x.turn # t
      BY <1>10, <2>1 DEF ProjectorSound, RunOutcomes
    <2>3. x.step \in {"projected", "settling"} => turns'[x.turn] = turns[x.turn]
      BY <1>4, <2>1, <2>2 DEF ProjectorSound
    <2>4. ProjectorSound(x)' BY <1>3, <2>1, <2>3 DEF ProjectorSound, Importing
    <2> QED BY <1>3, <2>4
  <1> QED BY <1>7, <1>8, <1>9, <1>11, <1>12 DEF TurnsInv

(* A turn that has begun is written.                                        *)
LEMMA TurnWritten ==
    ASSUME TurnsInv, NEW t \in Turns, turns[t].status # "none",
           NEW row \in TurnRow, row.kind = turns[t].kind, row.status # "none",
           row.status = "active" => turns[t].status = "active",
           row.status = "completed" =>
              turns[t].status = "completed" \/ AnswerStored(t),
           turns' = [turns EXCEPT ![t] = row]
    PROVE  turns' \in [Turns -> TurnRow] /\ RowsMove
  <1>1. turns \in [Turns -> TurnRow] BY DEF TurnsInv, TurnTypes
  <1>2. turns'[t] = row /\ \A u \in Turns : u # t => turns'[u] = turns[u] BY <1>1
  <1>3. turns' \in [Turns -> TurnRow] BY <1>1
  <1>4. RowsMove
    <2> SUFFICES ASSUME NEW u \in Turns
                 PROVE  /\ turns'[u].kind = turns[u].kind
                        /\ turns'[u].status # "none" <=> turns[u].status # "none"
                        /\ turns'[u].status = "active" => turns[u].status = "active"
                        /\ turns'[u].status = "completed" =>
                              turns[u].status = "completed" \/ AnswerStored(u)
      BY DEF RowsMove
    <2>1. CASE u = t BY <1>2, <2>1
    <2>2. CASE u # t BY <1>2, <2>2
    <2> QED BY <2>1, <2>2
  <1> QED BY <1>3, <1>4

(* A step that writes no turn, launch or run.                               *)
LEMMA NothingMoves ==
    ASSUME UNCHANGED <<turns, launch, runs>>, imported \subseteq imported'
    PROVE  TurnsMove
  BY DEF TurnsMove, RowsMove, RunsMove

(* The messages said so far keep their numbers.                             *)
LEMMA MessagesKeep ==
    ASSUME TurnTypes, NEW t \in Turns, NEW role \in {"user", "assistant"},
           messages' = Said(t, role), conversation' = [conversation EXCEPT !.sequence = @ + 1]
    PROVE  /\ conversation' \in ConversationRow
           /\ \A x \in messages' : x \in MessageRow /\ x.sequence <= conversation'.sequence
  <1>0. conversation \in ConversationRow BY DEF TurnTypes
  <1>1. conversation' \in ConversationRow /\ conversation'.sequence = conversation.sequence + 1
    BY <1>0 DEF ConversationRow
  <1> PICK m : m = [sequence |-> conversation.sequence + 1, turn |-> t, role |-> role] OBVIOUS
  <1>2. m \in MessageRow /\ m.sequence = conversation.sequence + 1
    BY <1>0 DEF MessageRow, ConversationRow
  <1>3. messages' = messages \cup {m} BY DEF Said
  <1>4. conversation.sequence \in Nat BY <1>0 DEF ConversationRow
  <1>5. \A x \in messages : x \in MessageRow /\ x.sequence \in Nat /\ x.sequence <= conversation.sequence
    BY DEF TurnTypes, MessageRow
  <1> QED BY <1>1, <1>2, <1>3, <1>4, <1>5

(* A step that leaves the conversation alone keeps its invariant.           *)
LEMMA TurnsStutter ==
    ASSUME TurnsInv, UNCHANGED conversationVars
    PROVE  TurnsInv'
  <1>1. UNCHANGED <<conversation, turns, messages, runs, launch, imported, projector>>
    BY DEF conversationVars
  <1>2. TurnsMove BY <1>1, NothingMoves
  <1>3. TurnTypes' BY <1>1 DEF TurnsInv, TurnTypes
  <1> QED BY <1>1, <1>2, <1>3, TurnsKeep

(* The routes of the conversation itself write no turn.                     *)
LEMMA ConversationRoutesKeep ==
    ASSUME TurnsInv, ConversationRoutes
    PROVE  TurnsInv'
  <1>0. conversation \in ConversationRow BY DEF TurnsInv, TurnTypes
  <1>1. /\ UNCHANGED <<turns, messages, runs, launch, imported, projector>>
        /\ conversation' \in ConversationRow /\ conversation'.sequence = conversation.sequence
    BY <1>0 DEF ConversationRoutes, EnsureTeamAgent, EnsureConversation, ArchiveConversation,
       ReactivateConversation, BeginSend, RefuseMessage, ConversationRow
  <1>2. TurnsMove BY <1>1, NothingMoves
  <1>3. TurnTypes' BY <1>1 DEF TurnsInv, TurnTypes
  <1> QED BY <1>1, <1>2, <1>3, TurnsKeep

(* The launch of a turn goes on; its run may begin or end.                  *)
LEMMA LaunchMoves ==
    ASSUME TurnsInv, NEW t \in Turns, turns[t].status # "none", NEW step, NEW run,
           launch' = [launch EXCEPT ![t] = step], runs' = [runs EXCEPT ![t] = run],
           run \in RunOutcomes \cup {"none", "running"},
           runs[t] \in RunOutcomes => run = runs[t],
           step = "starting" => launch[t] = "starting" /\ run = runs[t],
           UNCHANGED <<conversation, messages, imported, projector>>,
           turns' \in [Turns -> TurnRow], RowsMove
    PROVE  TurnsInv'
  <1>1. runs' \in [Turns -> RunOutcomes \cup {"none", "running"}] BY DEF TurnsInv, TurnTypes
  <1>2. launch' = [u \in Turns |-> launch'[u]] /\ launch'[t] = step
        /\ \A u \in Turns : u # t => launch'[u] = launch[u]
    BY DEF TurnsInv, TurnTypes
  <1>3. runs'[t] = run /\ \A u \in Turns : u # t => runs'[u] = runs[u] BY DEF TurnsInv, TurnTypes
  <1>4. RunsMove
    <2> SUFFICES ASSUME NEW u \in Turns
                 PROVE  /\ turns[u].status = "none" => launch'[u] = launch[u] /\ runs'[u] = runs[u]
                        /\ runs[u] \in RunOutcomes => runs'[u] = runs[u]
                        /\ launch'[u] = "starting" => launch[u] = "starting" /\ runs'[u] = runs[u]
      BY DEF RunsMove
    <2>1. CASE u = t BY <1>2, <1>3, <2>1
    <2>2. CASE u # t BY <1>2, <1>3, <2>2
    <2> QED BY <2>1, <2>2
  <1>5. TurnTypes' BY <1>1, <1>2 DEF TurnsInv, TurnTypes
  <1> QED BY <1>4, <1>5, TurnsKeep DEF TurnsMove

(* A step that writes no turn.                                              *)
LEMMA TurnsStand == ASSUME UNCHANGED turns PROVE RowsMove
  BY DEF RowsMove

(* A turn that was launched, or whose run was read, has begun.              *)
LEMMA BegunTurn ==
    ASSUME TurnsInv, NEW t \in Turns, launch[t] # "none" \/ runs[t] \in RunOutcomes
    PROVE  turns[t].status # "none" /\ turns[t] \in TurnRow
  BY DEF TurnsInv, TurnSound, TurnTypes, RunOutcomes

(* The launch of a run, from the message to the binding or its failure.     *)
LEMMA LaunchStepsKeep ==
    ASSUME TurnsInv, LaunchSteps
    PROVE  TurnsInv'
  <1> PICK t \in Turns :
        \/ LaunchTurnRun(t) \/ StartExchangeDraftRun(t) \/ StartExchangeReplyTurn(t)
        \/ BindTurnRun(t) \/ LaunchFails(t) \/ Compensate(t) \/ LaunchLost(t)
        \/ \E outcome \in RunOutcomes : RunEnds(t, outcome)
    BY DEF LaunchSteps
  <1>0. /\ turns \in [Turns -> TurnRow] /\ launch = [u \in Turns |-> launch[u]]
        /\ runs \in [Turns -> RunOutcomes \cup {"none", "running"}]
    BY DEF TurnsInv, TurnTypes
  <1>1. runs = [runs EXCEPT ![t] = runs[t]] /\ launch = [launch EXCEPT ![t] = launch[t]]
    BY <1>0
  <1>2. CASE LaunchTurnRun(t) \/ StartExchangeDraftRun(t) \/ StartExchangeReplyTurn(t)
    <2>1. CreateRun(t)
      BY <1>2 DEF LaunchTurnRun, StartExchangeDraftRun, StartExchangeReplyTurn
    <2>2. turns[t].status # "none" BY <2>1, BegunTurn DEF CreateRun
    <2>3. runs[t] = "none" BY <2>1 DEF CreateRun, TurnsInv, TurnSound
    <2>4. runs[t] \notin RunOutcomes BY <2>3 DEF RunOutcomes
    <2>5. RowsMove /\ turns' \in [Turns -> TurnRow] BY <1>0, <2>1, TurnsStand DEF CreateRun
    <2> QED BY <2>1, <2>2, <2>4, <2>5, LaunchMoves DEF CreateRun
  <1>3. CASE BindTurnRun(t)
    <2>0. PICK row : row = [turns[t] EXCEPT !.bound = TRUE] OBVIOUS
    <2>1. turns[t].status # "none" /\ turns[t] \in TurnRow BY <1>3, BegunTurn DEF BindTurnRun
    <2>2. row \in TurnRow /\ row.kind = turns[t].kind /\ row.status = turns[t].status
      BY <2>0, <2>1 DEF TurnRow
    <2>3. turns' = [turns EXCEPT ![t] = row] BY <1>0, <1>3, <2>0 DEF BindTurnRun, BoundTurn
    <2>4. turns' \in [Turns -> TurnRow] /\ RowsMove BY <2>1, <2>2, <2>3, TurnWritten
    <2>5. /\ launch' = [launch EXCEPT ![t] = "bound"] /\ runs' = [runs EXCEPT ![t] = runs[t]]
          /\ UNCHANGED <<conversation, messages, imported, projector>>
      BY <1>1, <1>3 DEF BindTurnRun
    <2> QED BY <1>0, <2>1, <2>4, <2>5, LaunchMoves
  <1>4. CASE LaunchFails(t) \/ LaunchLost(t)
    <2>1. turns[t].status # "none" BY <1>4, BegunTurn DEF LaunchFails, LaunchLost
    <2>2. PICK step \in {"failing", "lost"} : launch' = [launch EXCEPT ![t] = step]
      BY <1>4 DEF LaunchFails, LaunchLost
    <2>3. RowsMove /\ turns' \in [Turns -> TurnRow]
      BY <1>0, <1>4, TurnsStand DEF LaunchFails, LaunchLost
    <2>4. /\ runs' = [runs EXCEPT ![t] = runs[t]]
          /\ UNCHANGED <<conversation, messages, imported, projector>>
      BY <1>1, <1>4 DEF LaunchFails, LaunchLost
    <2> QED BY <1>0, <2>1, <2>2, <2>3, <2>4, LaunchMoves
  <1>5. CASE Compensate(t)
    <2>0. PICK row : row = [turns[t] EXCEPT !.status = "failed"] OBVIOUS
    <2>1. turns[t].status # "none" /\ turns[t] \in TurnRow BY <1>5, BegunTurn DEF Compensate
    <2>2. row \in TurnRow /\ row.kind = turns[t].kind /\ row.status = "failed"
          /\ row.status \notin {"none", "active", "completed"}
      BY <2>0, <2>1 DEF TurnRow, TurnStatus
    <2>3. turns' = [turns EXCEPT ![t] = row] BY <1>0, <1>5, <2>0 DEF Compensate
    <2>4. turns' \in [Turns -> TurnRow] /\ RowsMove BY <2>1, <2>2, <2>3, TurnWritten
    <2>5. /\ launch' = [launch EXCEPT ![t] = "lost"] /\ runs' = [runs EXCEPT ![t] = runs[t]]
          /\ UNCHANGED <<conversation, messages, imported, projector>>
      BY <1>1, <1>5 DEF Compensate
    <2> QED BY <1>0, <2>1, <2>4, <2>5, LaunchMoves
  <1>6. CASE \E outcome \in RunOutcomes : RunEnds(t, outcome)
    <2> PICK outcome \in RunOutcomes : RunEnds(t, outcome) BY <1>6
    <2>1. runs[t] = "running" BY DEF RunEnds
    <2>2. turns[t].status # "none" /\ launch[t] # "starting" /\ runs[t] \notin RunOutcomes
      BY <2>1 DEF TurnsInv, TurnSound, RunOutcomes
    <2>3. RowsMove /\ turns' \in [Turns -> TurnRow] BY <1>0, TurnsStand DEF RunEnds
    <2>4. /\ launch' = [launch EXCEPT ![t] = launch[t]] /\ runs' = [runs EXCEPT ![t] = outcome]
          /\ UNCHANGED <<conversation, messages, imported, projector>>
      BY <1>1 DEF RunEnds
    <2> QED BY <2>2, <2>3, <2>4, LaunchMoves
  <1> QED BY <1>2, <1>3, <1>4, <1>5, <1>6

(* A projecting thread takes its next step.                                 *)
LEMMA ProjectorMoves ==
    ASSUME TurnsInv, NEW p \in Projectors, NEW x, ProjectorSound(x)',
           projector' = [projector EXCEPT ![p] = x], UNCHANGED <<runs, launch>>,
           imported \subseteq imported',
           turns' \in [Turns -> TurnRow], RowsMove, conversation' \in ConversationRow,
           \A m \in messages' : m \in MessageRow /\ m.sequence <= conversation'.sequence
    PROVE  TurnsInv'
  <1>1. /\ projector' = [q \in Projectors |-> projector'[q]] /\ projector'[p] = x
        /\ \A q \in Projectors : q # p => projector'[q] = projector[q]
    BY DEF TurnsInv, TurnTypes
  <1>2. TurnsMove BY DEF TurnsMove, RunsMove
  <1>3. TurnTypes' BY <1>1 DEF TurnsInv, TurnTypes
  <1>4. \A q \in Projectors : projector'[q] = projector[q] \/ ProjectorSound(projector[q])'
    <2> SUFFICES ASSUME NEW q \in Projectors, projector'[q] # projector[q]
                 PROVE  ProjectorSound(projector[q])'
      OBVIOUS
    <2>1. projector'[q] = x BY <1>1
    <2> QED BY <2>1 DEF ProjectorSound, Importing
  <1> QED BY <1>2, <1>3, <1>4, TurnsKeep

(* An ended run is observed: its binding is healed and read.                *)
LEMMA ObserveKeeps ==
    ASSUME TurnsInv, NEW p \in Projectors, NEW t \in Turns, Observe(p, t)
    PROVE  TurnsInv'
  <1>0. /\ turns \in [Turns -> TurnRow] /\ conversation \in ConversationRow
        /\ projector = [q \in Projectors |-> projector[q]]
        /\ \A m \in messages : m \in MessageRow /\ m.sequence <= conversation.sequence
    BY DEF TurnsInv, TurnTypes
  <1>1. runs[t] \in RunOutcomes /\ UNCHANGED <<conversation, messages, runs, launch, imported>>
    BY DEF Observe, RunFound
  <1> PICK row : row = [turns[t] EXCEPT !.bound = TRUE] OBVIOUS
  <1>2. turns[t].status # "none" /\ turns[t] \in TurnRow BY <1>1, BegunTurn
  <1>3. row \in TurnRow /\ row.kind = turns[t].kind /\ row.status = turns[t].status
    BY <1>2 DEF TurnRow
  <1>4. turns' = [turns EXCEPT ![t] = row] BY <1>0 DEF Observe, BoundTurn
  <1>5. turns' \in [Turns -> TurnRow] /\ RowsMove BY <1>2, <1>3, <1>4, TurnWritten
  <1>6. PICK x : projector' = [projector EXCEPT ![p] = x] /\
                 (x = projector[p] \/ x = [step |-> "observed", turn |-> t])
    BY <1>0 DEF Observe, Step
  <1>7. ProjectorSound(x)'
    <2>1. CASE x = projector[p]
      <3>1. ProjectorSound(x) BY <2>1 DEF TurnsInv
      <3>2. x.turn \in Turns /\ turns'[x.turn].kind = turns[x.turn].kind
        BY <1>5, <3>1 DEF ProjectorSound, RowsMove
      <3> QED BY <1>1, <3>1, <3>2 DEF ProjectorSound, Importing
    <2>2. CASE x = [step |-> "observed", turn |-> t]
      BY <1>1, <2>2 DEF ProjectorSound
    <2> QED BY <1>6, <2>1, <2>2
  <1> QED BY <1>0, <1>1, <1>5, <1>6, <1>7, ProjectorMoves

(* The draft of an ended run is stored before its turn is completed.        *)
LEMMA ProjectDraftKeeps ==
    ASSUME TurnsInv, NEW p \in Projectors, ProjectDraft(p)
    PROVE  TurnsInv'
  <1> PICK t : t = projector[p].turn OBVIOUS
  <1>0. /\ turns \in [Turns -> TurnRow] /\ conversation \in ConversationRow
        /\ \A m \in messages : m \in MessageRow /\ m.sequence <= conversation.sequence
        /\ ProjectorSound(projector[p])
    BY DEF TurnsInv, TurnTypes
  <1>1. t \in Turns /\ runs[t] \in RunOutcomes BY <1>0 DEF ProjectorSound, ProjectDraft
  <1>2. /\ UNCHANGED <<conversation, turns, messages, runs, launch>>
        /\ imported' = Imported(t) /\ projector' = Step(p, "projected", t)
    BY DEF ProjectDraft
  <1> PICK x : x = [step |-> "projected", turn |-> t] OBVIOUS
  <1>3. projector' = [projector EXCEPT ![p] = x] BY <1>2 DEF Step
  <1>4. imported \subseteq imported' /\ (Importing(t) => t \in imported')
    BY <1>2 DEF Imported
  <1>5. x.turn = t BY DEF Imported
  <1>6. ProjectorSound(x)' BY <1>1, <1>2, <1>4, <1>5 DEF ProjectorSound, Importing
  <1>7. turns' \in [Turns -> TurnRow] /\ RowsMove BY <1>0, <1>2, TurnsStand
  <1> QED BY <1>0, <1>2, <1>3, <1>4, <1>6, <1>7, ProjectorMoves

(* What a projection writes when it ends a turn.                            *)
LEMMA TurnEnds ==
    ASSUME TurnsInv, NEW p \in Projectors, projector[p].step = "settling",
           NEW row \in TurnRow, row.kind = turns[projector[p].turn].kind,
           row.status \in {"completed", "failed", "cancelled"},
           turns' = [turns EXCEPT ![projector[p].turn] = row],
           projector' = [projector EXCEPT ![p] = Idle],
           UNCHANGED <<runs, launch, imported>>, conversation' \in ConversationRow,
           \A m \in messages' : m \in MessageRow /\ m.sequence <= conversation'.sequence
    PROVE  TurnsInv'
  <1> PICK t : t = projector[p].turn OBVIOUS
  <1>1. ProjectorSound(projector[p]) BY DEF TurnsInv
  <1>2. t \in Turns /\ runs[t] \in RunOutcomes /\ AnswerStored(t)
    BY <1>1 DEF ProjectorSound, AnswerStored
  <1>3. turns[t].status # "none" BY <1>2, BegunTurn
  <1>4. row.status \notin {"none", "active"} /\ row.kind = turns[t].kind
        /\ turns' = [turns EXCEPT ![t] = row]
    OBVIOUS
  <1>5. turns' \in [Turns -> TurnRow] /\ RowsMove BY <1>2, <1>3, <1>4, TurnWritten
  <1>6. ProjectorSound(Idle)'
    BY ConversationParameters DEF ProjectorSound, Idle, Turns
  <1> QED BY <1>5, <1>6, ProjectorMoves

(* A projector stops and forgets what it has read.                          *)
LEMMA ProjectorStopsKeeps ==
    ASSUME TurnsInv, NEW p \in Projectors, ProjectorStops(p)
    PROVE  TurnsInv'
  <1>1. /\ UNCHANGED <<conversation, turns, messages, runs, launch, imported>>
        /\ projector' = [projector EXCEPT ![p] = Idle]
    BY DEF ProjectorStops
  <1>2. ProjectorSound(Idle)'
    BY ConversationParameters DEF ProjectorSound, Idle, Turns
  <1>3. turns' \in [Turns -> TurnRow] /\ RowsMove BY <1>1, TurnsStand DEF TurnsInv, TurnTypes
  <1> QED BY <1>1, <1>2, <1>3, ProjectorMoves DEF TurnsInv, TurnTypes

(* A projector reads the turn again and ends it.                            *)
LEMMA SettleStepsKeep ==
    ASSUME TurnsInv, SettleSteps
    PROVE  TurnsInv'
  <1> PICK p \in Projectors :
        ReadTurn(p) \/ CompleteTurn(p) \/ FailTurn(p) \/ CancelTurn(p)
    BY DEF SettleSteps
  <1> PICK t : t = projector[p].turn OBVIOUS
  <1>0. /\ turns \in [Turns -> TurnRow] /\ conversation \in ConversationRow
        /\ \A m \in messages : m \in MessageRow /\ m.sequence <= conversation.sequence
        /\ ProjectorSound(projector[p])
    BY DEF TurnsInv, TurnTypes
  <1>1. t \in Turns /\ turns[t] \in TurnRow BY <1>0 DEF ProjectorSound
  <1>2. ProjectorSound(Idle)'
    BY ConversationParameters DEF ProjectorSound, Idle, Turns
  <1>3. CASE ReadTurn(p)
    <2> PICK x : x = [step |-> "settling", turn |-> t] OBVIOUS
    <2>1. UNCHANGED <<conversation, turns, messages, runs, launch, imported>>
      BY <1>3 DEF ReadTurn
    <2>2. \/ projector' = [projector EXCEPT ![p] = Idle]
          \/ projector[p].step = "projected" /\ projector' = [projector EXCEPT ![p] = x]
      BY <1>3 DEF ReadTurn, Step
    <2>3. x.turn = t OBVIOUS
    <2>4. ASSUME projector[p].step = "projected" PROVE ProjectorSound(x)'
      BY <1>0, <2>1, <2>3, <2>4 DEF ProjectorSound, Importing
    <2>5. turns' \in [Turns -> TurnRow] /\ RowsMove BY <1>0, <2>1, TurnsStand
    <2> QED BY <1>0, <1>2, <2>1, <2>2, <2>4, <2>5, ProjectorMoves
  <1>4. CASE CompleteTurn(p)
    <2>0. PICK row : row = [turns[t] EXCEPT !.status = "completed", !.bound = TRUE,
                                            !.reply = conversation.sequence + 1] OBVIOUS
    <2>1. conversation.sequence + 1 \in Nat BY <1>0 DEF ConversationRow
    <2>2. row \in TurnRow /\ row.kind = turns[t].kind /\ row.status = "completed"
      BY <1>1, <2>0, <2>1 DEF TurnRow, TurnStatus
    <2>3. turns' = [turns EXCEPT ![t] = row] BY <1>0, <1>1, <1>4, <2>0 DEF CompleteTurn
    <2>4. /\ conversation' \in ConversationRow
          /\ \A m \in messages' : m \in MessageRow /\ m.sequence <= conversation'.sequence
      BY <1>1, <1>4, MessagesKeep DEF CompleteTurn, TurnsInv
    <2>5. projector[p].step = "settling" /\ projector' = [projector EXCEPT ![p] = Idle]
          /\ UNCHANGED <<runs, launch, imported>>
      BY <1>4 DEF CompleteTurn
    <2> QED BY <2>2, <2>3, <2>4, <2>5, TurnEnds
  <1>5. CASE FailTurn(p) \/ CancelTurn(p)
    <2>4. PICK status \in {"failed", "cancelled"} : turns' = [turns EXCEPT ![t].status = status]
      BY <1>5 DEF FailTurn, CancelTurn
    <2>0. PICK row : row = [turns[t] EXCEPT !.status = status] OBVIOUS
    <2>1. row \in TurnRow /\ row.kind = turns[t].kind /\ row.status = status
      BY <1>1, <2>0 DEF TurnRow, TurnStatus
    <2>2. turns' = [turns EXCEPT ![t] = row] BY <1>0, <1>1, <2>0, <2>4
    <2>3. projector[p].step = "settling" /\ projector' = [projector EXCEPT ![p] = Idle]
          /\ UNCHANGED <<conversation, messages, runs, launch, imported>>
      BY <1>5 DEF FailTurn, CancelTurn
    <2> QED BY <1>0, <2>1, <2>2, <2>3, TurnEnds
  <1> QED BY <1>3, <1>4, <1>5

(* The turn is recorded as the one that drafts the reply.                   *)
LEMMA RecordDraftTurnKeeps ==
    ASSUME TurnsInv, NEW t \in Turns, RecordDraftTurn(t)
    PROVE  TurnsInv'
  <1>1. turns[t].status # "none" BY BegunTurn DEF RecordDraftTurn
  <1>2. /\ runs = [runs EXCEPT ![t] = runs[t]] /\ turns \in [Turns -> TurnRow]
        /\ runs[t] \in RunOutcomes \cup {"none", "running"}
    BY DEF TurnsInv, TurnTypes
  <1>3. RowsMove BY TurnsStand DEF RecordDraftTurn
  <1> QED BY <1>1, <1>2, <1>3, LaunchMoves DEF RecordDraftTurn

-----------------------------------------------------------------------------
(* The turns that are completed were so before, with the same reply.        *)
RepliesStand ==
    \A t \in Turns : turns'[t].status = "completed" =>
        turns[t].status = "completed" /\ turns'[t].reply = turns[t].reply

(* A step that says nothing and completes no turn keeps the replies.        *)
LEMMA RepliesKeep ==
    ASSUME RepliesAreRecorded, RepliesStand, UNCHANGED messages
    PROVE  RepliesAreRecorded'
  BY DEF RepliesAreRecorded, RepliesStand

(* A message takes a number no other one has; the agent's completes a turn. *)
LEMMA MessageKeepsReplies ==
    ASSUME TurnTypes, RepliesAreRecorded, NEW t \in Turns, NEW role, messages' = Said(t, role),
           \A u \in Turns : turns'[u].status = "completed" =>
              \/ turns[u].status = "completed" /\ turns'[u].reply = turns[u].reply
              \/ u = t /\ role = "assistant" /\ turns'[u].reply = conversation.sequence + 1
    PROVE  RepliesAreRecorded'
  <1> PICK m : m = [sequence |-> conversation.sequence + 1, turn |-> t, role |-> role] OBVIOUS
  <1>1. messages' = messages \cup {m} BY DEF Said
  <1>2. conversation.sequence \in Nat BY DEF TurnTypes, ConversationRow
  <1>3. \A x \in messages : x.sequence \in Nat /\ x.sequence <= conversation.sequence
    BY DEF TurnTypes, MessageRow
  <1>4. \A x \in messages : x.sequence # m.sequence BY <1>2, <1>3
  <1>5. \A x, y \in messages' : x.sequence = y.sequence => x = y
    BY <1>1, <1>4 DEF RepliesAreRecorded
  <1>6. ASSUME NEW u \in Turns, turns'[u].status = "completed"
        PROVE  [sequence |-> turns'[u].reply, turn |-> u, role |-> "assistant"] \in messages'
    <2>1. CASE turns[u].status = "completed" /\ turns'[u].reply = turns[u].reply
      BY <1>1, <2>1 DEF RepliesAreRecorded
    <2>2. CASE u = t /\ role = "assistant" /\ turns'[u].reply = conversation.sequence + 1
      BY <1>1, <2>2
    <2> QED BY <1>6, <2>1, <2>2
  <1> QED BY <1>5, <1>6 DEF RepliesAreRecorded

(* A message of a user begins a turn that has no reply.                     *)
LEMMA AppendKeepsReplies ==
    ASSUME TurnsInv, RepliesAreRecorded, NEW kind \in TurnKinds, AppendUserMessage(kind)
    PROVE  RepliesAreRecorded'
  <1> PICK t : t = NextTurn OBVIOUS
  <1> PICK row : row = [NoTurn EXCEPT !.status = "active", !.kind = kind] OBVIOUS
  <1>1. row.status = "active" BY DEF NoTurn
  <1>2. t \in Turns /\ turns' = [turns EXCEPT ![t] = row] /\ messages' = Said(t, "user")
    BY NextTurnIsFresh DEF AppendUserMessage
  <1>3. \A u \in Turns : turns'[u].status = "completed" => turns'[u] = turns[u]
    BY <1>1, <1>2 DEF TurnsInv, TurnTypes
  <1> QED BY <1>2, <1>3, MessageKeepsReplies DEF TurnsInv

(* Neither the routes nor the launch of a run complete a turn.              *)
LEMMA LaunchKeepsReplies ==
    ASSUME TurnsInv, RepliesAreRecorded, ConversationRoutes \/ LaunchSteps
    PROVE  RepliesAreRecorded'
  <1>0. turns \in [Turns -> TurnRow] BY DEF TurnsInv, TurnTypes
  <1>1. CASE ConversationRoutes
    <2>1. UNCHANGED <<turns, messages>>
      BY <1>1 DEF ConversationRoutes, EnsureTeamAgent, EnsureConversation, ArchiveConversation,
         ReactivateConversation, BeginSend, RefuseMessage
    <2> QED BY <2>1, RepliesKeep DEF RepliesStand
  <1>2. CASE LaunchSteps
    <2> PICK t \in Turns :
          \/ CreateRun(t) \/ LaunchFails(t) \/ LaunchLost(t)
             \/ \E outcome \in RunOutcomes : RunEnds(t, outcome)
          \/ BindTurnRun(t) \/ Compensate(t)
      BY <1>2 DEF LaunchSteps, LaunchTurnRun, StartExchangeDraftRun, StartExchangeReplyTurn
    <2>1. UNCHANGED messages
      BY DEF CreateRun, LaunchFails, LaunchLost, RunEnds, BindTurnRun, Compensate
    <2>2. \/ UNCHANGED turns
          \/ turns' = [turns EXCEPT ![t].bound = TRUE]
          \/ turns' = [turns EXCEPT ![t].status = "failed"]
      BY DEF CreateRun, LaunchFails, LaunchLost, RunEnds, BindTurnRun, Compensate, BoundTurn
    <2>3. RepliesStand BY <1>0, <2>2 DEF RepliesStand, TurnRow
    <2> QED BY <2>1, <2>3, RepliesKeep
  <1> QED BY <1>1, <1>2

(* A projection that heals a binding, stores a draft or stops says nothing. *)
LEMMA ProjectionKeepsReplies ==
    ASSUME TurnsInv, RepliesAreRecorded, NEW p \in Projectors,
           ProjectDraft(p) \/ ProjectorStops(p) \/ \E t \in Turns : Observe(p, t)
    PROVE  RepliesAreRecorded'
  <1>0. turns \in [Turns -> TurnRow] BY DEF TurnsInv, TurnTypes
  <1>1. UNCHANGED messages BY DEF ProjectDraft, ProjectorStops, Observe
  <1>2. UNCHANGED turns \/ \E t \in Turns : turns' = [turns EXCEPT ![t].bound = TRUE]
    BY DEF ProjectDraft, ProjectorStops, Observe, BoundTurn
  <1>3. RepliesStand BY <1>0, <1>2 DEF RepliesStand, TurnRow
  <1> QED BY <1>1, <1>3, RepliesKeep

(* The turn a projection completes names the message it has appended.       *)
LEMMA SettleKeepsReplies ==
    ASSUME TurnsInv, RepliesAreRecorded, SettleSteps
    PROVE  RepliesAreRecorded'
  <1> PICK p \in Projectors : ReadTurn(p) \/ CompleteTurn(p) \/ FailTurn(p) \/ CancelTurn(p)
    BY DEF SettleSteps
  <1> PICK t : t = projector[p].turn OBVIOUS
  <1>0. turns \in [Turns -> TurnRow] /\ TurnTypes /\ t \in Turns
    BY DEF TurnsInv, TurnTypes, ProjectorSound
  <1>1. CASE CompleteTurn(p)
    <2>1. /\ messages' = Said(t, "assistant")
          /\ turns' = [turns EXCEPT ![t].status = "completed", ![t].bound = TRUE,
                                    ![t].reply = conversation.sequence + 1]
      BY <1>1 DEF CompleteTurn
    <2>2. /\ \A u \in Turns : u # t => turns'[u] = turns[u]
          /\ turns'[t].reply = conversation.sequence + 1
      BY <1>0, <2>1 DEF TurnRow
    <2> QED BY <1>0, <2>1, <2>2, MessageKeepsReplies
  <1>2. CASE ReadTurn(p) \/ FailTurn(p) \/ CancelTurn(p)
    <2>1. UNCHANGED messages BY <1>2 DEF ReadTurn, FailTurn, CancelTurn
    <2>2. \/ UNCHANGED turns
          \/ \E status \in {"failed", "cancelled"} : turns' = [turns EXCEPT ![t].status = status]
      BY <1>2 DEF ReadTurn, FailTurn, CancelTurn
    <2>3. RepliesStand BY <1>0, <2>2 DEF RepliesStand, TurnRow
    <2> QED BY <2>1, <2>3, RepliesKeep
  <1> QED BY <1>1, <1>2

-----------------------------------------------------------------------------
(* The exchanges are numbered in the order in which they are sent.          *)
SentUpTo(n) == \A e \in 1 .. ExchangeLimit : exchanges[e].status # "none" <=> e <= n

(* A response is marked as the last one when the others have answered, and  *)
(* a recipient is marked as responded only with its response stored.        *)
ExchangesInv ==
    /\ exchanges \in [1..ExchangeLimit -> ExchangeRow]
    /\ recipients \in [Recipients -> RecipientRow]
    /\ proposal \in ProposalRow
    /\ approving \in [ExchangeMembers -> [step : {"none", "approve", "reject"}, version : Nat]]
    /\ answering \in [Recipients -> [step : {"none", "answer"}, last : BOOLEAN]]
    /\ \E n \in 0 .. ExchangeLimit : SentUpTo(n)
    /\ RespondedMeansAnswered
    /\ \A r \in Recipients : answering[r].step = "answer" =>
          /\ Last > 0
          /\ answering[r].last => \A s \in Recipients \ {r} : recipients[s].response
    /\ \A r \in Recipients : recipients[r].status = "responded" => recipients[r].response

(* Exchanges numbered up to n are n exchanges.                              *)
LEMMA CountUpTo ==
    ASSUME NEW n \in 0 .. ExchangeLimit, NEW f,
           \A e \in 1 .. ExchangeLimit : f[e].status # "none" <=> e <= n
    PROVE  Cardinality({e \in 1 .. ExchangeLimit : f[e].status # "none"}) = n
  <1>0. ExchangeLimit \in Nat BY ExchangeParameters
  <1> DEFINE S == {e \in 1 .. ExchangeLimit : f[e].status # "none"}
  <1>1. S = 1 .. n BY <1>0
  <1>2. 1 \in Int /\ n \in Int BY <1>0
  <1>3. Cardinality(1 .. n) = IF 1 > n THEN 0 ELSE n - 1 + 1 BY <1>2, FS_Interval
  <1>4. Cardinality(1 .. n) = n BY <1>0, <1>3
  <1> HIDE DEF S
  <1>5. Cardinality(S) = n BY <1>1, <1>4
  <1> QED BY <1>5 DEF S

(* The recipients change, and what they have responded stays.               *)
LEMMA RecipientsMove ==
    ASSUME ExchangesInv, UNCHANGED <<proposal, approving, exchanges, answering>>,
           recipients' \in [Recipients -> RecipientRow],
           \A r \in Recipients :
              /\ recipients[r].response => recipients'[r].response
              /\ recipients'[r].status = "responded" => recipients'[r].response
    PROVE  ExchangesInv'
  <1>1. Last' = Last BY DEF Last, Sent
  <1>2. RespondedMeansAnswered' BY <1>1 DEF ExchangesInv, RespondedMeansAnswered
  <1>3. PICK n \in 0 .. ExchangeLimit : SentUpTo(n) BY DEF ExchangesInv
  <1>4. SentUpTo(n)' BY <1>3 DEF SentUpTo
  <1> QED BY <1>1, <1>2, <1>4 DEF ExchangesInv

(* A step that leaves the exchanges alone keeps their invariant.            *)
LEMMA ExchangeStutters ==
    ASSUME ExchangesInv, UNCHANGED exchangeVars
    PROVE  ExchangesInv'
  BY RecipientsMove DEF exchangeVars, ExchangesInv

(* The row of Host is written, and keeps its response.                      *)
LEMMA HostRowWritten ==
    ASSUME ExchangesInv, UNCHANGED <<proposal, approving, exchanges, answering>>,
           NEW row \in RecipientRow, row.response = recipients[Host].response,
           row.status = "responded" => recipients[Host].status = "responded",
           recipients' = [recipients EXCEPT ![Host] = row]
    PROVE  ExchangesInv'
  <1>1. recipients \in [Recipients -> RecipientRow] /\ Host \in Recipients
    BY ExchangeParameters DEF ExchangesInv
  <1>2. /\ recipients' \in [Recipients -> RecipientRow] /\ recipients'[Host] = row
        /\ \A r \in Recipients : r # Host => recipients'[r] = recipients[r]
    BY <1>1
  <1>3. \A r \in Recipients :
           /\ recipients[r].response => recipients'[r].response
           /\ recipients'[r].status = "responded" => recipients'[r].response
    BY <1>1, <1>2 DEF ExchangesInv
  <1> QED BY <1>2, <1>3, RecipientsMove

(* The turn of a drafted reply is recorded, or released, at the recipient.  *)
LEMMA HostTurnWritten ==
    ASSUME ExchangesInv, UNCHANGED <<proposal, approving, exchanges, answering>>,
           NEW t \in 0 .. TurnLimit, recipients' = [recipients EXCEPT ![Host].turn = t]
    PROVE  ExchangesInv'
  <1>1. recipients \in [Recipients -> RecipientRow] /\ Host \in Recipients
    BY ExchangeParameters DEF ExchangesInv
  <1>2. PICK row : row = [recipients[Host] EXCEPT !.turn = t] OBVIOUS
  <1>3. /\ row \in RecipientRow /\ row.status = recipients[Host].status
        /\ row.response = recipients[Host].response
    BY <1>1, <1>2 DEF RecipientRow
  <1>4. recipients' = [recipients EXCEPT ![Host] = row] BY <1>1, <1>2
  <1> QED BY <1>3, <1>4, HostRowWritten

(* The turn that drafts a reply is recorded at the recipient.               *)
LEMMA RecordKeepsExchanges ==
    ASSUME ExchangesInv, NEW t \in Turns, RecordDraftTurn(t)
    PROVE  ExchangesInv'
  <1>1. t \in 0 .. TurnLimit BY ConversationParameters DEF Turns
  <1>2. UNCHANGED <<proposal, approving, exchanges, answering>>
    BY DEF RecordDraftTurn, draftVars
  <1>3. CASE about[t] = Last BY <1>1, <1>2, <1>3, HostTurnWritten DEF RecordDraftTurn
  <1>4. CASE about[t] # Last
    <2>1. UNCHANGED recipients BY <1>4 DEF RecordDraftTurn
    <2> QED BY <1>2, <2>1, RecipientsMove DEF ExchangesInv
  <1> QED BY <1>3, <1>4

(* A draft stored by a slow projection sets the row back to drafting, and   *)
(* the response of the team stays.                                          *)
LEMMA StoreReplyKeeps ==
    ASSUME ExchangesInv, NEW p \in Projectors, StoreReplyDraft(p)
    PROVE  ExchangesInv'
  <1>1. recipients \in [Recipients -> RecipientRow] /\ Host \in Recipients /\ 0 \in 0 .. TurnLimit
    BY ExchangeParameters, ConversationParameters DEF ExchangesInv
  <1>2. PICK row : row = [recipients[Host] EXCEPT !.status = "drafting", !.turn = 0,
                                                  !.drafted = TRUE] OBVIOUS
  <1>3. row \in RecipientRow /\ row.status = "drafting" /\ row.response = recipients[Host].response
    BY <1>1, <1>2 DEF RecipientRow
  <1>4. recipients' = [recipients EXCEPT ![Host] = row] BY <1>1, <1>2 DEF StoreReplyDraft
  <1>5. UNCHANGED <<proposal, approving, exchanges, answering>>
    BY DEF StoreReplyDraft, draftVars
  <1> QED BY <1>3, <1>4, <1>5, HostRowWritten

(* The side effects of a projection withdraw no response.                   *)
LEMMA SideEffectsKeep ==
    ASSUME ExchangesInv, ProjectionSideEffects
    PROVE  ExchangesInv'
  <1> PICK p \in Projectors : ProjectTurn(p) \/ FindRecipient(p) \/ ReadReplyStatus(p)
                              \/ StoreReplyDraft(p) \/ StopProjection(p)
    BY DEF ProjectionSideEffects
  <1>1. CASE StoreReplyDraft(p) BY <1>1, StoreReplyKeeps
  <1>2. CASE ProjectTurn(p) \/ FindRecipient(p) \/ ReadReplyStatus(p) \/ StopProjection(p)
    <2>1. UNCHANGED <<proposal, approving, exchanges, answering>>
      BY <1>2 DEF ProjectTurn, FindRecipient, ReadReplyStatus, StopProjection, draftVars
    <2>2. UNCHANGED recipients \/ recipients' = [recipients EXCEPT ![Host].turn = 0]
      BY <1>2 DEF ProjectTurn, FindRecipient, ReadReplyStatus, StopProjection, ReleasedTurn
    <2>3. CASE UNCHANGED recipients BY <2>1, <2>3, RecipientsMove DEF ExchangesInv
    <2>4. CASE recipients' = [recipients EXCEPT ![Host].turn = 0]
      <3>1. 0 \in 0 .. TurnLimit BY ConversationParameters
      <3> QED BY <2>1, <2>4, <3>1, HostTurnWritten
    <2> QED BY <2>2, <2>3, <2>4
  <1> QED BY <1>1, <1>2

(* An approval sends the next exchange to recipients who have not answered. *)
LEMMA ApproveDraftKeeps ==
    ASSUME ExchangesInv, NEW m \in ExchangeMembers, ApproveDraft(m)
    PROVE  ExchangesInv'
  <1>1. PICK n \in 0 .. ExchangeLimit : SentUpTo(n) BY DEF ExchangesInv
  <1>2. ExchangeLimit \in Nat /\ Last = n
    BY <1>1, CountUpTo, ExchangeParameters DEF SentUpTo, Last, Sent
  <1>3. PICK e : e = n + 1 OBVIOUS
  <1>4. e \in 1 .. ExchangeLimit /\ e \in Nat /\ e > 0
    BY <1>2, <1>3 DEF ApproveDraft, Last
  <1>5. PICK row : row = [status |-> "sent", content |-> SentContent(m)] OBVIOUS
  <1>6. row \in ExchangeRow /\ row.status = "sent"
    BY <1>5 DEF ExchangeRow, SentContent, ExchangesInv
  <1>7. exchanges' = [exchanges EXCEPT ![e] = row] BY <1>2, <1>3, <1>5 DEF ApproveDraft, Last
  <1>8. /\ exchanges' \in [1..ExchangeLimit -> ExchangeRow] /\ exchanges'[e] = row
        /\ \A f \in 1 .. ExchangeLimit : f # e => exchanges'[f] = exchanges[f]
    BY <1>4, <1>6, <1>7 DEF ExchangesInv
  <1>9. SentUpTo(e)'
    <2> SUFFICES ASSUME NEW f \in 1 .. ExchangeLimit
                 PROVE  exchanges'[f].status # "none" <=> f <= e
      BY DEF SentUpTo
    <2>1. CASE f = e BY <1>4, <1>6, <1>8, <2>1
    <2>2. CASE f # e
      <3>1. f <= e <=> f <= n BY <1>2, <1>3, <1>4, <2>2
      <3> QED BY <1>1, <1>8, <2>2, <3>1 DEF SentUpTo
    <2> QED BY <2>1, <2>2
  <1>10. e \in 0 .. ExchangeLimit BY <1>4
  <1>11. Last' = e
    <2>1. PICK f : f = exchanges' OBVIOUS
    <2>2. \A d \in 1 .. ExchangeLimit : f[d].status # "none" <=> d <= e
      BY <1>9, <2>1 DEF SentUpTo
    <2>3. Cardinality({d \in 1 .. ExchangeLimit : f[d].status # "none"}) = e
      BY <1>10, <2>2, CountUpTo
    <2> QED BY <2>1, <2>3 DEF Last, Sent
  <1>12. RespondedMeansAnswered' BY <1>6, <1>8, <1>11 DEF RespondedMeansAnswered
  <1>13. NewRecipient \in RecipientRow
    BY ConversationParameters DEF NewRecipient, RecipientRow
  <1>14. /\ recipients' \in [Recipients -> RecipientRow]
         /\ \A r \in Recipients : recipients'[r].status # "responded"
    BY <1>13 DEF ApproveDraft, NewRecipient
  <1>15. proposal' \in ProposalRow BY DEF ApproveDraft, ExchangesInv, ProposalRow
  <1>16. /\ approving' \in [ExchangeMembers -> [step : {"none", "approve", "reject"}, version : Nat]]
    BY DEF ApproveDraft, ExchangesInv, NoExchangeCall
  <1>17. /\ answering' \in [Recipients -> [step : {"none", "answer"}, last : BOOLEAN]]
         /\ \A r \in Recipients : answering'[r].step = "none"
    BY DEF ApproveDraft, NoAnswer
  <1> QED BY <1>8, <1>9, <1>10, <1>12, <1>14, <1>15, <1>16, <1>17 DEF ExchangesInv

(* A recipient reads which of the others have not answered.                 *)
LEMMA ReadRecipientKeeps ==
    ASSUME ExchangesInv, NEW r \in Recipients, ReadRecipient(r)
    PROVE  ExchangesInv'
  <1>1. UNCHANGED <<proposal, approving, exchanges, recipients>> /\ Last > 0
    BY DEF ReadRecipient, draftVars
  <1>2. Last' = Last /\ (RespondedMeansAnswered' <=> RespondedMeansAnswered)
    BY <1>1 DEF Last, Sent, RespondedMeansAnswered
  <1>3. PICK n \in 0 .. ExchangeLimit : SentUpTo(n) BY DEF ExchangesInv
  <1>4. SentUpTo(n)' BY <1>1, <1>3 DEF SentUpTo
  <1>5. PICK row : row = [step |-> "answer", last |-> Remaining(r) = {}] OBVIOUS
  <1>6. row \in [step : {"none", "answer"}, last : BOOLEAN] /\ (row.last <=> Remaining(r) = {})
    BY <1>5
  <1>7. /\ answering' \in [Recipients -> [step : {"none", "answer"}, last : BOOLEAN]]
        /\ answering'[r] = row /\ \A s \in Recipients : s # r => answering'[s] = answering[s]
    BY <1>5, <1>6 DEF ReadRecipient, ExchangesInv
  <1>8. Remaining(r) = {} => \A s \in Recipients \ {r} : recipients[s].response
    <2>1. Remaining(r) = {} => \A s \in Recipients \ {r} : recipients[s].status = "responded"
      BY DEF Remaining, ExchangesInv, RecipientRow
    <2> QED BY <2>1 DEF ExchangesInv
  <1>9. \A s \in Recipients : answering'[s].step = "answer" =>
          /\ Last > 0
          /\ answering'[s].last => \A q \in Recipients \ {s} : recipients[q].response
    <2> SUFFICES ASSUME NEW s \in Recipients, answering'[s].step = "answer"
                 PROVE  /\ Last > 0
                        /\ answering'[s].last =>
                              \A q \in Recipients \ {s} : recipients[q].response
      OBVIOUS
    <2>1. CASE s = r BY <1>1, <1>6, <1>7, <1>8, <2>1
    <2>2. CASE s # r BY <1>1, <1>7, <2>2 DEF ExchangesInv
    <2> QED BY <2>1, <2>2
  <1> QED BY <1>1, <1>2, <1>4, <1>7, <1>9 DEF ExchangesInv

(* The last recipient to answer marks the exchange as responded.            *)
LEMMA SubmitResponseKeeps ==
    ASSUME ExchangesInv, NEW r \in Recipients, SubmitResponse(r)
    PROVE  ExchangesInv'
  <1>0. /\ recipients \in [Recipients -> RecipientRow] /\ exchanges \in [1..ExchangeLimit -> ExchangeRow]
        /\ answering \in [Recipients -> [step : {"none", "answer"}, last : BOOLEAN]]
    BY DEF ExchangesInv
  <1>1. PICK n \in 0 .. ExchangeLimit : SentUpTo(n) BY DEF ExchangesInv
  <1>2. ExchangeLimit \in Nat /\ Last = n
    BY <1>1, CountUpTo, ExchangeParameters DEF SentUpTo, Last, Sent
  <1>3. n \in 1 .. ExchangeLimit
    BY <1>2 DEF SubmitResponse, ExchangesInv
  <1>4. PICK row : row = [recipients[r] EXCEPT !.status = "responded", !.response = TRUE] OBVIOUS
  <1>5. row \in RecipientRow /\ row.response BY <1>0, <1>4 DEF RecipientRow
  <1>6. recipients' = [recipients EXCEPT ![r] = row] BY <1>0, <1>4 DEF SubmitResponse
  <1>7. /\ recipients' \in [Recipients -> RecipientRow] /\ recipients'[r].response
        /\ \A s \in Recipients : s # r => recipients'[s] = recipients[s]
    BY <1>0, <1>5, <1>6
  <1>8. PICK sent : sent = [exchanges[n] EXCEPT !.status = "responded"] OBVIOUS
  <1>9. sent \in ExchangeRow /\ sent.status # "none" BY <1>0, <1>3, <1>8 DEF ExchangeRow
  <1>10. exchanges' = IF answering[r].last THEN [exchanges EXCEPT ![n] = sent] ELSE exchanges
    BY <1>0, <1>2, <1>3, <1>8 DEF SubmitResponse
  <1>11. /\ exchanges' \in [1..ExchangeLimit -> ExchangeRow]
         /\ \A e \in 1 .. ExchangeLimit : e # n => exchanges'[e] = exchanges[e]
         /\ exchanges'[n] = exchanges[n] \/ (answering[r].last /\ exchanges'[n] = sent)
    <2>1. CASE answering[r].last
      <3>1. exchanges' = [exchanges EXCEPT ![n] = sent] BY <1>10, <2>1
      <3> QED BY <1>0, <1>3, <1>9, <2>1, <3>1
    <2>2. CASE ~answering[r].last
      <3>1. exchanges' = exchanges BY <1>10, <2>2
      <3> QED BY <1>0, <3>1
    <2> QED BY <2>1, <2>2
  <1>12. exchanges[n].status # "none" BY <1>1, <1>2, <1>3 DEF SentUpTo
  <1>13. \A e \in 1 .. ExchangeLimit : exchanges'[e].status # "none" <=> exchanges[e].status # "none"
    BY <1>9, <1>11, <1>12
  <1>14. SentUpTo(n)' BY <1>1, <1>13 DEF SentUpTo
  <1>15. Last' = Last BY <1>13 DEF Last, Sent
  <1>16. /\ answering' \in [Recipients -> [step : {"none", "answer"}, last : BOOLEAN]]
         /\ answering'[r].step = "none" /\ \A s \in Recipients : s # r => answering'[s] = answering[s]
    BY <1>0 DEF SubmitResponse, NoAnswer
  <1>17. \A s \in Recipients : answering'[s].step = "answer" =>
           /\ Last > 0
           /\ answering'[s].last => \A q \in Recipients \ {s} : recipients'[q].response
    BY <1>7, <1>16 DEF ExchangesInv
  <1>18. RespondedMeansAnswered'
    <2> SUFFICES ASSUME exchanges'[n].status = "responded"
                 PROVE  \A s \in Recipients : recipients'[s].response
      BY <1>2, <1>15 DEF RespondedMeansAnswered
    <2>1. CASE exchanges'[n] = exchanges[n]
      BY <1>2, <1>3, <1>7, <2>1 DEF ExchangesInv, RespondedMeansAnswered
    <2>2. CASE answering[r].last
      BY <1>7, <2>2 DEF SubmitResponse, ExchangesInv
    <2> QED BY <1>11, <2>1, <2>2
  <1>19. proposal' = proposal /\ approving' = approving BY DEF SubmitResponse, draftVars
  <1>20. \A s \in Recipients : recipients'[s].status = "responded" => recipients'[s].response
    BY <1>7 DEF ExchangesInv
  <1> QED BY <1>7, <1>11, <1>14, <1>15, <1>16, <1>17, <1>18, <1>19, <1>20 DEF ExchangesInv

(* The routes of the request that is drafted.                               *)
LEMMA DraftRoutesKeep ==
    ASSUME ExchangesInv, ExchangeDraftRoutes
    PROVE  ExchangesInv'
  <1>1. CASE \E m \in ExchangeMembers : ApproveDraft(m) BY <1>1, ApproveDraftKeeps
  <1>2. CASE ~\E m \in ExchangeMembers : ApproveDraft(m)
    <2>0. proposal \in ProposalRow BY DEF ExchangesInv
    <2>1. UNCHANGED <<exchanges, recipients, answering>>
      BY <1>2 DEF ExchangeDraftRoutes, CreateExchangeDraft, UpdateExchangeDraft, ReadDraft, RejectDraft
    <2>2. proposal' \in ProposalRow
      BY <1>2, <2>0 DEF ExchangeDraftRoutes, CreateExchangeDraft, UpdateExchangeDraft, ReadDraft,
         RejectDraft, ProposalRow
    <2>3. approving' \in [ExchangeMembers -> [step : {"none", "approve", "reject"}, version : Nat]]
      <3>0. approving \in [ExchangeMembers -> [step : {"none", "approve", "reject"}, version : Nat]]
        BY DEF ExchangesInv
      <3>1. proposal.version \in Nat BY <2>0 DEF ProposalRow
      <3>2. \/ approving' = approving
            \/ \E m \in ExchangeMembers, row \in [step : {"none", "approve", "reject"}, version : Nat] :
                  approving' = [approving EXCEPT ![m] = row]
        BY <1>2, <3>1 DEF ExchangeDraftRoutes, CreateExchangeDraft, UpdateExchangeDraft, ReadDraft,
           RejectDraft, NoExchangeCall
      <3> QED BY <3>0, <3>2
    <2>4. Last' = Last /\ (RespondedMeansAnswered' <=> RespondedMeansAnswered)
      BY <2>1 DEF Last, Sent, RespondedMeansAnswered
    <2>5. PICK n \in 0 .. ExchangeLimit : SentUpTo(n) BY DEF ExchangesInv
    <2>6. SentUpTo(n)' BY <2>1, <2>5 DEF SentUpTo
    <2> QED BY <2>1, <2>2, <2>3, <2>4, <2>6 DEF ExchangesInv
  <1> QED BY <1>1, <1>2

-----------------------------------------------------------------------------
(* A reply is asked for only where the conversation has such turns.         *)
ReplyAsked == asked => "exchange" \in TurnKinds

(* No turn has begun and no exchange is sent at first.                      *)
LEMMA ConversationsInit ==
    ASSUME ExchangeInit
    PROVE  TurnsInv /\ ExchangesInv /\ RepliesAreRecorded /\ ReplyAsked
  <1>0. TurnLimit \in Nat /\ 1 \in Turns /\ ExchangeLimit \in Nat
    BY ConversationParameters, ExchangeParameters DEF Turns
  <1>1. NoTurn \in TurnRow /\ NoTurn.status = "none" BY DEF NoTurn, TurnRow, TurnStatus
  <1>2. turns \in [Turns -> TurnRow] /\ \A t \in Turns : turns[t].status = "none"
    BY <1>1 DEF ExchangeInit, ConversationInit
  <1>3. \A t \in Turns : runs[t] = "none" /\ launch[t] = "none"
    BY DEF ExchangeInit, ConversationInit
  <1>4. TurnTypes
    BY <1>2 DEF ExchangeInit, ConversationInit, TurnTypes, ConversationRow
  <1>5. 0 \in 0 .. TurnLimit /\ \A t \in Turns : turns[t].status # "none" <=> t <= 0
    BY <1>0, <1>2 DEF Turns
  <1>6. ProjectorSound(Idle) BY <1>0 DEF ProjectorSound, Idle
  <1>7. TurnsInv
    BY <1>2, <1>3, <1>4, <1>5, <1>6
       DEF TurnsInv, TurnsInOrder, OneIsActive, TurnSound, ExchangeInit, ConversationInit
  <1>8. exchanges \in [1..ExchangeLimit -> ExchangeRow] /\ SentUpTo(0) /\ 0 \in 0 .. ExchangeLimit
    BY <1>0 DEF ExchangeInit, ExchangeRow, SentUpTo
  <1>9. Last = 0 BY <1>8, CountUpTo DEF SentUpTo, Last, Sent
  <1>10. /\ recipients \in [Recipients -> RecipientRow]
         /\ \A r \in Recipients : recipients[r].status # "responded"
    BY <1>5 DEF ExchangeInit, NewRecipient, RecipientRow
  <1>11. /\ proposal \in ProposalRow
         /\ approving \in [ExchangeMembers -> [step : {"none", "approve", "reject"}, version : Nat]]
         /\ answering \in [Recipients -> [step : {"none", "answer"}, last : BOOLEAN]]
         /\ \A r \in Recipients : answering[r].step = "none"
    BY DEF ExchangeInit, ProposalRow, NoExchangeCall, NoAnswer
  <1>12. ExchangesInv BY <1>8, <1>9, <1>10, <1>11 DEF ExchangesInv, RespondedMeansAnswered
  <1>13. RepliesAreRecorded /\ ReplyAsked
    BY <1>2 DEF RepliesAreRecorded, ReplyAsked, ExchangeInit, ConversationInit
  <1> QED BY <1>7, <1>12, <1>13

(* Only a request for a reply draft asks for one.                           *)
LEMMA ReplyAskedKeeps ==
    ASSUME ReplyAsked, [ExchangeNext]_exchangeAndConversationVars
    PROVE  ReplyAsked'
  <1>1. asked' => asked \/ "exchange" \in TurnKinds
    <2>1. CASE ExchangeDraftRoutes \/ ResponseRoutes
      BY <2>1 DEF ExchangeDraftRoutes, CreateExchangeDraft, UpdateExchangeDraft, ReadDraft,
         ApproveDraft, RejectDraft, ResponseRoutes, ReadRecipient, SubmitResponse, replyVars
    <2>2. CASE DraftTurnSteps
      BY <2>2 DEF DraftTurnSteps, AskForDraft, StartDraftTurn, RecordDraftTurn, replyVars
    <2>3. CASE ProjectionSideEffects
      BY <2>3 DEF ProjectionSideEffects, ProjectTurn, FindRecipient, ReadReplyStatus,
         StoreReplyDraft, StopProjection, replyVars
    <2>4. CASE \E kind \in TurnKinds : SendTurn(kind) BY <2>4 DEF SendTurn, exchangeVars
    <2>5. CASE UNCHANGED exchangeVars BY <2>5 DEF exchangeVars
    <2> QED BY <2>1, <2>2, <2>3, <2>4, <2>5 DEF ExchangeNext, exchangeAndConversationVars
  <1> QED BY <1>1 DEF ReplyAsked

(* A step of a draft or a response leaves the conversation alone.           *)
LEMMA ConversationStutters ==
    ASSUME TurnsInv, RepliesAreRecorded, UNCHANGED conversationVars
    PROVE  TurnsInv' /\ RepliesAreRecorded'
  <1>1. UNCHANGED <<turns, messages>> BY DEF conversationVars
  <1> QED BY <1>1, TurnsStutter, RepliesKeep DEF RepliesStand

(* The turn that drafts the reply is asked for, begun and recorded.         *)
LEMMA DraftTurnStepsKeep ==
    ASSUME TurnsInv, ExchangesInv, RepliesAreRecorded, ReplyAsked, DraftTurnSteps
    PROVE  TurnsInv' /\ ExchangesInv' /\ RepliesAreRecorded'
  <1>1. CASE AskForDraft \/ StartDraftTurn
    <2>1. UNCHANGED <<proposal, approving, exchanges, recipients, answering>>
      BY <1>1 DEF AskForDraft, StartDraftTurn, draftVars
    <2>2. ExchangesInv' BY <2>1, RecipientsMove DEF ExchangesInv
    <2>3. CASE AskForDraft BY <2>2, <2>3, ConversationStutters DEF AskForDraft
    <2>4. CASE StartDraftTurn
      BY <2>2, <2>4, AppendTurnKeeps, AppendKeepsReplies DEF StartDraftTurn, ReplyAsked
    <2> QED BY <1>1, <2>3, <2>4
  <1>2. CASE \E t \in Turns : RecordDraftTurn(t)
    <2>1. UNCHANGED <<turns, messages>> BY <1>2 DEF RecordDraftTurn
    <2> QED BY <1>2, <2>1, RecordDraftTurnKeeps, RecordKeepsExchanges, RepliesKeep DEF RepliesStand
  <1> QED BY <1>1, <1>2 DEF DraftTurnSteps

(* Every step keeps the invariants of the conversation and its exchanges.   *)
LEMMA ConversationsNext ==
    ASSUME TurnsInv, ExchangesInv, RepliesAreRecorded, ReplyAsked,
           [ExchangeNext]_exchangeAndConversationVars
    PROVE  TurnsInv' /\ ExchangesInv' /\ RepliesAreRecorded' /\ ReplyAsked'
  <1>0. ReplyAsked' BY ReplyAskedKeeps
  <1>1. CASE ExchangeDraftRoutes \/ ResponseRoutes
    <2>1. ExchangesInv'
      BY <1>1, DraftRoutesKeep, ReadRecipientKeeps, SubmitResponseKeeps DEF ResponseRoutes
    <2>2. UNCHANGED conversationVars
      BY <1>1 DEF ExchangeDraftRoutes, CreateExchangeDraft, UpdateExchangeDraft, ReadDraft,
         ApproveDraft, RejectDraft, ResponseRoutes, ReadRecipient, SubmitResponse
    <2> QED BY <1>0, <2>1, <2>2, ConversationStutters
  <1>2. CASE \E kind \in TurnKinds : SendTurn(kind)
    BY <1>0, <1>2, AppendTurnKeeps, AppendKeepsReplies, ExchangeStutters DEF SendTurn
  <1>3. CASE DraftTurnSteps BY <1>0, <1>3, DraftTurnStepsKeep
  <1>4. CASE ProjectionSideEffects
    <2>1. PICK p \in Projectors : \/ ProjectDraft(p) \/ ProjectorStops(p)
                                  \/ UNCHANGED conversationVars
      BY <1>4 DEF ProjectionSideEffects, ProjectTurn, FindRecipient, ReadReplyStatus,
         StoreReplyDraft, StopProjection
    <2>2. TurnsInv' /\ RepliesAreRecorded'
      BY <2>1, ProjectDraftKeeps, ProjectorStopsKeeps, ProjectionKeepsReplies, ConversationStutters
    <2> QED BY <1>0, <1>4, <2>2, SideEffectsKeep
  <1>5. CASE /\ ConversationRoutes \/ LaunchSteps \/ SettleSteps
                \/ \E p \in Projectors, t \in Turns : Observe(p, t)
             /\ UNCHANGED exchangeVars
    <2>1. ExchangesInv' BY <1>5, ExchangeStutters
    <2>2. CASE ConversationRoutes \/ LaunchSteps
      BY <1>0, <2>1, <2>2, ConversationRoutesKeep, LaunchStepsKeep, LaunchKeepsReplies
    <2>3. CASE SettleSteps BY <1>0, <2>1, <2>3, SettleStepsKeep, SettleKeepsReplies
    <2>4. CASE \E p \in Projectors, t \in Turns : Observe(p, t)
      BY <1>0, <2>1, <2>4, ObserveKeeps, ProjectionKeepsReplies
    <2> QED BY <1>5, <2>2, <2>3, <2>4
  <1>6. CASE UNCHANGED exchangeAndConversationVars
    BY <1>0, <1>6, ConversationStutters, ExchangeStutters DEF exchangeAndConversationVars
  <1> QED BY <1>1, <1>2, <1>3, <1>4, <1>5, <1>6 DEF ExchangeNext

(* One turn at work is none or one.                                         *)
LEMMA OneTurnIsActive ==
    ASSUME OneIsActive
    PROVE  OneActiveTurn
  <1>1. CASE ActiveTurns = {}
    <2>1. Cardinality(ActiveTurns) = 0 BY <1>1, FS_EmptySet
    <2> QED BY <2>1 DEF OneActiveTurn
  <1>2. CASE ActiveTurns # {}
    <2>1. PICK t \in ActiveTurns : TRUE BY <1>2
    <2>2. ActiveTurns = {t} BY <2>1 DEF ActiveTurns, OneIsActive
    <2>3. Cardinality(ActiveTurns) = 1 BY <2>2, FS_Singleton
    <2> QED BY <2>3 DEF OneActiveTurn
  <1> QED BY <1>1, <1>2

(* The calls of a conversation and of an exchange read and write in         *)
(* separate transactions (append_user_message, complete_turn, approve_draft,*)
(* submit_response, store_response_draft): in every state one turn is at    *)
(* work, a completed turn has stored its draft and names the message of its *)
(* reply, and an exchange is responded to only when every recipient has a   *)
(* stored response.  That the status of a recipient stays, and that a turn  *)
(* is answered once, is not true of the code and not stated.                *)
THEOREM ConversationsStayAgreed == ExchangeSpec => []ConversationsAgree
  <1> DEFINE I == TurnsInv /\ ExchangesInv /\ RepliesAreRecorded /\ ReplyAsked
  <1>1. ExchangeInit => I BY ConversationsInit
  <1>2. I /\ [ExchangeNext]_exchangeAndConversationVars => I'
    BY ConversationsNext
  <1>3. I => ConversationsAgree
    <2> SUFFICES ASSUME I
                 PROVE  ConversationsAgree
      OBVIOUS
    <2>1. ExchangeTypeOK BY DEF ExchangeTypeOK, TurnsInv, TurnTypes, ExchangesInv
    <2>2. OneActiveTurn BY OneTurnIsActive DEF TurnsInv
    <2>3. CompletedTurnHasItsDraft
      BY DEF TurnsInv, TurnSound, AnswerStored, CompletedTurnHasItsDraft
    <2> QED BY <2>1, <2>2, <2>3 DEF ExchangesInv, ConversationsAgree
  <1> HIDE DEF I
  <1> QED BY <1>1, <1>2, <1>3, PTL DEF ExchangeSpec

-----------------------------------------------------------------------------
(* Planning and Planner                                                     *)

PlanRelationRow == WorkNodes \X RelationTypes \X WorkNodes

(* How far an approval has come is in the project already.                  *)
Materialized(x) ==
    /\ x.step \in {"tasks", "goal", "phase", "nodes", "relations"} => topic
    /\ x.step \in {"goal", "phase", "nodes", "relations"} =>
          \A t \in PlanTasks : subject[t] # NoContent
    /\ x.step \in {"phase", "nodes", "relations"} => Goal \in nodes
    /\ x.step \in {"nodes", "relations"} => Phase \in nodes
    /\ x.step = "relations" => PlanTasks \subseteq nodes
    /\ x.step # "relations" => x.next = 1 /\ ~x.reading
    /\ x.reading => x.next <= Len(PlanRelations)
    /\ \A k \in 1 .. Len(PlanRelations) : k < x.next => PlanRelations[k] \in relations

GraphTypes ==
    /\ subject = [n \in WorkNodes |-> subject[n]]
    /\ nodes \subseteq WorkNodes
    /\ relations \subseteq PlanRelationRow

PlanRowTypes ==
    /\ draft \in DraftStatus /\ topic \in BOOLEAN /\ rejecting \in BOOLEAN
    /\ participants \subseteq TeamsOfKind
    /\ approval \in [Approvers -> ApprovalRow]

AnnouncedOnce ==
    /\ announced \in {0, 1}
    /\ draft \in {"none", "drafting"} => announced = 0
    /\ draft = "approved" => announced = 1
    /\ rejecting => draft # "none"

PlanInv ==
    /\ GraphTypes /\ PlanRowTypes /\ AnnouncedOnce /\ ApprovedPlanIsMaterialized
    /\ \A a \in Approvers : Materialized(approval[a])

(* A step that takes nothing back from the graph.                           *)
GraphGrows ==
    /\ GraphTypes'
    /\ \A n \in WorkNodes : subject[n] # NoContent => subject'[n] # NoContent
    /\ nodes \subseteq nodes' /\ relations \subseteq relations'

-----------------------------------------------------------------------------
(* What the planner has generated and how often it has planned again.       *)
Planned == PlanTasks \cup {Goal, Phase}

Generated == {n \in nodes \ PlanTasks : subject[n] = "task"}

Replans == {i \in Intents : decision[i].status = "applied" /\ decision[i].batch.replans > 0}

Answers == Batches \cup {NoBatch}

(* The shape of the rows the planner keeps.                                 *)
IntentShape(row) ==
    row \in [status : {row.status}, cursor : {row.cursor}, graph : {row.graph},
             run : {row.run}, answer : Answers]

DecisionShape(row) == row \in [status : {row.status}, batch : Answers]

PlannerTypes ==
    /\ intent = [i \in Intents |-> intent[i]]
    /\ decision = [i \in Intents |-> decision[i]]
    /\ \A i \in Intents : IntentShape(intent[i]) /\ DecisionShape(decision[i])
    /\ usage \in [tasks : 0 .. MaxTasks, replans : 0 .. MaxReplans]

(* A consumer has a pending decision.                                       *)
ConsumerHolds ==
    consumer.of # Unset => consumer.of \in Intents /\ decision[consumer.of].status = "pending"

(* A projection under way is one of an intent.                              *)
ProjectionsKnown ==
    /\ planProjector = [p \in PlannerProjectors |-> planProjector[p]]
    /\ \A p \in PlannerProjectors :
          LET row == planProjector[p]
          IN  /\ row \in [step : {row.step}, of : {row.of}, graph : {row.graph}, cursor : {row.cursor}]
              /\ row.step # "idle" => row.of \in Intents

(* The usage counts at least what was generated.                            *)
WithinUsage ==
    /\ IsFiniteSet(Generated) /\ Cardinality(Generated) <= usage.tasks
    /\ IsFiniteSet(Replans) /\ Cardinality(Replans) <= usage.replans

PlannerInv ==
    PlannerTypes /\ ConsumerHolds /\ ProjectionsKnown /\ BatchIsAllOrNothing /\ WithinUsage

(* What was applied stays applied, and nothing else is.                     *)
AppliedStands ==
    \A i \in Intents :
        IF decision[i].status = "applied" THEN decision'[i] = decision[i]
        ELSE decision'[i].status # "applied"

(* An answer brings work of its own: new ids, finitely many tasks.          *)
LEMMA AnswerShape ==
    ASSUME NEW b \in Answers
    PROVE  /\ b.tasks \subseteq WorkNodes \ Planned /\ b.notes \subseteq WorkNodes \ Planned
           /\ b.deps \subseteq WorkNodes \X WorkNodes
           /\ IsFiniteSet(b.tasks) /\ b.controls \in Nat /\ b.replans \in Nat
  <1>1. CASE b \in Batches BY <1>1, PlannerParameters DEF Planned
  <1>2. CASE b = NoBatch BY <1>2, FS_EmptySet DEF NoBatch
  <1> QED BY <1>1, <1>2 DEF Answers

(* What an approval has materialized stays while the graph grows.           *)
LEMMA MaterializedStays ==
    ASSUME PlanInv, GraphGrows, topic => topic', NEW x \in ApprovalRow, Materialized(x)
    PROVE  Materialized(x)'
  <1>1. PlanTasks \subseteq WorkNodes BY PlanParameters
  <1> QED BY <1>1 DEF GraphGrows, Materialized

(* The planner, whatever it does, leaves the approvals alone.               *)
LEMMA GraphStepKeepsPlan ==
    ASSUME PlanInv, GraphGrows, UNCHANGED planVars
    PROVE  PlanInv'
  <1>0. /\ UNCHANGED <<draft, topic, participants, approval, rejecting, announced>>
        /\ PlanTasks \cup {Goal, Phase} \subseteq WorkNodes
    BY PlanParameters DEF planVars
  <1>1. PlanRowTypes' /\ AnnouncedOnce' BY <1>0 DEF PlanInv, PlanRowTypes, AnnouncedOnce
  <1>2. ApprovedPlanIsMaterialized'
    BY <1>0 DEF PlanInv, ApprovedPlanIsMaterialized, GraphGrows
  <1>3. \A a \in Approvers : Materialized(approval[a])'
    <2> SUFFICES ASSUME NEW a \in Approvers PROVE Materialized(approval[a])' OBVIOUS
    <2> PICK x : x = approval[a] OBVIOUS
    <2>1. x \in ApprovalRow /\ Materialized(x) BY DEF PlanInv, PlanRowTypes
    <2>2. Materialized(x)' BY <1>0, <2>1, MaterializedStays
    <2> QED BY <1>0, <2>2
  <1> QED BY <1>1, <1>2, <1>3 DEF PlanInv, GraphGrows
(* What an approval does to the graph: it writes the rows of the plan.      *)
PlanWrites ==
    /\ GraphGrows /\ nodes' \ Planned = nodes \ Planned /\ Generated' \subseteq Generated

(* A step that leaves the graph alone writes nothing.                       *)
LEMMA GraphStands ==
    ASSUME PlanInv, UNCHANGED graphVars
    PROVE  PlanWrites
  <1>1. UNCHANGED <<subject, nodes, relations>> BY DEF graphVars
  <1>2. Generated' = Generated BY <1>1 DEF Generated
  <1> QED BY <1>1, <1>2 DEF PlanInv, GraphTypes, GraphGrows, PlanWrites

(* A row of the plan is written, with its node or without.                  *)
LEMMA PlanRowWritten ==
    ASSUME PlanInv, NEW n \in Planned, NEW content, content # NoContent,
           content = "task" => n \in PlanTasks,
           MayPut(n, content), subject' = [subject EXCEPT ![n] = content],
           nodes' \in {nodes, nodes \cup {n}}, relations' = relations
    PROVE  PlanWrites
  <1>0. n \in WorkNodes BY PlanParameters DEF Planned
  <1>1. /\ subject' = [m \in WorkNodes |-> subject'[m]] /\ subject'[n] = content
        /\ \A m \in WorkNodes : m # n => subject'[m] = subject[m]
        /\ nodes \subseteq WorkNodes
    BY <1>0 DEF PlanInv, GraphTypes
  <1>2. GraphGrows BY <1>0, <1>1 DEF GraphGrows, PlanInv, GraphTypes
  <1>3. nodes' \ Planned = nodes \ Planned OBVIOUS
  <1>4. ASSUME NEW m \in Generated' PROVE m \in Generated
    <2>1. m \in nodes' /\ m \notin PlanTasks /\ subject'[m] = "task" BY <1>4 DEF Generated
    <2>2. m # n BY <1>1, <2>1
    <2>3. m \in nodes /\ subject[m] = "task" BY <1>1, <2>1, <2>2
    <2> QED BY <2>1, <2>3 DEF Generated
  <1> QED BY <1>2, <1>3, <1>4 DEF PlanWrites

(* An approval goes on to a step whose predecessors are done.               *)
LEMMA ApprovalMoves ==
    ASSUME PlanInv, NEW a \in Approvers, NEW row \in ApprovalRow,
           approval' = [approval EXCEPT ![a] = row], Materialized(row)', GraphGrows,
           topic' \in BOOLEAN, topic => topic',
           UNCHANGED <<draft, participants, rejecting, announced>>
    PROVE  PlanInv'
  <1>0. PlanTasks \cup {Goal, Phase} \subseteq WorkNodes BY PlanParameters
  <1>1. /\ approval' \in [Approvers -> ApprovalRow] /\ approval'[a] = row
        /\ \A b \in Approvers : b # a => approval'[b] = approval[b]
    BY DEF PlanInv, PlanRowTypes
  <1>2. PlanRowTypes' /\ AnnouncedOnce' BY <1>1 DEF PlanInv, PlanRowTypes, AnnouncedOnce
  <1>3. ApprovedPlanIsMaterialized'
    BY <1>0 DEF PlanInv, ApprovedPlanIsMaterialized, GraphGrows
  <1>4. \A b \in Approvers : Materialized(approval[b])'
    <2> SUFFICES ASSUME NEW b \in Approvers PROVE Materialized(approval[b])' OBVIOUS
    <2>1. CASE b = a BY <1>1, <2>1 DEF Materialized
    <2>2. CASE b # a
      <3> PICK x : x = approval[b] OBVIOUS
      <3>1. x \in ApprovalRow /\ Materialized(x) BY DEF PlanInv, PlanRowTypes
      <3>2. Materialized(x)' BY <3>1, MaterializedStays
      <3> QED BY <1>1, <2>2, <3>2
    <2> QED BY <2>1, <2>2
  <1> QED BY <1>2, <1>3, <1>4 DEF PlanInv, GraphGrows

(* The next step of a row, and what the row says of the graph.              *)
LEMMA NextStep ==
    ASSUME PlanInv, NEW a \in Approvers, NEW step \in ApprovalSteps,
           approval[a].step # "relations"
    PROVE  /\ [approval[a] EXCEPT !.step = step] \in ApprovalRow
           /\ [approval[a] EXCEPT !.step = step].step = step
           /\ [approval[a] EXCEPT !.step = step].next = 1
           /\ ~[approval[a] EXCEPT !.step = step].reading
  BY DEF PlanInv, PlanRowTypes, ApprovalRow, Materialized

(* An approval that has not begun asks nothing of the graph.                *)
LEMMA FreshRow ==
    NoApproval \in ApprovalRow /\ NoApproval.step = "none" /\ NoApproval.next = 1 /\ ~NoApproval.reading
  <1>1. PlanRelations \in Seq(PlanRelationRow) BY PlanParameters DEF PlanRelationRow
  <1>2. Len(PlanRelations) \in Nat BY <1>1
  <1> QED BY <1>2 DEF NoApproval, ApprovalRow, ApprovalSteps

(* An approval goes on to its next step when the one before is done.        *)
LEMMA ApprovalEntersKeeps ==
    ASSUME PlanInv, NEW a \in Approvers,
           BeginApproval(a) \/ StopApproval(a) \/ ProjectPlanTopic(a) \/ TasksDone(a) \/ NodesDone(a)
    PROVE  PlanInv' /\ PlanWrites
  <1>0. /\ UNCHANGED <<subject, nodes, relations, draft, participants, rejecting, announced>>
        /\ topic' \in BOOLEAN /\ (topic => topic')
    BY DEF BeginApproval, StopApproval, ProjectPlanTopic, TasksDone, NodesDone, GoOn, PlanInv, PlanRowTypes
  <1>1. PlanWrites BY <1>0, GraphStands DEF graphVars
  <1>2. Materialized(approval[a]) /\ approval \in [Approvers -> ApprovalRow] BY DEF PlanInv, PlanRowTypes
  <1>3. PICK row \in ApprovalRow : approval' = [approval EXCEPT ![a] = row] /\ Materialized(row)'
    <2>1. CASE StopApproval(a)
      <3>1. Materialized(NoApproval)' BY FreshRow DEF Materialized
      <3> QED BY <2>1, <3>1, FreshRow DEF StopApproval
    <2>2. CASE BeginApproval(a)
      <3>0. PICK row : row = [approval[a] EXCEPT !.step = "topic"] OBVIOUS
      <3>1. row \in ApprovalRow /\ row.step = "topic" /\ row.next = 1 /\ ~row.reading
        BY <2>2, <3>0, NextStep DEF BeginApproval, ApprovalSteps
      <3>2. Materialized(row)' BY <3>1 DEF Materialized
      <3> QED BY <1>2, <2>2, <3>0, <3>1, <3>2 DEF BeginApproval
    <2>3. CASE ProjectPlanTopic(a)
      <3>0. PICK row : row = [approval[a] EXCEPT !.step = "tasks"] OBVIOUS
      <3>1. row \in ApprovalRow /\ row.step = "tasks" /\ row.next = 1 /\ ~row.reading
        BY <2>3, <3>0, NextStep DEF ProjectPlanTopic, ApprovalSteps
      <3>2. Materialized(row)' BY <2>3, <3>1 DEF Materialized, ProjectPlanTopic
      <3> QED BY <1>2, <2>3, <3>0, <3>1, <3>2 DEF ProjectPlanTopic, GoOn
    <2>4. CASE TasksDone(a)
      <3>0. PICK row : row = [approval[a] EXCEPT !.step = "goal"] OBVIOUS
      <3>1. row \in ApprovalRow /\ row.step = "goal" /\ row.next = 1 /\ ~row.reading
        BY <2>4, <3>0, NextStep DEF TasksDone, ApprovalSteps
      <3>2. Materialized(row)' BY <1>0, <1>2, <2>4, <3>1 DEF Materialized, TasksDone
      <3> QED BY <1>2, <2>4, <3>0, <3>1, <3>2 DEF TasksDone, GoOn
    <2>5. CASE NodesDone(a)
      <3>0. PICK row : row = [approval[a] EXCEPT !.step = "relations"] OBVIOUS
      <3>1. row \in ApprovalRow /\ row.step = "relations" /\ row.next = 1 /\ ~row.reading
        BY <2>5, <3>0, NextStep DEF NodesDone, ApprovalSteps
      <3>2. Materialized(row)' BY <1>0, <1>2, <2>5, <3>1 DEF Materialized, NodesDone
      <3> QED BY <1>2, <2>5, <3>0, <3>1, <3>2 DEF NodesDone, GoOn
    <2> QED BY <2>1, <2>2, <2>3, <2>4, <2>5
  <1>4. PlanInv' BY <1>0, <1>1, <1>3, ApprovalMoves DEF PlanWrites
  <1> QED BY <1>1, <1>4

(* A task of the plan is sent, and its node registered later.               *)
LEMMA TaskRowsKeep ==
    ASSUME PlanInv, NEW a \in Approvers, MaterializeTask(a) \/ RegisterTask(a)
    PROVE  PlanInv' /\ PlanWrites
  <1>1. CASE MaterializeTask(a)
    <2>1. PICK t \in PlanTasks : subject[t] = NoContent /\ subject' = [subject EXCEPT ![t] = "task"]
      BY <1>1 DEF MaterializeTask
    <2>2. PlanWrites
      BY <1>1, <2>1, PlanRowWritten, PlanParameters DEF MaterializeTask, MayPut, Planned
    <2> QED BY <1>1, <2>2, GraphStepKeepsPlan DEF PlanWrites, MaterializeTask, planVars
  <1>2. CASE RegisterTask(a)
    <2>1. PICK t \in PlanTasks : subject[t] # NoContent /\ nodes' = nodes \cup {t}
      BY <1>2 DEF RegisterTask, MayRegister
    <2>2. UNCHANGED <<subject, relations>> BY <1>2 DEF RegisterTask
    <2>3. PlanTasks \subseteq WorkNodes BY PlanParameters
    <2>4. GraphGrows BY <2>1, <2>2, <2>3 DEF GraphGrows, PlanInv, GraphTypes
    <2>5. Generated' = Generated BY <2>1, <2>2 DEF Generated
    <2>6. nodes' \ Planned = nodes \ Planned BY <2>1 DEF Planned
    <2>7. PlanWrites BY <2>4, <2>5, <2>6 DEF PlanWrites
    <2> QED BY <1>2, <2>7, GraphStepKeepsPlan DEF PlanWrites, RegisterTask, planVars
  <1> QED BY <1>1, <1>2

(* Goal and phase are written with their nodes, or compared.                *)
LEMMA GoalAndPhaseKeep ==
    ASSUME PlanInv, NEW a \in Approvers, MaterializeGoal(a) \/ MaterializePhase(a)
    PROVE  PlanInv' /\ PlanWrites
  <1>0. /\ UNCHANGED <<relations, draft, topic, participants, rejecting, announced>>
        /\ topic \in BOOLEAN /\ participants \subseteq TeamsOfKind
    BY DEF MaterializeGoal, MaterializePhase, PlanInv, PlanRowTypes
  <1>1. Materialized(approval[a]) /\ approval \in [Approvers -> ApprovalRow] BY DEF PlanInv, PlanRowTypes
  <1>2. CASE MaterializeGoal(a)
    <2>1. a # NoContent /\ a # "task" BY PlanParameters
    <2>2. PlanWrites /\ Goal \in nodes'
      BY <1>0, <1>2, <2>1, PlanRowWritten DEF MaterializeGoal, PutWithNode, Planned
    <2>3. PICK row : row = [approval[a] EXCEPT !.step = "phase"] OBVIOUS
    <2>4. row \in ApprovalRow /\ row.step = "phase" /\ row.next = 1 /\ ~row.reading
      BY <1>2, <2>3, NextStep DEF MaterializeGoal, ApprovalSteps
    <2>5. \A t \in PlanTasks : subject'[t] # NoContent
      BY <1>1, <1>2, <2>2, PlanParameters DEF Materialized, MaterializeGoal, PlanWrites, GraphGrows
    <2>6. Materialized(row)' BY <1>0, <1>1, <1>2, <2>2, <2>4, <2>5 DEF Materialized, MaterializeGoal
    <2>7. approval' = [approval EXCEPT ![a] = row] BY <1>1, <1>2, <2>3 DEF MaterializeGoal, GoOn
    <2> QED BY <1>0, <2>2, <2>4, <2>6, <2>7, ApprovalMoves DEF PlanWrites
  <1>3. CASE MaterializePhase(a)
    <2>1. PICK team \in participants : PutWithNode(Phase, team) BY <1>3 DEF MaterializePhase
    <2>2. team # NoContent /\ team # "task" BY <1>0, PlanParameters
    <2>3. PlanWrites /\ Phase \in nodes'
      BY <1>0, <2>1, <2>2, PlanRowWritten DEF PutWithNode, Planned
    <2>4. PICK row : row = [approval[a] EXCEPT !.step = "nodes"] OBVIOUS
    <2>5. row \in ApprovalRow /\ row.step = "nodes" /\ row.next = 1 /\ ~row.reading
      BY <1>3, <2>4, NextStep DEF MaterializePhase, ApprovalSteps
    <2>6. Goal \in nodes' /\ \A t \in PlanTasks : subject'[t] # NoContent
      BY <1>1, <1>3, <2>3, PlanParameters DEF Materialized, MaterializePhase, PlanWrites, GraphGrows
    <2>7. Materialized(row)' BY <1>0, <1>1, <1>3, <2>3, <2>5, <2>6 DEF Materialized, MaterializePhase
    <2>8. approval' = [approval EXCEPT ![a] = row] BY <1>1, <1>3, <2>4 DEF MaterializePhase, GoOn
    <2> QED BY <1>0, <2>3, <2>5, <2>7, <2>8, ApprovalMoves DEF PlanWrites
  <1> QED BY <1>2, <1>3
(* The routes of relations between teams.                                   *)
LEMMA RelationsKeep ==
    ASSUME PlanInv, NEW a \in Approvers, ReadRelations(a) \/ AddRelation(a)
    PROVE  PlanInv' /\ PlanWrites
  <1>0. /\ UNCHANGED <<subject, nodes, draft, topic, participants, rejecting, announced>>
        /\ topic \in BOOLEAN /\ relations \subseteq PlanRelationRow
    BY DEF ReadRelations, AddRelation, PlanInv, PlanRowTypes, GraphTypes
  <1>1. Materialized(approval[a]) /\ approval[a] \in ApprovalRow BY DEF PlanInv, PlanRowTypes
  <1>2. PICK len \in Nat : len = Len(PlanRelations) /\ \A k \in 1 .. len : PlanRelations[k] \in PlanRelationRow
    <2>1. PlanRelations \in Seq(PlanRelationRow) BY PlanParameters DEF PlanRelationRow
    <2> QED BY <2>1
  <1>3. approval \in [Approvers -> ApprovalRow] BY DEF PlanInv, PlanRowTypes
  <1>4. CASE ReadRelations(a)
    <2>1. PlanWrites BY <1>0, <1>4, GraphStands DEF ReadRelations, graphVars
    <2>2. PICK row : row = [approval[a] EXCEPT !.reading = TRUE, !.seen = relations] OBVIOUS
    <2>3. row \in ApprovalRow /\ row.step = approval[a].step /\ row.next = approval[a].next
      BY <1>0, <1>1, <2>2 DEF ApprovalRow, PlanRelationRow
    <2>4. approval[a].step = "relations" /\ approval[a].next <= Len(PlanRelations)
      BY <1>4 DEF ReadRelations
    <2>5. Materialized(row)' BY <1>0, <1>1, <1>4, <2>3, <2>4 DEF Materialized, ReadRelations
    <2>6. approval' = [approval EXCEPT ![a] = row] BY <1>3, <1>4, <2>2 DEF ReadRelations
    <2> QED BY <1>0, <2>1, <2>3, <2>5, <2>6, ApprovalMoves DEF PlanWrites
  <1>5. CASE AddRelation(a)
    <2>1. approval[a].step = "relations" /\ approval[a].next \in 1 .. len
      BY <1>1, <1>2, <1>5 DEF AddRelation, Materialized, ApprovalRow
    <2>2. PICK r : r = PlanRelations[approval[a].next] /\ r \in PlanRelationRow BY <1>2, <2>1
    <2>3. relations' = relations \cup {r} BY <1>5, <2>2 DEF AddRelation, Relation
    <2>4. GraphGrows BY <1>0, <2>2, <2>3 DEF GraphGrows, PlanInv, GraphTypes
    <2>5. PlanWrites BY <1>0, <2>4 DEF PlanWrites, Generated
    <2>6. PICK row : row = [approval[a] EXCEPT !.reading = FALSE, !.seen = {}, !.next = @ + 1] OBVIOUS
    <2>7. row \in ApprovalRow /\ row.step = "relations" /\ row.next = approval[a].next + 1 /\ ~row.reading
      <3>1. approval[a].next + 1 \in 1 .. Len(PlanRelations) + 1 BY <1>2, <2>1
      <3>2. /\ row.step = approval[a].step /\ row.next = approval[a].next + 1
            /\ row.reading = FALSE /\ row.seen = {}
        BY <1>1, <2>6 DEF ApprovalRow
      <3>3. row \in ApprovalRow BY <1>1, <2>6, <3>1 DEF ApprovalRow
      <3> QED BY <2>1, <3>2, <3>3
    <2>8. ASSUME NEW k \in 1 .. len, k < row.next PROVE PlanRelations[k] \in relations'
      <3>1. CASE k = approval[a].next BY <2>2, <2>3, <3>1
      <3>2. CASE k < approval[a].next BY <1>1, <1>2, <2>3, <3>2 DEF Materialized
      <3> QED BY <2>1, <2>7, <2>8, <3>1, <3>2
    <2>9. Materialized(row)' BY <1>0, <1>1, <1>2, <2>1, <2>7, <2>8 DEF Materialized
    <2>10. approval' = [approval EXCEPT ![a] = row] BY <1>3, <1>5, <2>6 DEF AddRelation
    <2> QED BY <1>0, <2>5, <2>7, <2>9, <2>10, ApprovalMoves DEF PlanWrites
  <1> QED BY <1>4, <1>5

(* The approval that closes the draft has materialized everything.          *)
LEMMA FinishApprovalKeeps ==
    ASSUME PlanInv, NEW a \in Approvers, FinishApproval(a)
    PROVE  PlanInv' /\ PlanWrites
  <1>0. UNCHANGED <<subject, nodes, relations, topic, participants, rejecting>>
    BY DEF FinishApproval
  <1>1. PlanWrites BY <1>0, GraphStands DEF graphVars
  <1>2. Materialized(approval[a]) /\ approval[a].step = "relations"
        /\ approval[a].next > Len(PlanRelations) /\ approval[a] \in ApprovalRow
    BY DEF PlanInv, PlanRowTypes, FinishApproval, AllMaterialized
  <1>3. Len(PlanRelations) \in Nat
    <2>1. PlanRelations \in Seq(PlanRelationRow) BY PlanParameters DEF PlanRelationRow
    <2> QED BY <2>1
  <1>4. /\ topic /\ \A t \in PlanTasks : subject[t] # NoContent
        /\ PlanTasks \cup {Goal, Phase} \subseteq nodes
    BY <1>2 DEF Materialized
  <1>5. \A k \in 1 .. Len(PlanRelations) : PlanRelations[k] \in relations
    <2>1. approval[a].next \in Nat BY <1>2, <1>3 DEF ApprovalRow
    <2> QED BY <1>2, <1>3, <2>1 DEF Materialized
  <1>6. ApprovedPlanIsMaterialized' BY <1>0, <1>4, <1>5 DEF ApprovedPlanIsMaterialized
  <1>7. AnnouncedOnce' BY <1>0 DEF PlanInv, AnnouncedOnce, FinishApproval
  <1>8. approval' = [approval EXCEPT ![a] = NoApproval] /\ draft' \in DraftStatus
    BY DEF FinishApproval, PlanInv, PlanRowTypes, DraftStatus
  <1>9. PlanRowTypes' BY <1>0, <1>8, FreshRow DEF PlanInv, PlanRowTypes
  <1>10. \A b \in Approvers : Materialized(approval[b])'
    <2> SUFFICES ASSUME NEW b \in Approvers PROVE Materialized(approval[b])' OBVIOUS
    <2> PICK x : x = approval'[b] OBVIOUS
    <2>1. x = NoApproval \/ x = approval[b] BY <1>8 DEF PlanInv, PlanRowTypes
    <2>2. x \in ApprovalRow /\ Materialized(x)
      BY <2>1, FreshRow DEF PlanInv, PlanRowTypes, Materialized
    <2>3. Materialized(x)' BY <1>0, <2>2 DEF Materialized
    <2> QED BY <2>3 DEF Materialized
  <1> QED BY <1>1, <1>6, <1>7, <1>9, <1>10 DEF PlanInv, PlanWrites, GraphGrows

(* Importing, joining and rejecting materialize nothing.                    *)
LEMMA DraftRoutesOfPlanKeep ==
    ASSUME PlanInv,
           ImportPlanDraft \/ BeginRejection \/ RejectPlanDraft \/ \E team \in TeamsOfKind : JoinProject(team)
    PROVE  PlanInv' /\ PlanWrites
  <1>1. UNCHANGED <<subject, nodes, relations, topic, approval, announced>>
    BY DEF ImportPlanDraft, BeginRejection, RejectPlanDraft, JoinProject
  <1>2. PlanWrites BY <1>1, GraphStands DEF graphVars
  <1>3. draft' = "approved" => draft = "approved"
    BY DEF ImportPlanDraft, BeginRejection, RejectPlanDraft, JoinProject
  <1>4. ApprovedPlanIsMaterialized' BY <1>1, <1>3 DEF PlanInv, ApprovedPlanIsMaterialized
  <1>5. PlanRowTypes' /\ AnnouncedOnce'
    <2>0. /\ draft \in DraftStatus /\ rejecting \in BOOLEAN /\ AnnouncedOnce
          /\ topic \in BOOLEAN /\ approval \in [Approvers -> ApprovalRow]
          /\ participants \subseteq TeamsOfKind
      BY DEF PlanInv, PlanRowTypes
    <2>1. participants' \subseteq TeamsOfKind
      BY <2>0 DEF ImportPlanDraft, BeginRejection, RejectPlanDraft, JoinProject
    <2>2. draft' \in DraftStatus /\ rejecting' \in BOOLEAN
      BY <2>0 DEF DraftStatus, ImportPlanDraft, BeginRejection, RejectPlanDraft, JoinProject
    <2>3. AnnouncedOnce'
      BY <1>1, <2>0 DEF AnnouncedOnce, ImportPlanDraft, BeginRejection, RejectPlanDraft, JoinProject
    <2> QED BY <1>1, <2>0, <2>1, <2>2, <2>3 DEF PlanRowTypes
  <1>6. \A a \in Approvers : Materialized(approval[a])' BY <1>1 DEF PlanInv, Materialized
  <1> QED BY <1>2, <1>4, <1>5, <1>6 DEF PlanInv, PlanWrites, GraphGrows

(* Every step of the plan keeps the plan whole and writes its own rows      *)
(* only.                                                                    *)
LEMMA PlanningKeeps ==
    ASSUME PlanInv, PlanningNext
    PROVE  PlanInv' /\ PlanWrites
  <1>1. CASE \E a \in Approvers : Approve(a)
    <2> PICK a \in Approvers : Approve(a) BY <1>1
    <2> QED BY ApprovalEntersKeeps, TaskRowsKeep, GoalAndPhaseKeep, RelationsKeep,
               FinishApprovalKeeps DEF Approve
  <1> QED BY <1>1, DraftRoutesOfPlanKeep DEF PlanningNext

(* A step that applies nothing leaves the work of the planner whole.        *)
LEMMA WorkStands ==
    ASSUME PlanInv, PlannerInv, PlanWrites, AppliedStands, UNCHANGED usage,
           PlannerTypes', ConsumerHolds', ProjectionsKnown'
    PROVE  PlannerInv'
  <1>1. Replans' = Replans BY DEF Replans, AppliedStands
  <1>2. usage.tasks \in Nat BY PlannerParameters DEF PlannerInv, PlannerTypes
  <1>3. IsFiniteSet(Generated) /\ Cardinality(Generated) <= usage.tasks
        /\ Generated' \in SUBSET Generated
    BY DEF PlannerInv, WithinUsage, PlanWrites
  <1>4. IsFiniteSet(Generated') /\ Cardinality(Generated') <= Cardinality(Generated)
    BY <1>3, FS_Subset
  <1>5. Cardinality(Generated) \in Nat /\ Cardinality(Generated') \in Nat
    BY <1>3, <1>4, FS_CardinalityType
  <1>6. WithinUsage'
    <2>1. Cardinality(Generated') <= usage.tasks BY <1>2, <1>3, <1>4, <1>5
    <2>2. IsFiniteSet(Generated)' /\ Cardinality(Generated)' <= usage'.tasks BY <1>4, <2>1
    <2>3. IsFiniteSet(Replans)' /\ Cardinality(Replans)' <= usage'.replans
      BY <1>1 DEF PlannerInv, WithinUsage
    <2> QED BY <2>2, <2>3 DEF WithinUsage
  <1>7. BatchIsAllOrNothing'
    <2>1. {i \in Intents : decision'[i].status = "applied"} = {i \in Intents : decision[i].status = "applied"}
      BY DEF AppliedStands
    <2>2. \A i \in Intents : decision[i].status = "applied" => decision'[i].batch = decision[i].batch
      BY DEF AppliedStands
    <2>3. nodes' \ Planned = nodes \ Planned /\ relations \subseteq relations'
      BY DEF PlanWrites, GraphGrows
    <2>4. UNION {decision'[i].batch.tasks \cup decision'[i].batch.notes :
                    i \in {j \in Intents : decision'[j].status = "applied"}}
          = UNION {decision[i].batch.tasks \cup decision[i].batch.notes :
                    i \in {j \in Intents : decision[j].status = "applied"}}
      BY <2>1, <2>2
    <2>5. \A i \in Intents : decision'[i].status = "applied" => NewDeps(decision'[i].batch) \subseteq relations'
      BY <2>1, <2>2, <2>3 DEF PlannerInv, BatchIsAllOrNothing
    <2> QED BY <2>3, <2>4, <2>5 DEF PlannerInv, BatchIsAllOrNothing, Planned
  <1> QED BY <1>6, <1>7 DEF PlannerInv

(* A step of the plan leaves the work of the planner whole.                 *)
LEMMA PlanKeepsPlanner ==
    ASSUME PlanInv, PlannerInv, PlanningNext, UNCHANGED plannerVars
    PROVE  PlannerInv'
  <1>1. UNCHANGED <<intent, decision, usage, planProjector, consumer>> BY DEF plannerVars
  <1>2. PlannerTypes' /\ ConsumerHolds' /\ ProjectionsKnown'
    BY <1>1 DEF PlannerInv, PlannerTypes, ConsumerHolds, ProjectionsKnown
  <1>3. AppliedStands BY <1>1 DEF AppliedStands
  <1> QED BY <1>1, <1>2, <1>3, PlanningKeeps, WorkStands

(* A person moves a task of the plan.                                       *)
LEMMA TaskMovesWrites ==
    ASSUME PlanInv, TaskMoves
    PROVE  PlanWrites
  <1>1. PICK t \in PlanTasks, state \in {"task", "started"} :
           subject[t] # NoContent /\ subject' = [subject EXCEPT ![t] = state]
    BY DEF TaskMoves
  <1>2. UNCHANGED <<nodes, relations>> BY DEF TaskMoves
  <1>3. t \in WorkNodes /\ state # NoContent BY PlanParameters
  <1>4. GraphGrows BY <1>1, <1>2, <1>3 DEF PlanInv, GraphTypes, GraphGrows
  <1>5. \A m \in nodes \ PlanTasks : subject'[m] = subject[m]
    BY <1>1 DEF PlanInv, GraphTypes
  <1>6. Generated' = Generated BY <1>2, <1>5 DEF Generated
  <1> QED BY <1>2, <1>4, <1>6 DEF PlanWrites

(* Facts, controls and tasks moved by hand change no decision.              *)
LEMMA ProcessStepsKeep ==
    ASSUME PlanInv, PlannerInv, ProcessSteps
    PROVE  PlanInv' /\ PlannerInv'
  <1>1. UNCHANGED <<intent, decision, usage, planProjector, consumer>>
    BY DEF ProcessSteps, ProcessMoves, ControlsResolved, TaskMoves
  <1>2. PlannerTypes' /\ ConsumerHolds' /\ ProjectionsKnown'
    BY <1>1 DEF PlannerInv, PlannerTypes, ConsumerHolds, ProjectionsKnown
  <1>3. AppliedStands BY <1>1 DEF AppliedStands
  <1>4. UNCHANGED planVars
    BY DEF ProcessSteps, ProcessMoves, ControlsResolved, TaskMoves, planningVars, planVars
  <1>5. PlanWrites
    <2>1. CASE TaskMoves BY <2>1, TaskMovesWrites
    <2>2. CASE ~TaskMoves
      BY <2>2, GraphStands DEF ProcessSteps, ProcessMoves, ControlsResolved, planningVars, graphVars
    <2> QED BY <2>1, <2>2
  <1>6. PlanInv' BY <1>4, <1>5, GraphStepKeepsPlan DEF PlanWrites
  <1> QED BY <1>1, <1>2, <1>3, <1>5, <1>6, WorkStands

(* The intent a step writes keeps its shape.                                *)
LEMMA IntentWritten ==
    ASSUME PlannerTypes, NEW i \in Intents, NEW row, IntentShape(row),
           intent' = [intent EXCEPT ![i] = row], UNCHANGED <<decision, usage>>
    PROVE  PlannerTypes'
  <1>1. /\ intent' = [j \in Intents |-> intent'[j]] /\ intent'[i] = row
        /\ \A j \in Intents : j # i => intent'[j] = intent[j]
    BY DEF PlannerTypes
  <1>2. ASSUME NEW j \in Intents PROVE IntentShape(intent'[j]) BY <1>1 DEF PlannerTypes
  <1> QED BY <1>1, <1>2 DEF PlannerTypes

(* An intent that ends keeps its answer.                                    *)
LEMMA EndedShape ==
    ASSUME PlannerTypes, NEW i \in Intents, NEW status, intent' = Ended(i, status),
           UNCHANGED <<decision, usage>>
    PROVE  PlannerTypes'
  <1>1. PICK row : row = [intent[i] EXCEPT !.status = status] OBVIOUS
  <1>2. IntentShape(intent[i]) BY DEF PlannerTypes
  <1>3. IntentShape(row) BY <1>1, <1>2 DEF IntentShape
  <1>4. intent' = [intent EXCEPT ![i] = row] BY <1>1 DEF Ended
  <1> QED BY <1>3, <1>4, IntentWritten

(* A new intent has no answer.                                              *)
LEMMA NewIntentShape ==
    ASSUME NEW cursor, NEW graph
    PROVE  IntentShape(NewIntent(cursor, graph))
  BY DEF IntentShape, NewIntent, NoIntent, Answers

(* Steps that write intents and projections, and no decision.               *)
LEMMA NoDecisionKeeps ==
    ASSUME PlanInv, PlannerInv, UNCHANGED planningVars, UNCHANGED <<decision, usage, consumer>>,
           PlannerTypes', ProjectionsKnown'
    PROVE  PlanInv' /\ PlannerInv'
  <1>1. PlanWrites BY GraphStands DEF planningVars, graphVars
  <1>2. AppliedStands BY DEF AppliedStands
  <1>3. ConsumerHolds' BY DEF PlannerInv, ConsumerHolds
  <1>4. UNCHANGED planVars BY DEF planningVars, planVars
  <1>5. PlanInv' BY <1>1, <1>4, GraphStepKeepsPlan DEF PlanWrites
  <1> QED BY <1>1, <1>2, <1>3, <1>5, WorkStands

(* Intents are requested, launched and answered; no decision is made.       *)
LEMMA IntentStepsKeep ==
    ASSUME PlanInv, PlannerInv, IntentSteps
    PROVE  PlanInv' /\ PlannerInv'
  <1>0. /\ UNCHANGED planningVars
        /\ UNCHANGED <<decision, usage, planProjector, consumer>>
    BY DEF IntentSteps, RequestPlan, LaunchPlan, LaunchOverBudget, PlanRunEnds
  <1>1. PICK i \in Intents :
           \/ RequestPlan(i) \/ LaunchPlan(i) \/ LaunchOverBudget(i)
           \/ \E outcome \in RunEnded, batch \in Answers : PlanRunEnds(i, outcome, batch)
    BY DEF IntentSteps, Answers
  <1>2. PlannerTypes /\ IntentShape(intent[i]) BY DEF PlannerInv, PlannerTypes
  <1>3. PlannerTypes'
    <2>1. CASE RequestPlan(i)
      <3>1. intent' = [intent EXCEPT ![i] = NewIntent(process.cursor, GraphSnapshot)]
        BY <2>1 DEF RequestPlan
      <3> QED BY <1>0, <1>2, <3>1, NewIntentShape, IntentWritten
    <2>2. CASE LaunchPlan(i)
      <3>1. CASE \E status : intent' = Ended(i, status) BY <1>0, <1>2, <3>1, EndedShape
      <3>2. CASE intent' = [intent EXCEPT ![i].status = "running", ![i].run = "active"]
        <4>1. PICK row : row = [intent[i] EXCEPT !.status = "running", !.run = "active"] OBVIOUS
        <4>2. IntentShape(row) BY <1>2, <4>1 DEF IntentShape
        <4>3. intent' = [intent EXCEPT ![i] = row] BY <1>2, <3>2, <4>1 DEF PlannerTypes
        <4> QED BY <1>0, <1>2, <4>2, <4>3, IntentWritten
      <3> QED BY <2>2, <3>1, <3>2 DEF LaunchPlan
    <2>3. CASE LaunchOverBudget(i)
      BY <1>0, <1>2, <2>3 DEF LaunchOverBudget, PlannerTypes
    <2>4. CASE \E outcome \in RunEnded, batch \in Answers : PlanRunEnds(i, outcome, batch)
      <3>1. PICK outcome \in RunEnded, batch \in Answers :
               intent' = [intent EXCEPT ![i].run = outcome, ![i].answer = batch]
        BY <2>4 DEF PlanRunEnds
      <3>2. PICK row : row = [intent[i] EXCEPT !.run = outcome, !.answer = batch] OBVIOUS
      <3>3. IntentShape(row) BY <1>2, <3>2 DEF IntentShape
      <3>4. intent' = [intent EXCEPT ![i] = row] BY <1>2, <3>1, <3>2 DEF PlannerTypes
      <3> QED BY <1>0, <1>2, <3>3, <3>4, IntentWritten
    <2> QED BY <1>1, <2>1, <2>2, <2>3, <2>4
  <1>4. ProjectionsKnown' BY <1>0 DEF PlannerInv, ProjectionsKnown
  <1> QED BY <1>0, <1>3, <1>4, NoDecisionKeeps

(* The projection a step writes is one of an intent.                        *)
LEMMA ProjectionWritten ==
    ASSUME ProjectionsKnown, NEW p \in PlannerProjectors, NEW row,
           row \in [step : {row.step}, of : {row.of}, graph : {row.graph}, cursor : {row.cursor}],
           row.step # "idle" => row.of \in Intents,
           planProjector' = [planProjector EXCEPT ![p] = row]
    PROVE  ProjectionsKnown'
  <1>1. /\ planProjector' = [q \in PlannerProjectors |-> planProjector'[q]] /\ planProjector'[p] = row
        /\ \A q \in PlannerProjectors : q # p => planProjector'[q] = planProjector[q]
    BY DEF ProjectionsKnown
  <1>2. ASSUME NEW q \in PlannerProjectors
        PROVE  LET r == planProjector'[q]
               IN  /\ r \in [step : {r.step}, of : {r.of}, graph : {r.graph}, cursor : {r.cursor}]
                   /\ r.step # "idle" => r.of \in Intents
    <2>1. CASE q = p BY <1>1, <2>1
    <2>2. CASE q # p BY <1>1, <2>2 DEF ProjectionsKnown
    <2> QED BY <2>1, <2>2
  <1> QED BY <1>1, <1>2 DEF ProjectionsKnown

(* A projection that moves on stays one of its intent.                      *)
LEMMA ProjectionMoves ==
    ASSUME ProjectionsKnown, NEW p \in PlannerProjectors, planProjector[p].step # "idle",
           \/ ProjectorStopped(p) \/ \E step : ProjectorGoesOn(p, step)
           \/ \E step, cursor :
                 planProjector' = [planProjector EXCEPT ![p].step = step, ![p].cursor = cursor]
    PROVE  ProjectionsKnown'
  <1>0. PICK r : r = planProjector[p] OBVIOUS
  <1>1. /\ r \in [step : {r.step}, of : {r.of}, graph : {r.graph}, cursor : {r.cursor}]
        /\ r.of \in Intents
    BY <1>0 DEF ProjectionsKnown
  <1>2. CASE ProjectorStopped(p)
    <2>1. NoProjection \in [step : {NoProjection.step}, of : {NoProjection.of},
                             graph : {NoProjection.graph}, cursor : {NoProjection.cursor}]
          /\ NoProjection.step = "idle"
      BY DEF NoProjection
    <2> QED BY <1>2, <2>1, ProjectionWritten DEF ProjectorStopped
  <1>3. CASE \E step : ProjectorGoesOn(p, step)
    <2>1. PICK step : planProjector' = [planProjector EXCEPT ![p].step = step]
      BY <1>3 DEF ProjectorGoesOn
    <2>2. PICK row : row = [r EXCEPT !.step = step] OBVIOUS
    <2>3. /\ row \in [step : {row.step}, of : {row.of}, graph : {row.graph}, cursor : {row.cursor}]
          /\ row.of \in Intents
      BY <1>1, <2>2
    <2>4. planProjector' = [planProjector EXCEPT ![p] = row] BY <1>0, <2>1, <2>2
    <2> QED BY <2>3, <2>4, ProjectionWritten
  <1>4. CASE \E step, cursor :
                planProjector' = [planProjector EXCEPT ![p].step = step, ![p].cursor = cursor]
    <2>1. PICK step, cursor :
             planProjector' = [planProjector EXCEPT ![p].step = step, ![p].cursor = cursor]
      BY <1>4
    <2>2. PICK row : row = [r EXCEPT !.step = step, !.cursor = cursor] OBVIOUS
    <2>3. /\ row \in [step : {row.step}, of : {row.of}, graph : {row.graph}, cursor : {row.cursor}]
          /\ row.of \in Intents
      BY <1>1, <2>2
    <2>4. planProjector' = [planProjector EXCEPT ![p] = row]
      BY <1>0, <2>1, <2>2 DEF ProjectionsKnown
    <2> QED BY <2>3, <2>4, ProjectionWritten
  <1> QED BY <1>2, <1>3, <1>4

(* The projection that begins is one of an intent that has ended its run.   *)
LEMMA BeginProjectionKeeps ==
    ASSUME PlanInv, PlannerInv, NEW p \in PlannerProjectors, NEW i \in Intents, BeginProjection(p, i)
    PROVE  PlanInv' /\ PlannerInv'
  <1>0. /\ UNCHANGED planningVars /\ UNCHANGED <<decision, usage, consumer>>
        /\ PlannerTypes /\ ProjectionsKnown
    BY DEF BeginProjection, PlannerInv
  <1>1. PlannerTypes'
    <2>1. intent' = intent \/ \E status : intent' = Ended(i, status)
      BY DEF BeginProjection, FinishIntent
    <2> QED BY <1>0, <2>1, EndedShape DEF PlannerTypes
  <1>2. ProjectionsKnown'
    <2>1. CASE planProjector' = planProjector BY <1>0, <2>1 DEF ProjectionsKnown
    <2>2. CASE planProjector' = [planProjector EXCEPT ![p] =
                 [step |-> "record", of |-> i, graph |-> GraphSnapshot, cursor |-> 0]]
      BY <1>0, <2>2, ProjectionWritten
    <2> QED BY <2>1, <2>2 DEF BeginProjection
  <1> QED BY <1>0, <1>1, <1>2, NoDecisionKeeps

(* A recorded decision is new, so no consumer has it.                       *)
LEMMA RecordDecisionKeeps ==
    ASSUME PlanInv, PlannerInv, NEW p \in PlannerProjectors, RecordDecision(p)
    PROVE  PlanInv' /\ PlannerInv'
  <1> PICK i : i = planProjector[p].of OBVIOUS
  <1>0. /\ UNCHANGED planningVars /\ UNCHANGED <<intent, usage, consumer>>
        /\ PlannerTypes /\ ProjectionsKnown /\ planProjector[p].step = "record"
    BY DEF RecordDecision, PlannerInv
  <1>1. i \in Intents BY <1>0 DEF ProjectionsKnown
  <1>2. ProjectionsKnown' BY <1>0, ProjectionMoves DEF RecordDecision
  <1>3. \/ decision' = decision
        \/ /\ decision[i].status = "none"
           /\ \E status \in {"stale", "pending"} :
                 decision' = [decision EXCEPT ![i] = [status |-> status, batch |-> Recorded(p)]]
    BY DEF RecordDecision
  <1>4. CASE decision' = decision
    <2>1. PlannerTypes' BY <1>0, <1>4 DEF PlannerTypes
    <2> QED BY <1>0, <1>2, <1>4, <2>1, NoDecisionKeeps
  <1>5. CASE decision[i].status = "none" /\
             \E status \in {"stale", "pending"} :
                 decision' = [decision EXCEPT ![i] = [status |-> status, batch |-> Recorded(p)]]
    <2>1. PICK status \in {"stale", "pending"} :
              decision' = [decision EXCEPT ![i] = [status |-> status, batch |-> Recorded(p)]]
      BY <1>5
    <2>2. Recorded(p) \in Answers
      <3>1. intent[i].answer \in Answers BY <1>0, <1>1 DEF PlannerTypes, IntentShape
      <3> QED BY <3>1 DEF Recorded, Answers
    <2>3. /\ decision' = [j \in Intents |-> decision'[j]]
          /\ decision'[i] = [status |-> status, batch |-> Recorded(p)]
          /\ \A j \in Intents : j # i => decision'[j] = decision[j]
      BY <1>0, <1>1, <2>1 DEF PlannerTypes
    <2>4. \A j \in Intents : DecisionShape(decision'[j])
      BY <1>0, <2>2, <2>3 DEF PlannerTypes, DecisionShape
    <2>5. PlannerTypes' BY <1>0, <2>3, <2>4 DEF PlannerTypes
    <2>6. AppliedStands BY <1>5, <2>3 DEF AppliedStands
    <2>7. ConsumerHolds' BY <1>0, <1>5, <2>3 DEF PlannerInv, ConsumerHolds
    <2>8. PlanWrites BY <1>0, GraphStands DEF planningVars, graphVars
    <2>9. PlanInv' BY <1>0, <2>8, GraphStepKeepsPlan DEF PlanWrites, planningVars, planVars
    <2> QED BY <1>0, <1>2, <2>5, <2>6, <2>7, <2>8, <2>9, WorkStands
  <1> QED BY <1>3, <1>4, <1>5

(* A projection records a decision and applies none.                        *)
LEMMA ProjectionStepsKeep ==
    ASSUME PlanInv, PlannerInv, ProjectionSteps
    PROVE  PlanInv' /\ PlannerInv'
  <1>1. PICK p \in PlannerProjectors :
           \/ \E i \in Intents : BeginProjection(p, i)
           \/ RecordDecision(p) \/ ReadForStale(p) \/ EmitStaleDecision(p) \/ FinishProjection(p)
           \/ ProjectionStops(p)
    BY DEF ProjectionSteps
  <1>2. CASE ReadForStale(p) \/ EmitStaleDecision(p) \/ FinishProjection(p) \/ ProjectionStops(p)
    <2>0. /\ UNCHANGED planningVars /\ UNCHANGED <<decision, usage, consumer>>
          /\ PlannerTypes /\ ProjectionsKnown
      BY <1>2 DEF ReadForStale, EmitStaleDecision, FinishProjection, ProjectionStops, PlannerInv
    <2>1. ProjectionsKnown'
      <3>1. planProjector[p].step # "idle"
        BY <1>2 DEF ReadForStale, EmitStaleDecision, FinishProjection, ProjectionStops
      <3>2. \/ ProjectorStopped(p) \/ \E step : ProjectorGoesOn(p, step)
            \/ \E step, cursor :
                  planProjector' = [planProjector EXCEPT ![p].step = step, ![p].cursor = cursor]
        BY <1>2 DEF ReadForStale, EmitStaleDecision, FinishProjection, ProjectionStops
      <3> QED BY <2>0, <3>1, <3>2, ProjectionMoves
    <2>2. PlannerTypes'
      <3>1. CASE FinishProjection(p)
        <4> PICK i : i = planProjector[p].of OBVIOUS
        <4>1. i \in Intents BY <2>0, <3>1 DEF FinishProjection, ProjectionsKnown
        <4>2. intent' = intent \/ \E status : intent' = Ended(i, status)
          BY <3>1 DEF FinishProjection, FinishIntent
        <4> QED BY <2>0, <4>1, <4>2, EndedShape DEF PlannerTypes
      <3>2. CASE ReadForStale(p) \/ EmitStaleDecision(p) \/ ProjectionStops(p)
        BY <2>0, <3>2 DEF PlannerTypes, ReadForStale, EmitStaleDecision, ProjectionStops
      <3> QED BY <1>2, <3>1, <3>2
    <2> QED BY <2>0, <2>1, <2>2, NoDecisionKeeps
  <1> QED BY <1>1, <1>2, BeginProjectionKeeps, RecordDecisionKeeps

(* A consumption that ends without an effect on the graph.                  *)
LEMMA ConsumedKeeps ==
    ASSUME PlanInv, PlannerInv, consumer.of # Unset,
           UNCHANGED planVars, UNCHANGED graphVars, UNCHANGED <<intent, usage, planProjector>>,
           NEW status \in {"stale", "rejected"}, NEW proc, ConsumedAs(consumer.of, status, proc)
    PROVE  PlanInv' /\ PlannerInv'
  <1> PICK c : c = consumer.of OBVIOUS
  <1>0. PlannerTypes /\ c \in Intents /\ decision[c].status = "pending" /\ ProjectionsKnown
    BY DEF PlannerInv, ConsumerHolds
  <1>1. decision' = [decision EXCEPT ![c].status = status] /\ consumer' = NoConsumption
    BY DEF ConsumedAs
  <1>2. /\ decision' = [j \in Intents |-> decision'[j]]
        /\ decision'[c] = [decision[c] EXCEPT !.status = status]
        /\ \A j \in Intents : j # c => decision'[j] = decision[j]
    BY <1>0, <1>1 DEF PlannerTypes
  <1>3. DecisionShape(decision[c]) BY <1>0 DEF PlannerTypes
  <1>4. DecisionShape(decision'[c]) /\ decision'[c].status = status
    BY <1>2, <1>3 DEF DecisionShape
  <1>5. \A j \in Intents : DecisionShape(decision'[j]) BY <1>0, <1>2, <1>4 DEF PlannerTypes
  <1>6. PlannerTypes' BY <1>0, <1>2, <1>5 DEF PlannerTypes
  <1>7. AppliedStands BY <1>0, <1>2, <1>4 DEF AppliedStands
  <1>8. ConsumerHolds' BY <1>1 DEF ConsumerHolds, NoConsumption
  <1>9. ProjectionsKnown' BY <1>0 DEF ProjectionsKnown
  <1>10. PlanWrites BY GraphStands
  <1>11. PlanInv' BY <1>10, GraphStepKeepsPlan DEF PlanWrites
  <1> QED BY <1>6, <1>7, <1>8, <1>9, <1>10, <1>11, WorkStands

(* The batch of a consumer that goes on.                                    *)
LEMMA ConsumedBatch ==
    ASSUME PlannerInv, consumer.of # Unset
    PROVE  /\ consumer.of \in Intents /\ decision[consumer.of].status = "pending"
           /\ Batch \in Answers
  <1>1. consumer.of \in Intents /\ decision[consumer.of].status = "pending"
    BY DEF PlannerInv, ConsumerHolds
  <1>2. DecisionShape(decision[consumer.of]) BY <1>1 DEF PlannerInv, PlannerTypes
  <1> QED BY <1>1, <1>2 DEF DecisionShape, Batch

(* The effects of a batch: its rows are new, and nothing else changes.      *)
LEMMA AppliedGraph ==
    ASSUME PlanInv, PlannerInv, ConsumeApplied
    PROVE  /\ GraphGrows
           /\ nodes' \ Planned = (nodes \ Planned) \cup Batch.tasks \cup Batch.notes
           /\ Generated' \subseteq Generated \cup Batch.tasks
           /\ NewDeps(Batch) \subseteq relations'
  <1> PICK b : b = Batch OBVIOUS
  <1>0. consumer.of # Unset BY DEF ConsumeApplied, Consumable
  <1>1. b \in Answers BY <1>0, ConsumedBatch
  <1>2. /\ b.tasks \subseteq WorkNodes \ Planned /\ b.notes \subseteq WorkNodes \ Planned
        /\ b.deps \subseteq WorkNodes \X WorkNodes
    BY <1>1, AnswerShape
  <1>3. /\ subject' = [n \in WorkNodes |->
               IF n \in b.tasks THEN "task" ELSE IF n \in b.notes THEN "note" ELSE subject[n]]
        /\ nodes' = nodes \cup b.tasks \cup b.notes
        /\ relations' = relations \cup NewDeps(b)
    BY DEF ConsumeApplied
  <1>4. /\ nodes \subseteq WorkNodes /\ relations \subseteq PlanRelationRow
        /\ NoContent \notin {"task", "note"}
    BY PlanParameters DEF PlanInv, GraphTypes
  <1>5. NewDeps(b) \subseteq PlanRelationRow
    BY <1>2 DEF NewDeps, PlanRelationRow, RelationTypes
  <1>6. GraphTypes' BY <1>2, <1>3, <1>4, <1>5 DEF GraphTypes
  <1>7. GraphGrows BY <1>3, <1>4, <1>6 DEF GraphGrows
  <1>8. ASSUME NEW m \in Generated' PROVE m \in Generated \cup b.tasks
    <2>1. m \in nodes' \ PlanTasks /\ subject'[m] = "task" /\ m \in WorkNodes
      BY <1>2, <1>3, <1>4, <1>8 DEF Generated
    <2>2. CASE m \notin b.tasks
      <3>1. m \notin b.notes BY <1>3, <2>1, <2>2
      <3>2. m \in nodes \ PlanTasks /\ subject[m] = "task" BY <1>3, <2>1, <2>2, <3>1
      <3> QED BY <3>2 DEF Generated
    <2> QED BY <2>2
  <1>9. nodes' \ Planned = (nodes \ Planned) \cup b.tasks \cup b.notes BY <1>2, <1>3
  <1> QED BY <1>3, <1>7, <1>8, <1>9

(* What the batch adds to the usage is what it adds to the graph.           *)
LEMMA AppliedUsage ==
    ASSUME PlanInv, PlannerInv, ConsumeApplied
    PROVE  WithinUsage' /\ usage' \in [tasks : 0 .. MaxTasks, replans : 0 .. MaxReplans]
  <1> PICK b : b = Batch OBVIOUS
  <1> PICK c : c = consumer.of OBVIOUS
  <1>0. consumer.of # Unset BY DEF ConsumeApplied, Consumable
  <1>1. c \in Intents /\ decision[c].status = "pending" /\ b \in Answers
    BY <1>0, ConsumedBatch
  <1>2. IsFiniteSet(b.tasks) /\ b.replans \in Nat /\ Cardinality(b.tasks) \in Nat
    BY <1>1, AnswerShape, FS_CardinalityType
  <1>3. /\ usage.tasks \in Nat /\ usage.replans \in Nat /\ MaxTasks \in Nat /\ MaxReplans \in Nat
    BY PlannerParameters DEF PlannerInv, PlannerTypes
  <1>4. /\ usage' = [tasks |-> usage.tasks + Cardinality(b.tasks), replans |-> usage.replans + b.replans]
        /\ usage.tasks + Cardinality(b.tasks) <= MaxTasks
        /\ usage.replans + b.replans <= MaxReplans
    BY DEF ConsumeApplied, PolicyAllows
  <1>5. /\ IsFiniteSet(Generated) /\ Cardinality(Generated) <= usage.tasks
        /\ IsFiniteSet(Replans) /\ Cardinality(Replans) <= usage.replans
        /\ Cardinality(Generated) \in Nat /\ Cardinality(Replans) \in Nat
    BY FS_CardinalityType DEF PlannerInv, WithinUsage
  <1>6. IsFiniteSet(Generated') /\ Cardinality(Generated') <= usage'.tasks
    <2>1. PICK S : S = Generated \cup b.tasks OBVIOUS
    <2>2. IsFiniteSet(S) /\ Cardinality(S) = Cardinality(Generated) + Cardinality(b.tasks) - Cardinality(Generated \cap b.tasks)
      BY <1>2, <1>5, <2>1, FS_Union
    <2>3. Cardinality(Generated \cap b.tasks) \in Nat
      <3>1. IsFiniteSet(Generated \cap b.tasks) BY <1>5, FS_Subset
      <3> QED BY <3>1, FS_CardinalityType
    <2>4. Generated' \in SUBSET S BY <2>1, AppliedGraph
    <2>5. IsFiniteSet(Generated') /\ Cardinality(Generated') <= Cardinality(S)
      BY <2>2, <2>4, FS_Subset
    <2>6. Cardinality(Generated') \in Nat BY <2>5, FS_CardinalityType
    <2>7. usage'.tasks = usage.tasks + Cardinality(b.tasks) BY <1>4
    <2>8. Cardinality(Generated') <= usage.tasks + Cardinality(b.tasks)
      BY <1>2, <1>3, <1>5, <2>2, <2>3, <2>5, <2>6
    <2> QED BY <2>5, <2>7, <2>8
  <1>7. decision' = [decision EXCEPT ![c].status = "applied"] BY DEF ConsumeApplied, ConsumedAs
  <1>8. /\ decision'[c].status = "applied" /\ decision'[c].batch = b
        /\ \A j \in Intents : j # c => decision'[j] = decision[j]
    <2>1. DecisionShape(decision[c]) BY <1>1 DEF PlannerInv, PlannerTypes
    <2>2. decision'[c] = [decision[c] EXCEPT !.status = "applied"]
          /\ \A j \in Intents : j # c => decision'[j] = decision[j]
      BY <1>1, <1>7 DEF PlannerInv, PlannerTypes
    <2> QED BY <2>1, <2>2 DEF DecisionShape, Batch
  <1>9. IsFiniteSet(Replans') /\ Cardinality(Replans') <= usage'.replans
    <2>0. usage'.replans = usage.replans + b.replans BY <1>4
    <2>1. CASE b.replans > 0
      <3>1. Replans' = Replans \cup {c} BY <1>1, <1>8, <2>1 DEF Replans
      <3>2. IsFiniteSet(Replans \cup {c}) /\ Cardinality(Replans \cup {c}) <= Cardinality(Replans) + 1
        BY <1>5, FS_AddElement
      <3>3. Cardinality(Replans \cup {c}) \in Nat BY <3>2, FS_CardinalityType
      <3>4. Cardinality(Replans \cup {c}) <= usage.replans + b.replans
        BY <1>2, <1>3, <1>5, <2>1, <3>2, <3>3
      <3> QED BY <2>0, <3>1, <3>2, <3>4
    <2>2. CASE ~(b.replans > 0)
      <3>1. Replans' = Replans BY <1>1, <1>8, <2>2 DEF Replans
      <3>2. Cardinality(Replans) <= usage.replans + b.replans BY <1>2, <1>3, <1>5
      <3> QED BY <1>5, <2>0, <3>1, <3>2
    <2> QED BY <2>1, <2>2
  <1>10. usage' \in [tasks : 0 .. MaxTasks, replans : 0 .. MaxReplans] BY <1>2, <1>3, <1>4
  <1> QED BY <1>6, <1>9, <1>10 DEF WithinUsage

(* The batch enters as a whole.                                             *)
LEMMA ConsumeAppliedKeeps ==
    ASSUME PlanInv, PlannerInv, ConsumeApplied
    PROVE  PlanInv' /\ PlannerInv'
  <1> PICK b : b = Batch OBVIOUS
  <1> PICK c : c = consumer.of OBVIOUS
  <1>0. /\ consumer.of # Unset /\ UNCHANGED planVars /\ UNCHANGED planProjector
        /\ decision' = [decision EXCEPT ![c].status = "applied"] /\ consumer' = NoConsumption
    BY DEF ConsumeApplied, Consumable, ConsumedAs
  <1>1. c \in Intents /\ decision[c].status = "pending" /\ b \in Answers /\ decision[c].batch = b
    BY <1>0, ConsumedBatch DEF Batch
  <1>2. PlanInv' BY <1>0, AppliedGraph, GraphStepKeepsPlan
  <1>3. DecisionShape(decision[c]) BY <1>1 DEF PlannerInv, PlannerTypes
  <1>4. /\ decision' = [j \in Intents |-> decision'[j]]
        /\ decision'[c] = [decision[c] EXCEPT !.status = "applied"]
        /\ \A j \in Intents : j # c => decision'[j] = decision[j]
    BY <1>0, <1>1 DEF PlannerInv, PlannerTypes
  <1>5. DecisionShape(decision'[c]) /\ decision'[c].status = "applied" /\ decision'[c].batch = b
    BY <1>1, <1>3, <1>4 DEF DecisionShape
  <1>6. intent' = [j \in Intents |-> intent'[j]] /\ \A j \in Intents : IntentShape(intent'[j])
    <2>1. CASE intent' = intent BY <2>1 DEF PlannerInv, PlannerTypes
    <2>2. CASE Batch.replans > 0
      <3>0. PICK cursor, graph : intent' \in Replanned(cursor, graph) BY <2>2 DEF ConsumeApplied
      <3>1. PICK j \in Intents : intent' = [intent EXCEPT ![j] = NewIntent(cursor, graph)]
        BY <3>0 DEF Replanned
      <3>2. IntentShape(NewIntent(cursor, graph)) BY NewIntentShape
      <3>3. PICK row : row = NewIntent(cursor, graph) OBVIOUS
      <3>4. /\ intent' = [k \in Intents |-> intent'[k]] /\ intent'[j] = row
            /\ \A k \in Intents : k # j => intent'[k] = intent[k]
        BY <3>1, <3>3 DEF PlannerInv, PlannerTypes
      <3>5. ASSUME NEW k \in Intents PROVE IntentShape(intent'[k])
        BY <3>2, <3>3, <3>4 DEF PlannerInv, PlannerTypes
      <3> QED BY <3>4, <3>5
    <2> QED BY <2>1, <2>2 DEF ConsumeApplied
  <1>7. PlannerTypes'
    <2>1. \A j \in Intents : DecisionShape(decision'[j]) BY <1>4, <1>5 DEF PlannerInv, PlannerTypes
    <2> QED BY <1>4, <1>6, <2>1, AppliedUsage DEF PlannerTypes
  <1>8. ConsumerHolds' BY <1>0 DEF ConsumerHolds, NoConsumption
  <1>9. ProjectionsKnown' BY <1>0 DEF PlannerInv, ProjectionsKnown
  <1>10. BatchIsAllOrNothing'
    <2> PICK A : A = {i \in Intents : decision[i].status = "applied"} OBVIOUS
    <2> PICK old, new : old = decision /\ new = decision' OBVIOUS
    <2>1. {i \in Intents : new[i].status = "applied"} = A \cup {c} BY <1>1, <1>4, <1>5
    <2>2. (\A i \in A : new[i].batch = old[i].batch) /\ new[c].batch = b BY <1>1, <1>4, <1>5
    <2>u. PICK U : U = UNION {old[i].batch.tasks \cup old[i].batch.notes : i \in A} OBVIOUS
    <2>v. PICK V : V = UNION {new[i].batch.tasks \cup new[i].batch.notes : i \in A \cup {c}} OBVIOUS
    <2>3. /\ nodes \ Planned = U
          /\ \A i \in A : NewDeps(old[i].batch) \subseteq relations
      BY <2>u DEF PlannerInv, BatchIsAllOrNothing, Planned
    <2>4. /\ nodes' \ Planned = (nodes \ Planned) \cup b.tasks \cup b.notes
          /\ relations \subseteq relations' /\ NewDeps(b) \subseteq relations'
      BY AppliedGraph DEF GraphGrows
    <2>5. V = U \cup b.tasks \cup b.notes
      <3>1. ASSUME NEW n PROVE n \in V <=> n \in U \cup b.tasks \cup b.notes
        <4>1. n \in V <=> \E i \in A \cup {c} : n \in new[i].batch.tasks \cup new[i].batch.notes
          BY <2>v
        <4>2. n \in U <=> \E i \in A : n \in old[i].batch.tasks \cup old[i].batch.notes BY <2>u
        <4> QED BY <2>2, <4>1, <4>2
      <3> QED BY <3>1
    <2>6. \A i \in A \cup {c} : NewDeps(new[i].batch) \subseteq relations'
      BY <2>2, <2>3, <2>4
    <2>7. nodes' \ Planned = V
      BY <2>3, <2>4, <2>5
    <2> QED BY <2>1, <2>6, <2>7, <2>v DEF BatchIsAllOrNothing, Planned
  <1> QED BY <1>2, <1>7, <1>8, <1>9, <1>10, AppliedUsage DEF PlannerInv

(* A consumer applies the batch as a whole, or leaves the graph alone.      *)
LEMMA ConsumerStepsKeep ==
    ASSUME PlanInv, PlannerInv, ConsumerSteps
    PROVE  PlanInv' /\ PlannerInv'
  <1>1. CASE (\E i \in Intents : BeginConsume(i)) \/ ConsumerStops
    <2>1. /\ UNCHANGED planningVars /\ UNCHANGED <<intent, decision, usage, planProjector>>
          /\ PlannerTypes /\ ProjectionsKnown
      BY <1>1 DEF BeginConsume, ConsumerStops, PlannerInv
    <2>2. ConsumerHolds'
      BY <1>1, <2>1 DEF BeginConsume, ConsumerStops, ConsumerHolds, NoConsumption
    <2>3. PlannerTypes' /\ ProjectionsKnown' BY <2>1 DEF PlannerTypes, ProjectionsKnown
    <2>4. AppliedStands BY <2>1 DEF AppliedStands
    <2>5. PlanWrites BY <2>1, GraphStands DEF planningVars, graphVars
    <2>6. PlanInv' BY <2>1, <2>5, GraphStepKeepsPlan DEF PlanWrites, planningVars, planVars
    <2> QED BY <2>1, <2>2, <2>3, <2>4, <2>5, <2>6, WorkStands
  <1>2. CASE ConsumeStale \/ ConsumeRejected \/ ConsumeOverBudget \/ ConsumeFails
    <2>1. /\ consumer.of # Unset /\ UNCHANGED planVars /\ UNCHANGED graphVars
          /\ UNCHANGED <<intent, usage, planProjector>>
      BY <1>2 DEF ConsumeStale, ConsumeRejected, ConsumeOverBudget, ConsumeFails, Consumable,
                 EffectsUndone, planningVars, planVars, graphVars
    <2>2. PICK status \in {"stale", "rejected"} : \E proc : ConsumedAs(consumer.of, status, proc)
      BY <1>2 DEF ConsumeStale, ConsumeRejected, ConsumeOverBudget, ConsumeFails
    <2> QED BY <2>1, <2>2, ConsumedKeeps
  <1> QED BY <1>1, <1>2, ConsumeAppliedKeeps DEF ConsumerSteps

(* Nothing is planned and nothing generated at first.                       *)
LEMMA OrchestrationStarts ==
    ASSUME OrchestrationInit
    PROVE  PlanInv /\ PlannerInv
  <1> USE DEF OrchestrationInit, PlanningInit, WorkGraphInit
  <1>1. GraphTypes /\ AnnouncedOnce /\ ApprovedPlanIsMaterialized
    BY DEF GraphTypes, AnnouncedOnce, ApprovedPlanIsMaterialized
  <1>2. PlanRowTypes BY FreshRow DEF PlanRowTypes, DraftStatus
  <1>3. Materialized(NoApproval)
    BY FreshRow DEF Materialized
  <1>4. \A a \in Approvers : Materialized(approval[a]) BY <1>3 DEF Materialized
  <1>5. PlannerTypes
    <2>1. IntentShape(NoIntent) /\ DecisionShape(NoDecision)
      BY DEF IntentShape, DecisionShape, NoIntent, NoDecision, Answers
    <2>2. \A i \in Intents : IntentShape(intent[i]) /\ DecisionShape(decision[i])
      BY <2>1 DEF PlannerInit
    <2> QED BY <2>2, PlannerParameters DEF PlannerTypes, PlannerInit
  <1>6. ConsumerHolds /\ ProjectionsKnown
    BY DEF ConsumerHolds, ProjectionsKnown, PlannerInit, NoConsumption, NoProjection
  <1>7. \A i \in Intents : decision[i].status = "none" BY DEF PlannerInit, NoDecision
  <1>8. BatchIsAllOrNothing BY <1>7 DEF BatchIsAllOrNothing
  <1>9. Generated = {} /\ Replans = {} BY <1>7 DEF Generated, Replans
  <1>10. usage.tasks = 0 /\ usage.replans = 0 BY DEF PlannerInit
  <1>11. WithinUsage BY <1>9, <1>10, FS_EmptySet DEF WithinUsage
  <1> QED BY <1>1, <1>2, <1>4, <1>5, <1>6, <1>8, <1>11 DEF PlanInv, PlannerInv

(* Plan and planner keep their invariants side by side.                     *)
LEMMA OrchestrationKeeps ==
    ASSUME PlanInv, PlannerInv, [OrchestrationNext]_orchestrationVars
    PROVE  PlanInv' /\ PlannerInv'
  <1>1. CASE PlannerNext
    BY <1>1, ProcessStepsKeep, IntentStepsKeep, ProjectionStepsKeep, ConsumerStepsKeep DEF PlannerNext
  <1>2. CASE PlanningNext /\ UNCHANGED plannerVars BY <1>2, PlanningKeeps, PlanKeepsPlanner
  <1>3. CASE UNCHANGED orchestrationVars
    <2>1. UNCHANGED planningVars /\ UNCHANGED <<intent, decision, usage, consumer, planProjector>>
      BY <1>3 DEF orchestrationVars, planningVars
    <2>2. PlannerTypes' /\ ProjectionsKnown'
      BY <2>1 DEF PlannerInv, PlannerTypes, ProjectionsKnown
    <2> QED BY <2>1, <2>2, NoDecisionKeeps
  <1> QED BY <1>1, <1>2, <1>3 DEF OrchestrationNext

-----------------------------------------------------------------------------
(* The batches in turn: the cursor of the process has passed the state every *)
(* applied batch was planned for.                                           *)
ProcessShape(proc) == proc \in [cursor : Nat, status : {proc.status}, open : {proc.open}]

InTurnInv ==
    /\ ProcessShape(process)
    /\ \A i \in Intents : decision[i].status # "none" => intent[i].status # "none"
    /\ \A p \in PlannerProjectors :
          planProjector[p].step # "idle" => intent[planProjector[p].of].status # "none"
    /\ \A i \in Intents :
          decision[i].status = "applied" => intent[i].cursor \in Nat /\ intent[i].cursor < process.cursor
    /\ AppliedInTurn

(* An intent that was requested keeps the state it is for.                  *)
IntentsStand ==
    \A i \in Intents :
        intent[i].status # "none" =>
            intent'[i].status # "none" /\ intent'[i].cursor = intent[i].cursor

ProcessGoesOn == ProcessShape(process') /\ process'.cursor >= process.cursor

(* A fact moves the process on, with a control or without.                  *)
LEMMA FactMoves ==
    ASSUME NEW proc, ProcessShape(proc)
    PROVE  /\ ProcessShape(Fact(proc)) /\ Fact(proc).cursor = proc.cursor + 1
           /\ ProcessShape(WithControl(proc)) /\ WithControl(proc).cursor = proc.cursor + 1
  <1>1. proc.cursor + 1 \in Nat BY DEF ProcessShape
  <1>2. PICK f : f = Fact(proc) /\ f = [proc EXCEPT !.cursor = proc.cursor + 1] BY DEF Fact
  <1>3. ProcessShape(f) /\ f.cursor = proc.cursor + 1 BY <1>1, <1>2 DEF ProcessShape
  <1>4. PICK w : w = [f EXCEPT !.open = @ + 1, !.status = "human"] OBVIOUS
  <1>5. ProcessShape(w) /\ w.cursor = f.cursor BY <1>3, <1>4 DEF ProcessShape
  <1>6. w = WithControl(proc) BY <1>2, <1>4 DEF WithControl
  <1> QED BY <1>2, <1>3, <1>5, <1>6

(* The outcome of a consumption is a fact of a process that goes on.        *)
LEMMA ConsumedMoves ==
    ASSUME NEW i, NEW status, NEW proc, ConsumedAs(i, status, proc),
           ProcessShape(process), proc \in {process, Fact(process), WithControl(process)}
    PROVE  /\ ProcessGoesOn
           /\ proc.status # "terminal" => process'.cursor > process.cursor
  <1>1. ProcessShape(proc) /\ proc.cursor >= process.cursor /\ proc.cursor \in Nat
    <2>1. process.cursor \in Nat BY DEF ProcessShape
    <2>2. CASE proc = process BY <2>1, <2>2
    <2>3. CASE proc # process BY <2>1, <2>3, FactMoves
    <2> QED BY <2>2, <2>3
  <1>2. process' = proc \/ process' = Fact(proc) BY DEF ConsumedAs
  <1>3. Fact(proc).cursor = proc.cursor + 1 /\ ProcessShape(Fact(proc)) BY <1>1, FactMoves
  <1>4. proc.status # "terminal" => process' = Fact(proc) BY DEF ConsumedAs
  <1>5. process.cursor \in Nat BY DEF ProcessShape
  <1> QED BY <1>1, <1>2, <1>3, <1>4, <1>5 DEF ProcessGoesOn

(* The intent a step writes is a new one, or for the state it was for.      *)
LEMMA WrittenStands ==
    ASSUME PlannerTypes, NEW i \in Intents, NEW row, intent' = [intent EXCEPT ![i] = row],
           row.status # "none", intent[i].status = "none" \/ row.cursor = intent[i].cursor
    PROVE  IntentsStand
  <1>1. intent'[i] = row /\ \A j \in Intents : j # i => intent'[j] = intent[j] BY DEF PlannerTypes
  <1> QED BY <1>1 DEF IntentsStand

(* An intent that ends is for the state it was for.                         *)
LEMMA EndedStands ==
    ASSUME PlannerTypes, NEW i \in Intents, NEW status, status # "none", intent' = Ended(i, status)
    PROVE  IntentsStand
  <1>1. PICK row : row = [intent[i] EXCEPT !.status = status] OBVIOUS
  <1>2. IntentShape(intent[i]) BY DEF PlannerTypes
  <1>3. row.status = status /\ row.cursor = intent[i].cursor BY <1>1, <1>2 DEF IntentShape
  <1>4. intent' = [intent EXCEPT ![i] = row] BY <1>1 DEF Ended
  <1> QED BY <1>3, <1>4, WrittenStands

(* A step that applies nothing keeps the turns.                             *)
LEMMA NothingApplied ==
    ASSUME InTurnInv, IntentsStand, ProcessGoesOn, AppliedStands,
           \A i \in Intents : decision'[i].status # "none" => intent'[i].status # "none",
           \A p \in PlannerProjectors :
               planProjector'[p].step # "idle" => intent'[planProjector'[p].of].status # "none"
    PROVE  InTurnInv'
  <1>1. process.cursor \in Nat /\ process'.cursor \in Nat
    BY DEF InTurnInv, ProcessGoesOn, ProcessShape
  <1>2. ASSUME NEW i \in Intents, decision'[i].status = "applied"
        PROVE  /\ decision[i].status = "applied" /\ intent'[i].cursor = intent[i].cursor
               /\ intent[i].cursor \in Nat /\ intent[i].cursor < process'.cursor
    <2>1. decision[i].status = "applied" BY <1>2 DEF AppliedStands
    <2>2. intent'[i].cursor = intent[i].cursor BY <2>1 DEF InTurnInv, IntentsStand
    <2>3. intent[i].cursor \in Nat /\ intent[i].cursor < process.cursor BY <2>1 DEF InTurnInv
    <2> QED BY <1>1, <2>1, <2>2, <2>3 DEF ProcessGoesOn
  <1>3. AppliedInTurn' BY <1>2 DEF InTurnInv, AppliedInTurn
  <1> QED BY <1>2, <1>3 DEF InTurnInv, ProcessGoesOn

(* A step that leaves decisions and projections alone keeps the turns.      *)
LEMMA NothingDecided ==
    ASSUME InTurnInv, ProjectionsKnown, IntentsStand, ProcessGoesOn,
           UNCHANGED <<decision, planProjector>>
    PROVE  InTurnInv'
  <1>1. AppliedStands BY DEF AppliedStands
  <1>2. \A i \in Intents : decision'[i].status # "none" => intent'[i].status # "none"
    BY DEF InTurnInv, IntentsStand
  <1>3. \A p \in PlannerProjectors :
            planProjector'[p].step # "idle" => intent'[planProjector'[p].of].status # "none"
    BY DEF InTurnInv, IntentsStand, ProjectionsKnown
  <1> QED BY <1>1, <1>2, <1>3, NothingApplied

(* A process that goes on without the planner.                              *)
LEMMA ProcessStepsInTurn ==
    ASSUME PlannerInv, InTurnInv, ProcessSteps
    PROVE  InTurnInv'
  <1>1. UNCHANGED <<intent, decision, planProjector>>
    BY DEF ProcessSteps, ProcessMoves, ControlsResolved, TaskMoves
  <1>2. ProcessShape(process) BY DEF InTurnInv
  <1>3. \/ process' = Fact(process)
        \/ \E status : process' = [Fact(process) EXCEPT !.status = status]
        \/ process' = [Fact(process) EXCEPT !.open = 0, !.status = "active"]
    BY DEF ProcessSteps, ProcessMoves, ControlsResolved, TaskMoves
  <1>4. ProcessGoesOn
    <2>1. PICK f : f = Fact(process) /\ ProcessShape(f) /\ f.cursor = process.cursor + 1
      BY <1>2, FactMoves
    <2>2. PICK q : q = process' OBVIOUS
    <2>3. ProcessShape(q) /\ q.cursor = f.cursor
      <3>1. CASE q = f BY <2>1, <3>1
      <3>2. CASE \E status : q = [f EXCEPT !.status = status]
        BY <2>1, <3>2 DEF ProcessShape
      <3>3. CASE q = [f EXCEPT !.open = 0, !.status = "active"]
        BY <2>1, <3>3 DEF ProcessShape
      <3> QED BY <1>3, <2>1, <2>2, <3>1, <3>2, <3>3
    <2> QED BY <1>2, <2>1, <2>2, <2>3 DEF ProcessGoesOn, ProcessShape
  <1>5. IntentsStand BY <1>1 DEF IntentsStand
  <1> QED BY <1>1, <1>4, <1>5, NothingDecided DEF PlannerInv

(* An intent is requested once, and its run is for the state it is for.     *)
LEMMA IntentStepsInTurn ==
    ASSUME PlannerInv, InTurnInv, IntentSteps
    PROVE  InTurnInv'
  <1>0. /\ UNCHANGED <<decision, planProjector>>
        /\ PlannerTypes /\ ProjectionsKnown /\ ProcessShape(process)
    BY DEF IntentSteps, RequestPlan, LaunchPlan, LaunchOverBudget, PlanRunEnds, PlannerInv, InTurnInv
  <1>1. PICK i \in Intents :
           \/ RequestPlan(i) \/ LaunchPlan(i) \/ LaunchOverBudget(i)
           \/ \E outcome \in RunEnded, batch \in Answers : PlanRunEnds(i, outcome, batch)
    BY DEF IntentSteps, Answers
  <1>2. IntentShape(intent[i]) BY <1>0 DEF PlannerTypes
  <1>3. ProcessGoesOn
    <2>1. process' = process \/ process' = WithControl(process)
      BY <1>1 DEF RequestPlan, LaunchPlan, LaunchOverBudget, PlanRunEnds
    <2>2. ProcessShape(WithControl(process)) /\ WithControl(process).cursor = process.cursor + 1
      BY <1>0, FactMoves
    <2> QED BY <1>0, <2>1, <2>2 DEF ProcessGoesOn, ProcessShape
  <1>4. IntentsStand
    <2>1. CASE RequestPlan(i)
      <3>1. PICK row : row = NewIntent(process.cursor, GraphSnapshot) OBVIOUS
      <3>2. row.status # "none" BY <3>1 DEF NewIntent, NoIntent
      <3> QED BY <1>0, <2>1, <3>1, <3>2, WrittenStands DEF RequestPlan
    <2>2. CASE LaunchPlan(i)
      <3>1. CASE \E status \in {"cancelled", "stale"} : intent' = Ended(i, status)
        BY <1>0, <3>1, EndedStands
      <3>2. CASE intent' = [intent EXCEPT ![i].status = "running", ![i].run = "active"]
        <4>1. PICK row : row = [intent[i] EXCEPT !.status = "running", !.run = "active"] OBVIOUS
        <4>2. row.status = "running" /\ row.cursor = intent[i].cursor
          BY <1>2, <4>1 DEF IntentShape
        <4>3. intent' = [intent EXCEPT ![i] = row] BY <1>0, <3>2, <4>1 DEF PlannerTypes
        <4> QED BY <1>0, <4>2, <4>3, WrittenStands
      <3> QED BY <2>2, <3>1, <3>2 DEF LaunchPlan
    <2>3. CASE LaunchOverBudget(i) BY <2>3 DEF LaunchOverBudget, IntentsStand
    <2>4. CASE \E outcome \in RunEnded, batch \in Answers : PlanRunEnds(i, outcome, batch)
      <3>1. PICK outcome \in RunEnded, batch \in Answers :
               intent' = [intent EXCEPT ![i].run = outcome, ![i].answer = batch]
        BY <2>4 DEF PlanRunEnds
      <3>2. PICK row : row = [intent[i] EXCEPT !.run = outcome, !.answer = batch] OBVIOUS
      <3>3. row.status = intent[i].status /\ row.cursor = intent[i].cursor
        BY <1>2, <3>2 DEF IntentShape
      <3>4. /\ intent' = [intent EXCEPT ![i] = row]
            /\ intent'[i] = row /\ \A j \in Intents : j # i => intent'[j] = intent[j]
        BY <1>0, <3>1, <3>2 DEF PlannerTypes
      <3> QED BY <3>3, <3>4 DEF IntentsStand
    <2> QED BY <1>1, <2>1, <2>2, <2>3, <2>4
  <1> QED BY <1>0, <1>3, <1>4, NothingDecided

(* A projection is of an intent that was requested.                         *)
LEMMA ProjectionStepsInTurn ==
    ASSUME PlannerInv, InTurnInv, ProjectionSteps
    PROVE  InTurnInv'
  <1>0. PlannerTypes /\ ProjectionsKnown /\ ProcessShape(process) BY DEF PlannerInv, InTurnInv
  <1>1. PICK p \in PlannerProjectors :
           \/ \E i \in Intents : BeginProjection(p, i)
           \/ RecordDecision(p) \/ ReadForStale(p) \/ EmitStaleDecision(p) \/ FinishProjection(p)
           \/ ProjectionStops(p)
    BY DEF ProjectionSteps
  <1>2. ProcessGoesOn
    <2>1. process' = process \/ process' = Fact(process)
      BY <1>1 DEF BeginProjection, RecordDecision, ReadForStale, EmitStaleDecision,
                  FinishProjection, ProjectionStops
    <2>2. ProcessShape(Fact(process)) /\ Fact(process).cursor = process.cursor + 1
      BY <1>0, FactMoves
    <2> QED BY <1>0, <2>1, <2>2 DEF ProcessGoesOn, ProcessShape
  <1>3. CASE \E i \in Intents : BeginProjection(p, i)
    <2>1. PICK i \in Intents : BeginProjection(p, i) BY <1>3
    <2>2. /\ intent[i].status \in IntentOpen /\ intent[i].run \in RunEnded /\ UNCHANGED decision
          /\ intent' = intent \/ \E status \in RunEnded \cup {"rejected"} : intent' = Ended(i, status)
      BY <2>1 DEF BeginProjection, FinishIntent
    <2>3. IntentsStand
      <3>1. CASE intent' = intent BY <3>1 DEF IntentsStand
      <3>2. CASE \E status \in RunEnded \cup {"rejected"} : intent' = Ended(i, status)
        BY <1>0, <3>2, EndedStands DEF RunEnded
      <3> QED BY <2>2, <3>1, <3>2
    <2>4. intent[i].status # "none" BY <2>2 DEF IntentOpen
    <2>5. \A q \in PlannerProjectors :
              planProjector'[q] = planProjector[q] \/ planProjector'[q].of = i
      <3>1. \/ planProjector' = planProjector
            \/ planProjector' = [planProjector EXCEPT ![p] =
                  [step |-> "record", of |-> i, graph |-> GraphSnapshot, cursor |-> 0]]
        BY <2>1 DEF BeginProjection
      <3> QED BY <1>0, <3>1 DEF ProjectionsKnown
    <2>6. \A q \in PlannerProjectors :
              planProjector'[q].step # "idle" => intent'[planProjector'[q].of].status # "none"
      BY <1>0, <2>3, <2>4, <2>5 DEF InTurnInv, IntentsStand, ProjectionsKnown
    <2>7. AppliedStands BY <2>2 DEF AppliedStands
    <2>8. \A j \in Intents : decision'[j].status # "none" => intent'[j].status # "none"
      BY <2>2, <2>3 DEF InTurnInv, IntentsStand
    <2> QED BY <1>2, <2>3, <2>6, <2>7, <2>8, NothingApplied
  <1>4. CASE RecordDecision(p) \/ ReadForStale(p) \/ EmitStaleDecision(p) \/ FinishProjection(p)
             \/ ProjectionStops(p)
    <2> PICK i : i = planProjector[p].of OBVIOUS
    <2>1. i \in Intents /\ intent[i].status # "none"
      <3>1. planProjector[p].step # "idle"
        BY <1>4 DEF RecordDecision, ReadForStale, EmitStaleDecision, FinishProjection, ProjectionStops
      <3> QED BY <1>0, <3>1 DEF ProjectionsKnown, InTurnInv
    <2>2. IntentsStand
      <3>1. intent' = intent \/ \E status \in {"stale", "projected"} : intent' = Ended(i, status)
        BY <1>4 DEF RecordDecision, ReadForStale, EmitStaleDecision, FinishProjection,
                    ProjectionStops, FinishIntent
      <3>2. CASE intent' = intent BY <3>2 DEF IntentsStand
      <3>3. CASE \E status \in {"stale", "projected"} : intent' = Ended(i, status)
        BY <1>0, <2>1, <3>3, EndedStands
      <3> QED BY <3>1, <3>2, <3>3
    <2>3. \A q \in PlannerProjectors :
              planProjector'[q].step # "idle" =>
                  planProjector[q].step # "idle" /\ planProjector'[q].of = planProjector[q].of
      <3>1. planProjector[p].step # "idle"
        BY <1>4 DEF RecordDecision, ReadForStale, EmitStaleDecision, FinishProjection, ProjectionStops
      <3>2. \/ planProjector' = [planProjector EXCEPT ![p] = NoProjection]
            \/ \E step : planProjector' = [planProjector EXCEPT ![p].step = step]
            \/ \E step, cursor :
                  planProjector' = [planProjector EXCEPT ![p].step = step, ![p].cursor = cursor]
        BY <1>4 DEF RecordDecision, ReadForStale, EmitStaleDecision, FinishProjection,
                    ProjectionStops, ProjectorGoesOn, ProjectorStopped
      <3>3. planProjector[p] \in [step : {planProjector[p].step}, of : {i},
               graph : {planProjector[p].graph}, cursor : {planProjector[p].cursor}]
        BY <1>0 DEF ProjectionsKnown
      <3>4. \A q \in PlannerProjectors : q # p => planProjector'[q] = planProjector[q]
        BY <1>0, <3>2 DEF ProjectionsKnown
      <3>5. planProjector'[p].step = "idle" \/ planProjector'[p].of = i
        <4>1. CASE planProjector' = [planProjector EXCEPT ![p] = NoProjection]
          BY <1>0, <4>1 DEF ProjectionsKnown, NoProjection
        <4>2. CASE \E step : planProjector' = [planProjector EXCEPT ![p].step = step]
          BY <1>0, <3>3, <4>2 DEF ProjectionsKnown
        <4>3. CASE \E step, cursor :
                     planProjector' = [planProjector EXCEPT ![p].step = step, ![p].cursor = cursor]
          BY <1>0, <3>3, <4>3 DEF ProjectionsKnown
        <4> QED BY <3>2, <4>1, <4>2, <4>3
      <3> QED BY <3>1, <3>4, <3>5
    <2>4. \A q \in PlannerProjectors :
              planProjector'[q].step # "idle" => intent'[planProjector'[q].of].status # "none"
      BY <1>0, <2>2, <2>3 DEF InTurnInv, IntentsStand, ProjectionsKnown
    <2>5. \A j \in Intents :
              decision'[j] = decision[j]
              \/ (j = i /\ decision[j].status = "none" /\ decision'[j].status \in {"stale", "pending"})
      <3>1. \/ decision' = decision
            \/ /\ decision[i].status = "none"
               /\ \E status \in {"stale", "pending"} :
                     decision' = [decision EXCEPT ![i] = [status |-> status, batch |-> Recorded(p)]]
        BY <1>4 DEF RecordDecision, ReadForStale, EmitStaleDecision, FinishProjection, ProjectionStops
      <3> QED BY <1>0, <2>1, <3>1 DEF PlannerTypes
    <2>6. AppliedStands BY <2>5 DEF AppliedStands
    <2>7. \A j \in Intents : decision'[j].status # "none" => intent'[j].status # "none"
      BY <2>1, <2>2, <2>5 DEF InTurnInv, IntentsStand
    <2> QED BY <1>2, <2>2, <2>4, <2>6, <2>7, NothingApplied
  <1> QED BY <1>1, <1>3, <1>4

(* What is applied was planned for the state it moves on, which no batch    *)
(* applied before was.                                                      *)
LEMMA ConsumeAppliedInTurn ==
    ASSUME PlannerInv, InTurnInv, ConsumeApplied
    PROVE  InTurnInv'
  <1> PICK c : c = consumer.of OBVIOUS
  <1>0. PlannerTypes /\ ProjectionsKnown /\ ProcessShape(process) /\ consumer.of # Unset
    BY DEF PlannerInv, InTurnInv, ConsumeApplied, Consumable
  <1>1. c \in Intents /\ decision[c].status = "pending" BY <1>0, ConsumedBatch
  <1>2. intent[c].status # "none" BY <1>1 DEF InTurnInv
  <1>3. /\ process.status # "terminal" /\ process.cursor = intent[c].cursor
        /\ decision' = [decision EXCEPT ![c].status = "applied"] /\ UNCHANGED planProjector
    BY DEF ConsumeApplied, Consumable, SnapshotUnmoved, ConsumedAs
  <1>4. /\ decision'[c].status = "applied"
        /\ \A j \in Intents : j # c => decision'[j] = decision[j]
    <2>1. DecisionShape(decision[c]) BY <1>0, <1>1 DEF PlannerTypes
    <2>2. decision'[c] = [decision[c] EXCEPT !.status = "applied"]
          /\ \A j \in Intents : j # c => decision'[j] = decision[j]
      BY <1>0, <1>1, <1>3 DEF PlannerTypes
    <2> QED BY <2>1, <2>2 DEF DecisionShape
  <1>5. ProcessGoesOn /\ process'.cursor > process.cursor
    <2>1. PICK proc : /\ proc = IF Batch.controls > 0 THEN WithControl(process) ELSE process
                      /\ ConsumedAs(c, "applied", proc)
      BY DEF ConsumeApplied
    <2>2. proc \in {process, WithControl(process)} BY <2>1
    <2>3. proc.status # "terminal"
      <3>1. WithControl(process).status = "human" BY <1>0 DEF ProcessShape, WithControl, Fact
      <3> QED BY <1>3, <2>2, <3>1
    <2> QED BY <1>0, <2>1, <2>2, <2>3, ConsumedMoves
  <1>6. IntentsStand
    <2>1. CASE intent' = intent BY <2>1 DEF IntentsStand
    <2>2. CASE Batch.replans > 0
      <3>0. PICK cursor, graph : intent' \in Replanned(cursor, graph) BY <2>2 DEF ConsumeApplied
      <3>1. PICK j \in Intents : /\ intent[j].status = "none"
                                 /\ intent' = [intent EXCEPT ![j] = NewIntent(cursor, graph)]
        BY <3>0 DEF Replanned
      <3>2. PICK row : row = NewIntent(cursor, graph) OBVIOUS
      <3>3. row.status # "none" BY <3>2 DEF NewIntent, NoIntent
      <3> QED BY <1>0, <3>1, <3>2, <3>3, WrittenStands
    <2> QED BY <2>1, <2>2 DEF ConsumeApplied
  <1>7. process.cursor \in Nat /\ process'.cursor \in Nat
    BY <1>0, <1>5 DEF ProcessGoesOn, ProcessShape
  <1>8. intent'[c].cursor = process.cursor BY <1>1, <1>2, <1>3, <1>6 DEF IntentsStand
  <1>9. ASSUME NEW i \in Intents, i # c, decision'[i].status = "applied"
        PROVE  /\ decision[i].status = "applied" /\ intent'[i].cursor = intent[i].cursor
               /\ intent[i].cursor \in Nat /\ intent[i].cursor < process.cursor
    BY <1>4, <1>6, <1>9 DEF InTurnInv, IntentsStand
  <1>10. \A i \in Intents : decision'[i].status = "applied" =>
             intent'[i].cursor \in Nat /\ intent'[i].cursor < process'.cursor
    BY <1>5, <1>7, <1>8, <1>9
  <1>11. AppliedInTurn'
    <2> SUFFICES ASSUME NEW i \in Intents, NEW j \in Intents, i # j,
                        decision'[i].status = "applied", decision'[j].status = "applied"
                 PROVE  intent'[i].cursor # intent'[j].cursor
      BY DEF AppliedInTurn
    <2>1. CASE i = c BY <1>7, <1>8, <1>9, <2>1
    <2>2. CASE j = c BY <1>7, <1>8, <1>9, <2>2
    <2>3. CASE i # c /\ j # c BY <1>9, <2>3 DEF InTurnInv, AppliedInTurn
    <2> QED BY <2>1, <2>2, <2>3
  <1>12. \A i \in Intents : decision'[i].status # "none" => intent'[i].status # "none"
    BY <1>2, <1>4, <1>6 DEF InTurnInv, IntentsStand
  <1>13. \A p \in PlannerProjectors :
             planProjector'[p].step # "idle" => intent'[planProjector'[p].of].status # "none"
    BY <1>0, <1>3, <1>6 DEF InTurnInv, IntentsStand, ProjectionsKnown
  <1> QED BY <1>5, <1>10, <1>11, <1>12, <1>13 DEF InTurnInv, ProcessGoesOn

(* A consumer applies a batch in its turn, or none.                         *)
LEMMA ConsumerStepsInTurn ==
    ASSUME PlannerInv, InTurnInv, ConsumerSteps
    PROVE  InTurnInv'
  <1>0. PlannerTypes /\ ProjectionsKnown /\ ProcessShape(process) BY DEF PlannerInv, InTurnInv
  <1>1. CASE (\E i \in Intents : BeginConsume(i)) \/ ConsumerStops
    <2>1. UNCHANGED <<process, intent, decision, planProjector>>
      BY <1>1 DEF BeginConsume, ConsumerStops
    <2>2. ProcessGoesOn BY <1>0, <2>1 DEF ProcessGoesOn, ProcessShape
    <2>3. IntentsStand BY <2>1 DEF IntentsStand
    <2> QED BY <1>0, <2>1, <2>2, <2>3, NothingDecided
  <1>2. CASE ConsumeStale \/ ConsumeRejected \/ ConsumeOverBudget \/ ConsumeFails
    <2> PICK c : c = consumer.of OBVIOUS
    <2>1. consumer.of # Unset /\ UNCHANGED <<intent, planProjector>>
      BY <1>2 DEF ConsumeStale, ConsumeRejected, ConsumeOverBudget, ConsumeFails, Consumable
    <2>2. PICK status \in {"stale", "rejected"},
               proc \in {process, Fact(process), WithControl(process)} : ConsumedAs(c, status, proc)
      BY <1>2 DEF ConsumeStale, ConsumeRejected, ConsumeOverBudget, ConsumeFails
    <2>3. c \in Intents /\ decision[c].status = "pending" BY <2>1, ConsumedBatch
    <2>4. decision' = [decision EXCEPT ![c].status = status] BY <2>2 DEF ConsumedAs
    <2>5. DecisionShape(decision[c]) BY <1>0, <2>3 DEF PlannerTypes
    <2>6. decision'[c].status = status /\ \A j \in Intents : j # c => decision'[j] = decision[j]
      <3>1. decision'[c] = [decision[c] EXCEPT !.status = status]
            /\ \A j \in Intents : j # c => decision'[j] = decision[j]
        BY <1>0, <2>3, <2>4 DEF PlannerTypes
      <3> QED BY <2>5, <3>1 DEF DecisionShape
    <2>7. AppliedStands BY <2>3, <2>6 DEF AppliedStands
    <2>8. ProcessGoesOn BY <1>0, <2>2, ConsumedMoves
    <2>9. IntentsStand BY <2>1 DEF IntentsStand
    <2>10. \A j \in Intents : decision'[j].status # "none" => intent'[j].status # "none"
      BY <2>1, <2>3, <2>6 DEF InTurnInv
    <2>11. \A p \in PlannerProjectors :
               planProjector'[p].step # "idle" => intent'[planProjector'[p].of].status # "none"
      BY <2>1 DEF InTurnInv
    <2> QED BY <2>7, <2>8, <2>9, <2>10, <2>11, NothingApplied
  <1> QED BY <1>1, <1>2, ConsumeAppliedInTurn DEF ConsumerSteps

(* The turns are kept, whoever plans or approves meanwhile.                 *)
LEMMA InTurnKeeps ==
    ASSUME PlannerInv, InTurnInv, [OrchestrationNext]_orchestrationVars
    PROVE  InTurnInv'
  <1>1. CASE PlannerNext
    BY <1>1, ProcessStepsInTurn, IntentStepsInTurn, ProjectionStepsInTurn, ConsumerStepsInTurn
    DEF PlannerNext
  <1>2. CASE UNCHANGED plannerVars \/ UNCHANGED orchestrationVars
    <2>1. UNCHANGED <<process, intent, decision, planProjector>>
      BY <1>2 DEF plannerVars, orchestrationVars
    <2>2. ProcessGoesOn BY <2>1 DEF InTurnInv, ProcessGoesOn, ProcessShape
    <2>3. IntentsStand BY <2>1 DEF IntentsStand
    <2> QED BY <2>1, <2>2, <2>3, NothingDecided DEF PlannerInv
  <1> QED BY <1>1, <1>2 DEF OrchestrationNext

(* Nothing is applied at first.                                             *)
LEMMA InTurnStarts ==
    ASSUME OrchestrationInit
    PROVE  InTurnInv
  <1> USE DEF OrchestrationInit, PlannerInit
  <1>1. ProcessShape(process) BY DEF ProcessShape
  <1>2. \A i \in Intents : decision[i].status = "none" BY DEF NoDecision
  <1>3. \A p \in PlannerProjectors : planProjector[p].step = "idle" BY DEF NoProjection
  <1> QED BY <1>1, <1>2, <1>3 DEF InTurnInv, AppliedInTurn

(* Work enters the project whole, however many members approve the plan at  *)
(* the same time, wherever an approval or a consumer stops, and whatever    *)
(* the planner answers meanwhile (approve_plan_draft, consume); and of the  *)
(* batches planned for one state of the process one at most is applied.     *)
THEOREM PlannedWorkEntersWhole == OrchestrationSpec => []PlannedWorkIsWhole
  <1>1. OrchestrationInit => PlanInv /\ PlannerInv /\ InTurnInv
    BY OrchestrationStarts, InTurnStarts
  <1>2. PlanInv /\ PlannerInv /\ InTurnInv /\ [OrchestrationNext]_orchestrationVars =>
            (PlanInv /\ PlannerInv /\ InTurnInv)'
    BY OrchestrationKeeps, InTurnKeeps
  <1>3. ASSUME PlanInv, PlannerInv, InTurnInv PROVE PlannedWorkIsWhole
    <2>1. PlanTypeOK /\ ApprovedOnce /\ ApprovedPlanIsMaterialized
      BY <1>3, PlannerParameters
      DEF PlanTypeOK, ApprovedOnce, PlanInv, PlanRowTypes, AnnouncedOnce, PlannerInv, PlannerTypes
    <2>2. GeneratedWithinPolicy
      <3>1. /\ Cardinality(Generated) \in Nat /\ Cardinality(Replans) \in Nat
            /\ Cardinality(Generated) <= usage.tasks /\ Cardinality(Replans) <= usage.replans
        BY <1>3, FS_CardinalityType DEF PlannerInv, WithinUsage
      <3>2. usage.tasks \in 0 .. MaxTasks /\ usage.replans \in 0 .. MaxReplans
        BY <1>3 DEF PlannerInv, PlannerTypes
      <3>3. MaxTasks \in Nat /\ MaxReplans \in Nat BY PlannerParameters
      <3>4. Cardinality(Generated) <= MaxTasks /\ Cardinality(Replans) <= MaxReplans
        BY <3>1, <3>2, <3>3
      <3> QED BY <3>4 DEF GeneratedWithinPolicy, Generated, Replans
    <2> QED BY <1>3, <2>1, <2>2 DEF PlannedWorkIsWhole, PlannerInv, InTurnInv
  <1> QED BY <1>1, <1>2, <1>3, PTL DEF OrchestrationSpec

-----------------------------------------------------------------------------
(* Completion                                                               *)

Contract ==
    [status : {"DRAFT", "APPROVED"}, required : (SUBSET Deciders) \ {{}}, goal : RootGoals]

DeliveryRow ==
    [status : {"READY", "ACCEPTED", "REJECTED"}, version : Nat, pin : Nat,
     decision : [Deciders -> [what : {"none", "ACCEPT", "REJECT"}, under : Nat]]]

(* Types, and what is shown is not newer than what is there.                *)
CompletionTypes ==
    /\ stage \in [phase : {"work", "DELIVERY", "TERMINAL"}, version : Nat]
    /\ rootGoal \in RootGoals \cup {NoGoal}
    /\ terms \in Seq(Contract)
    /\ deliveries \in Seq(DeliveryRow)
    /\ enabled \subseteq Deciders
    /\ shown \in [Deciders -> [process : Nat, terms : Nat, delivery : Nat]]
    /\ \A p \in Deciders : shown[p].process <= stage.version /\ shown[p].terms <= Len(terms)

(* Only the newest delivery waits or is accepted, as the phase says.        *)
DeliveriesFollowPhase ==
    /\ stage.phase # "work" => Len(deliveries) > 0
    /\ \A d \in DOMAIN deliveries :
          /\ deliveries[d].status = "READY" <=> d = Len(deliveries) /\ stage.phase = "DELIVERY"
          /\ deliveries[d].status = "ACCEPTED" <=> d = Len(deliveries) /\ stage.phase = "TERMINAL"

(* Whoever has decided was asked by the approved contract of the delivery,  *)
(* and only a rejected delivery has a rejection.                            *)
DecidedUnder(row) ==
    /\ row.pin \in 0 .. Len(terms)
    /\ \A p \in Deciders :
          \/ row.decision[p] = Undecided
          \/ /\ row.pin \in Approved
             /\ row.decision[p].under = row.pin
             /\ p \in terms[row.pin].required
             /\ row.decision[p].what \in {"ACCEPT", "REJECT"}
             /\ row.status # "REJECTED" => row.decision[p].what = "ACCEPT"

DecisionsFollowContract == \A d \in DOMAIN deliveries : DecidedUnder(deliveries[d])

(* The contract of a delivery that stands and has been decided on is in     *)
(* effect; an accepted one was accepted by everyone it asks.                *)
StandingIsInEffect ==
    \A d \in DOMAIN deliveries :
        /\ deliveries[d].status = "READY" /\ Decided(d) =>
              InEffect(deliveries[d].pin) /\ rootGoal = terms[deliveries[d].pin].goal
        /\ deliveries[d].status = "ACCEPTED" =>
              /\ InEffect(deliveries[d].pin)
              /\ \A p \in terms[deliveries[d].pin].required :
                    deliveries[d].decision[p].what = "ACCEPT"

CompletionInv ==
    CompletionTypes /\ DeliveriesFollowPhase /\ DecisionsFollowContract /\ StandingIsInEffect

(* Everyone is enabled; no goal, contract or delivery is there at first.    *)
LEMMA CompletionInvInit == CompletionInit => CompletionInv
  BY CompletionAssumption
  DEF CompletionInit, CompletionInv, CompletionTypes, DeliveriesFollowPhase,
      DecisionsFollowContract, DecidedUnder, StandingIsInEffect, Contract, DeliveryRow

(* Deliveries and contracts are as they were; the project around them is not. *)
LEMMA CompletionQuiet ==
    ASSUME CompletionInv, UNCHANGED <<stage, rootGoal, terms, deliveries>>,
           enabled' \subseteq Deciders,
           shown' \in [Deciders -> [process : Nat, terms : Nat, delivery : Nat]],
           \A p \in Deciders : shown'[p].process <= stage.version /\ shown'[p].terms <= Len(terms)
    PROVE  CompletionInv'
  BY DEF CompletionInv, CompletionTypes, DeliveriesFollowPhase, DecisionsFollowContract, DecidedUnder,
         StandingIsInEffect, Approved, InEffect, Decided

(* The last delivery is a row of the deliveries, and its version a number.  *)
LEMMA LatestRow ==
    ASSUME CompletionTypes
    PROVE  /\ DeliveryVersion \in Nat
           /\ Latest \in Nat
           /\ deliveries # <<>> => Latest \in DOMAIN deliveries /\ deliveries[Latest] \in DeliveryRow
  <1>1. deliveries \in Seq(DeliveryRow) BY DEF CompletionTypes
  <1>2. Latest \in Nat BY <1>1 DEF Latest
  <1>3. deliveries # <<>> => Latest \in DOMAIN deliveries /\ deliveries[Latest] \in DeliveryRow
    BY <1>1 DEF Latest
  <1>4. deliveries # <<>> => deliveries[Latest].version \in Nat
    BY <1>3 DEF DeliveryRow
  <1> QED BY <1>2, <1>3, <1>4 DEF DeliveryVersion

(* A decider is shown the versions of the moment.                           *)
LEMMA ShowKeeps ==
    ASSUME CompletionInv, NEW p \in Deciders, Show(p)
    PROVE  CompletionInv'
  <1>1. DeliveryVersion \in Nat
    BY LatestRow DEF CompletionInv
  <1>2. [process |-> stage.version, terms |-> Len(terms), delivery |-> DeliveryVersion]
          \in [process : Nat, terms : Nat, delivery : Nat]
    BY <1>1 DEF CompletionInv, CompletionTypes
  <1>3. stage.version <= stage.version /\ Len(terms) <= Len(terms)
    BY DEF CompletionInv, CompletionTypes
  <1>4. /\ shown' \in [Deciders -> [process : Nat, terms : Nat, delivery : Nat]]
        /\ \A q \in Deciders : shown'[q].process <= stage.version /\ shown'[q].terms <= Len(terms)
    BY <1>2, <1>3 DEF Show, CompletionInv, CompletionTypes
  <1> QED BY <1>4, CompletionQuiet DEF Show, CompletionInv, CompletionTypes

(* A further draft changes nothing about the contracts there are.           *)
LEMMA ProposeKeeps ==
    ASSUME CompletionInv, NEW p \in Deciders, NEW required \in (SUBSET Deciders) \ {{}},
           NEW g \in RootGoals, ProposeContract(p, required, g)
    PROVE  CompletionInv'
  <1> DEFINE c == [status |-> "DRAFT", required |-> required, goal |-> g]
  <1>1. c \in Contract BY DEF Contract
  <1>2. /\ terms' \in Seq(Contract) /\ Len(terms') = Len(terms) + 1
        /\ DOMAIN terms' = DOMAIN terms \cup {Len(terms) + 1}
        /\ \A i \in DOMAIN terms : terms'[i] = terms[i]
        /\ terms'[Len(terms) + 1].status = "DRAFT"
    BY <1>1 DEF ProposeContract, CompletionInv, CompletionTypes
  <1>3. Approved' = Approved BY <1>2 DEF Approved
  <1>4. Approved \subseteq DOMAIN terms BY DEF Approved
  <1>5. UNCHANGED <<stage, rootGoal, deliveries, enabled, shown>> BY DEF ProposeContract
  <1>6. CompletionTypes'
    BY <1>2, <1>5 DEF CompletionInv, CompletionTypes
  <1>7. DeliveriesFollowPhase' BY <1>5 DEF CompletionInv, DeliveriesFollowPhase
  <1>8. DecisionsFollowContract'
    <2>1. Len(terms) \in Nat BY DEF CompletionInv, CompletionTypes
    <2>2. 0 .. Len(terms) \subseteq 0 .. Len(terms') BY <2>1, <1>2
    <2>3. ASSUME NEW d \in DOMAIN deliveries PROVE DecidedUnder(deliveries[d])'
      <3>1. DecidedUnder(deliveries[d]) BY DEF CompletionInv, DecisionsFollowContract
      <3> QED BY <3>1, <2>2, <1>2, <1>3, <1>4, <1>5 DEF DecidedUnder
    <2> QED BY <2>3, <1>5 DEF DecisionsFollowContract
  <1>9. StandingIsInEffect'
    BY <1>2, <1>3, <1>4, <1>5 DEF CompletionInv, StandingIsInEffect, InEffect, Decided
  <1> QED BY <1>6, <1>7, <1>8, <1>9 DEF CompletionInv

(* A contract is approved only while no decided delivery stands.            *)
LEMMA ApproveKeeps ==
    ASSUME CompletionInv, NEW p \in Deciders, ApproveContract(p)
    PROVE  CompletionInv'
  <1> DEFINE c == Len(terms)
  <1>1. /\ c \in DOMAIN terms /\ terms[c].status = "DRAFT" /\ ~Pinned
        /\ stage.phase # "TERMINAL"
        /\ rootGoal' = terms[c].goal
        /\ terms' = [terms EXCEPT ![c].status = "APPROVED"]
        /\ UNCHANGED <<stage, deliveries, enabled, shown>>
    BY DEF ApproveContract, Mutable, CompletionInv, CompletionTypes
  <1>2. /\ terms' \in Seq(Contract) /\ Len(terms') = Len(terms)
        /\ DOMAIN terms' = DOMAIN terms
        /\ \A i \in DOMAIN terms : /\ terms'[i].required = terms[i].required
                                   /\ terms[i].status = "APPROVED" => terms'[i] = terms[i]
    <2> DEFINE row == [terms[c] EXCEPT !.status = "APPROVED"]
    <2>1. terms \in Seq(Contract) BY DEF CompletionInv, CompletionTypes
    <2>2. terms[c] \in Contract BY <2>1, <1>1
    <2>3. row \in Contract /\ row.required = terms[c].required
      BY <2>2 DEF Contract
    <2>4. terms' = [terms EXCEPT ![c] = row] BY <1>1
    <2>5. /\ terms' \in Seq(Contract) /\ Len(terms') = Len(terms)
          /\ DOMAIN terms' = DOMAIN terms
          /\ terms'[c] = row
          /\ \A i \in DOMAIN terms : i # c => terms'[i] = terms[i]
      <3> HIDE DEF row
      <3> QED BY <2>1, <2>3, <2>4, <1>1
    <2> QED BY <2>3, <2>5, <1>1
  <1>3. Approved \subseteq Approved' BY <1>2 DEF Approved
  <1>4. CompletionTypes'
    <2>1. terms[c].goal \in RootGoals
      <3>1. terms[c] \in Contract BY <1>1 DEF CompletionInv, CompletionTypes
      <3> QED BY <3>1 DEF Contract
    <2> QED BY <1>1, <1>2, <2>1 DEF CompletionInv, CompletionTypes
  <1>5. DeliveriesFollowPhase' BY <1>1 DEF CompletionInv, DeliveriesFollowPhase
  <1>6. DecisionsFollowContract'
    BY <1>1, <1>2, <1>3 DEF CompletionInv, CompletionTypes, DecisionsFollowContract, DecidedUnder, Approved
  <1>7. \A d \in DOMAIN deliveries : deliveries[d].status # "ACCEPTED"
    BY <1>1 DEF CompletionInv, DeliveriesFollowPhase
  <1>8. StandingIsInEffect'
    BY <1>1, <1>7 DEF StandingIsInEffect, Pinned, Decided
  <1> QED BY <1>4, <1>5, <1>6, <1>8 DEF CompletionInv

(* A delivery is added, without a decision.                                 *)
LEMMA DeliverKeeps ==
    ASSUME CompletionInv, Deliver
    PROVE  CompletionInv'
  <1> DEFINE row == [status |-> "READY", version |-> DeliveryVersion + 1, pin |-> 0,
                     decision |-> [p \in Deciders |-> Undecided]]
  <1>1. row \in DeliveryRow
    BY LatestRow DEF CompletionInv, DeliveryRow, Undecided
  <1>2. /\ deliveries' \in Seq(DeliveryRow) /\ Len(deliveries') = Len(deliveries) + 1
        /\ DOMAIN deliveries' = DOMAIN deliveries \cup {Len(deliveries) + 1}
        /\ \A i \in DOMAIN deliveries : deliveries'[i] = deliveries[i] /\ i <= Len(deliveries)
        /\ deliveries'[Len(deliveries) + 1] = row
    BY <1>1 DEF Deliver, CompletionInv, CompletionTypes
  <1>3. /\ stage.phase = "work" /\ stage'.phase = "DELIVERY"
        /\ stage' \in [phase : {"work", "DELIVERY", "TERMINAL"}, version : Nat]
        /\ stage'.version = stage.version + 1
        /\ UNCHANGED <<rootGoal, terms, enabled, shown>>
    BY DEF Deliver, Moved, CompletionInv, CompletionTypes
  <1>4. \A i \in DOMAIN deliveries : deliveries[i].status \notin {"READY", "ACCEPTED"}
    BY <1>3 DEF CompletionInv, DeliveriesFollowPhase
  <1>5. CompletionTypes' BY <1>2, <1>3 DEF CompletionInv, CompletionTypes
  <1>6. DeliveriesFollowPhase'
    BY <1>2, <1>3, <1>4 DEF CompletionInv, CompletionTypes, DeliveriesFollowPhase
  <1>7. DecisionsFollowContract'
    BY <1>2, <1>3, SMTT(30) DEF CompletionInv, CompletionTypes, DecisionsFollowContract, DecidedUnder, Approved
  <1>8. \A p \in Deciders : deliveries'[Len(deliveries) + 1].decision[p] = Undecided
    BY <1>2
  <1>9. StandingIsInEffect'
    BY <1>2, <1>4, <1>8 DEF StandingIsInEffect, Decided
  <1> QED BY <1>5, <1>6, <1>7, <1>9 DEF CompletionInv

(* What one decision does to the row of the delivery that waits.            *)
DecisionTaken(p, c, what, status) ==
    /\ Latest \in DOMAIN deliveries
    /\ deliveries' \in Seq(DeliveryRow) /\ Len(deliveries') = Len(deliveries)
    /\ DOMAIN deliveries' = DOMAIN deliveries
    /\ \A d \in DOMAIN deliveries : d # Latest => deliveries'[d] = deliveries[d]
    /\ deliveries'[Latest].status = status /\ deliveries'[Latest].pin = c
    /\ deliveries'[Latest].decision[p] = [what |-> what, under |-> c]
    /\ \A q \in Deciders : q # p =>
          deliveries'[Latest].decision[q] = deliveries[Latest].decision[q]

(* What a decision makes of the delivery it is about.                       *)
LEMMA DecisionRow ==
    ASSUME CompletionInv, NEW p \in Deciders, NEW c \in DOMAIN terms, MayDecide(p, c),
           NEW what \in {"ACCEPT", "REJECT"}, NEW status \in {"READY", "ACCEPTED", "REJECTED"},
           Decision(p, c, what, status)
    PROVE  DecisionTaken(p, c, what, status)
  <1> DEFINE old == deliveries[Latest]
             row == [status |-> status, version |-> old.version + 1, pin |-> c,
                     decision |-> [old.decision EXCEPT ![p] = [what |-> what, under |-> c]]]
  <1>1. CompletionTypes /\ Latest > 0 /\ c \in Nat
    BY DEF CompletionInv, CompletionTypes, DeliveriesFollowPhase, MayDecide, Latest
  <1>2. deliveries \in Seq(DeliveryRow) BY <1>1 DEF CompletionTypes
  <1>3. Latest \in DOMAIN deliveries /\ old \in DeliveryRow
    BY <1>1, <1>2 DEF Latest
  <1>4. /\ row \in DeliveryRow /\ row.status = status /\ row.pin = c
        /\ row.decision[p] = [what |-> what, under |-> c]
        /\ \A q \in Deciders : q # p => row.decision[q] = old.decision[q]
    BY <1>1, <1>3 DEF DeliveryRow
  <1>5. deliveries' = [deliveries EXCEPT ![Latest] = row] BY DEF Decision
  <1>6. /\ deliveries' \in Seq(DeliveryRow) /\ Len(deliveries') = Len(deliveries)
        /\ DOMAIN deliveries' = DOMAIN deliveries
        /\ deliveries'[Latest] = row
        /\ \A d \in DOMAIN deliveries : d # Latest => deliveries'[d] = deliveries[d]
    <2> HIDE DEF row
    <2> QED BY <1>2, <1>3, <1>4, <1>5
  <1> QED BY <1>3, <1>4, <1>6 DEF DecisionTaken

(* What the invariant says of the contract a decision is taken under.       *)
LEMMA DecisionContract ==
    ASSUME CompletionInv, NEW p \in Deciders, NEW c \in DOMAIN terms, MayDecide(p, c)
    PROVE  /\ c \in Approved /\ c \in 0 .. Len(terms) /\ c > 0 /\ p \in terms[c].required
           /\ \A q \in Deciders : deliveries[Latest].decision[q] # Undecided =>
                 /\ deliveries[Latest].pin = c
                 /\ deliveries[Latest].decision[q].under = c
                 /\ deliveries[Latest].decision[q].what = "ACCEPT"
                 /\ q \in terms[c].required
  <1>1. c \in Approved /\ c \in 0 .. Len(terms) /\ c > 0 /\ p \in terms[c].required
    BY DEF MayDecide, InEffect, CompletionInv, CompletionTypes
  <1>2. Latest \in DOMAIN deliveries /\ deliveries[Latest].status = "READY"
    BY DEF CompletionInv, CompletionTypes, DeliveriesFollowPhase, MayDecide, Latest
  <1>3. Approved \subseteq DOMAIN terms /\ 0 \notin DOMAIN terms
    BY DEF Approved, CompletionInv, CompletionTypes
  <1> QED BY <1>1, <1>2, <1>3 DEF MayDecide, CompletionInv, DecisionsFollowContract, DecidedUnder

(* Every delivery but the newest is as it was, and the newest one is the    *)
(* decision of one more account.                                            *)
LEMMA DecisionsStillFollow ==
    ASSUME CompletionInv, NEW p \in Deciders, NEW c \in DOMAIN terms, MayDecide(p, c),
           NEW what \in {"ACCEPT", "REJECT"}, NEW status \in {"READY", "ACCEPTED", "REJECTED"},
           Decision(p, c, what, status), UNCHANGED terms,
           what = "REJECT" => status = "REJECTED"
    PROVE  DecisionsFollowContract'
  <1>1. Approved' = Approved BY DEF Approved
  <1>2. ASSUME NEW d \in DOMAIN deliveries, d # Latest
        PROVE  DecidedUnder(deliveries[d])'
    <2>1. deliveries'[d] = deliveries[d] BY <1>2, DecisionRow DEF DecisionTaken
    <2>2. DecidedUnder(deliveries[d]) BY DEF CompletionInv, DecisionsFollowContract
    <2> QED BY <1>1, <2>1, <2>2 DEF DecidedUnder
  <1>3. ASSUME NEW row, row = deliveries'[Latest]
        PROVE  /\ row.pin \in 0 .. Len(terms)
               /\ \A q \in Deciders :
                     \/ row.decision[q] = Undecided
                     \/ /\ row.pin \in Approved
                        /\ row.decision[q].under = row.pin
                        /\ q \in terms[row.pin].required
                        /\ row.decision[q].what \in {"ACCEPT", "REJECT"}
                        /\ row.status # "REJECTED" => row.decision[q].what = "ACCEPT"
    <2>1. /\ row.status = status /\ row.pin = c
          /\ row.decision[p] = [what |-> what, under |-> c]
          /\ \A q \in Deciders : q # p => row.decision[q] = deliveries[Latest].decision[q]
      <3>1. /\ deliveries'[Latest].status = status /\ deliveries'[Latest].pin = c
            /\ deliveries'[Latest].decision[p] = [what |-> what, under |-> c]
            /\ \A q \in Deciders : q # p =>
                  deliveries'[Latest].decision[q] = deliveries[Latest].decision[q]
        <4>1. DecisionTaken(p, c, what, status) BY DecisionRow
        <4> QED BY <4>1 DEF DecisionTaken
      <3> QED BY <3>1, <1>3
    <2>2. /\ c \in Approved /\ c \in 0 .. Len(terms) /\ p \in terms[c].required
          /\ \A q \in Deciders : deliveries[Latest].decision[q] # Undecided =>
                 /\ deliveries[Latest].decision[q].under = c
                 /\ deliveries[Latest].decision[q].what = "ACCEPT"
                 /\ q \in terms[c].required
      BY DecisionContract
    <2> QED BY <2>1, <2>2
  <1>4. \A d \in DOMAIN deliveries' : d = Latest => DecidedUnder(deliveries[d])'
    BY <1>1, <1>3 DEF DecidedUnder
  <1>5. DOMAIN deliveries' = DOMAIN deliveries BY DecisionRow DEF DecisionTaken
  <1> QED BY <1>2, <1>4, <1>5 DEF DecisionsFollowContract

(* Only the latest delivery can be waiting or accepted.                     *)
LEMMA OlderAreRejected ==
    ASSUME CompletionTypes, DeliveriesFollowPhase,
           NEW d \in DOMAIN deliveries, d # Latest
    PROVE  deliveries[d].status = "REJECTED"
  <1>1. deliveries[d] \in DeliveryRow BY DEF CompletionTypes
  <1>2. deliveries[d].status \in {"READY", "ACCEPTED", "REJECTED"} BY <1>1 DEF DeliveryRow
  <1> QED BY <1>2 DEF DeliveriesFollowPhase, Latest

(* An acceptance, and the completion it may conclude.                       *)
LEMMA AcceptKeeps ==
    ASSUME CompletionInv, NEW p \in Deciders, AcceptDelivery(p)
    PROVE  CompletionInv'
  <1>1. PICK c \in DOMAIN terms :
          /\ MayDecide(p, c)
          /\ \/ /\ Unanimous(p, c)
                /\ Decision(p, c, "ACCEPT", "ACCEPTED") /\ stage' = Moved("TERMINAL")
             \/ Decision(p, c, "ACCEPT", "READY") /\ UNCHANGED stage
    BY DEF AcceptDelivery
  <1>2. UNCHANGED <<rootGoal, terms, enabled, shown>> BY DEF AcceptDelivery
  <1>3. Approved' = Approved /\ InEffect(c)' BY <1>1, <1>2 DEF Approved, InEffect, MayDecide
  <1>a. PICK status \in {"READY", "ACCEPTED", "REJECTED"} :
          /\ Decision(p, c, "ACCEPT", status)
          /\ \/ status = "ACCEPTED" /\ Unanimous(p, c) /\ stage' = Moved("TERMINAL")
             \/ status = "READY" /\ UNCHANGED stage
    BY <1>1
  <1>b. /\ Latest \in DOMAIN deliveries
        /\ deliveries' \in Seq(DeliveryRow) /\ Len(deliveries') = Len(deliveries)
        /\ DOMAIN deliveries' = DOMAIN deliveries
        /\ \A d \in DOMAIN deliveries : d # Latest => deliveries'[d] = deliveries[d]
        /\ deliveries'[Latest].status = status /\ deliveries'[Latest].pin = c
        /\ deliveries'[Latest].decision[p] = [what |-> "ACCEPT", under |-> c]
        /\ \A q \in Deciders : q # p =>
              deliveries'[Latest].decision[q] = deliveries[Latest].decision[q]
    <2>1. DecisionTaken(p, c, "ACCEPT", status) BY <1>1, <1>a, DecisionRow
    <2> QED BY <2>1 DEF DecisionTaken
  <1>4. CompletionTypes'
    BY <1>a, <1>b, <1>2 DEF CompletionInv, CompletionTypes, Moved
  <1>5. DecisionsFollowContract' BY <1>1, <1>a, <1>2, DecisionsStillFollow
  <1>6. \A d \in DOMAIN deliveries : d # Latest => deliveries[d].status = "REJECTED"
    BY <1>1, OlderAreRejected DEF CompletionInv
  <1>7. DeliveriesFollowPhase'
    BY <1>1, <1>a, <1>b, <1>6
    DEF CompletionInv, DeliveriesFollowPhase, MayDecide, Latest, Moved
  <1>8. StandingIsInEffect'
    <2>1. \A d \in DOMAIN deliveries' : d # Latest => deliveries'[d].status = "REJECTED"
      BY <1>b, <1>6
    <2>2. deliveries'[Latest].pin = c /\ rootGoal' = terms'[c].goal
      BY <1>1, <1>2, <1>b DEF MayDecide
    <2>3. deliveries'[Latest].status = "ACCEPTED" =>
            \A q \in terms'[c].required : deliveries'[Latest].decision[q].what = "ACCEPT"
      <3>1. terms[c] \in Contract BY DEF CompletionInv, CompletionTypes
      <3>2. terms[c].required \subseteq Deciders BY <3>1 DEF Contract
      <3>3. ASSUME NEW q \in terms[c].required, Unanimous(p, c)
            PROVE  deliveries'[Latest].decision[q].what = "ACCEPT"
        BY <1>b, <3>2, <3>3 DEF Unanimous
      <3> QED BY <1>a, <1>b, <1>2, <3>3
    <2> QED BY <1>3, <2>1, <2>2, <2>3 DEF StandingIsInEffect
  <1> QED BY <1>4, <1>5, <1>7, <1>8 DEF CompletionInv

(* A rejection ends the delivery.                                           *)
LEMMA RejectKeeps ==
    ASSUME CompletionInv, NEW p \in Deciders, RejectDelivery(p)
    PROVE  CompletionInv'
  <1>1. PICK c \in DOMAIN terms : MayDecide(p, c) /\ Decision(p, c, "REJECT", "REJECTED")
    BY DEF RejectDelivery
  <1>2. /\ UNCHANGED <<rootGoal, terms, enabled, shown>>
        /\ stage' = Moved("work")
    BY DEF RejectDelivery
  <1>a. /\ deliveries' \in Seq(DeliveryRow) /\ DOMAIN deliveries' = DOMAIN deliveries
        /\ \A d \in DOMAIN deliveries : d # Latest => deliveries'[d] = deliveries[d]
        /\ deliveries'[Latest].status = "REJECTED" /\ Len(deliveries') = Len(deliveries)
        /\ Latest \in DOMAIN deliveries
    BY <1>1, DecisionRow DEF DecisionTaken
  <1>3. CompletionTypes'
    BY <1>a, <1>2 DEF CompletionInv, CompletionTypes, Moved
  <1>4. DecisionsFollowContract' BY <1>1, <1>2, DecisionsStillFollow
  <1>5. \A d \in DOMAIN deliveries : d # Latest => deliveries[d].status = "REJECTED"
    BY OlderAreRejected DEF CompletionInv
  <1>6. \A d \in DOMAIN deliveries' : deliveries'[d].status = "REJECTED"
    BY <1>a, <1>5
  <1>7. DeliveriesFollowPhase'
    BY <1>2, <1>6, <1>a DEF DeliveriesFollowPhase, Moved, CompletionInv, CompletionTypes
  <1>8. StandingIsInEffect' BY <1>6 DEF StandingIsInEffect
  <1> QED BY <1>3, <1>4, <1>7, <1>8 DEF CompletionInv

(* Every step keeps the invariant.                                          *)
LEMMA CompletionStepKeeps ==
    ASSUME CompletionInv, CompletionNext
    PROVE  CompletionInv'
  <1>1. ASSUME NEW p \in Deciders, Disable(p) PROVE CompletionInv'
    BY <1>1, CompletionQuiet DEF Disable, CompletionInv, CompletionTypes
  <1>2. ASSUME NEW e \in {"met", "unmet", "stale"}, FactsMove(e) PROVE CompletionInv'
    BY <1>2, CompletionQuiet DEF FactsMove, CompletionInv, CompletionTypes
  <1> QED BY <1>1, <1>2, ShowKeeps, ProposeKeeps, ApproveKeeps, DeliverKeeps, AcceptKeeps,
             RejectKeeps DEF CompletionNext

(* A stuttering step keeps the invariant.                                   *)
LEMMA CompletionStutters ==
    ASSUME CompletionInv, UNCHANGED completionVars
    PROVE  CompletionInv'
  BY CompletionQuiet DEF completionVars, CompletionInv, CompletionTypes

(* The invariant says what the run checks.                                  *)
LEMMA CompletionInvImplies ==
    CompletionInv => CompletionTypeOK /\ OneContractPerDelivery /\ OneDeliveryWaits /\ CompletedByAll
  <1> SUFFICES ASSUME CompletionInv
               PROVE  CompletionTypeOK /\ OneContractPerDelivery /\ OneDeliveryWaits /\ CompletedByAll
    OBVIOUS
  <1>1. \A d \in DOMAIN deliveries : deliveries[d] \in DeliveryRow
    BY DEF CompletionInv, CompletionTypes
  <1>2. CompletionTypeOK
    BY <1>1 DEF CompletionInv, CompletionTypes, CompletionTypeOK, DecisionsFollowContract, DecidedUnder,
        DeliveryRow, Contract
  <1>3. OneContractPerDelivery
    BY DEF CompletionInv, DecisionsFollowContract, DecidedUnder, StandingIsInEffect, OneContractPerDelivery,
        Undecided
  <1>4. OneDeliveryWaits
    BY DEF CompletionInv, DeliveriesFollowPhase, OneDeliveryWaits, Latest
  <1>5. ASSUME NEW d \in DOMAIN deliveries, deliveries[d].status = "ACCEPTED"
        PROVE  /\ d = Latest /\ stage.phase = "TERMINAL" /\ InEffect(deliveries[d].pin)
               /\ \A p \in Deciders :
                     deliveries[d].decision[p].what =
                         IF p \in terms[deliveries[d].pin].required THEN "ACCEPT" ELSE "none"
    BY <1>5 DEF CompletionInv, DeliveriesFollowPhase, DecisionsFollowContract, DecidedUnder,
        StandingIsInEffect, Undecided, Latest
  <1>6. CompletedByAll
    BY <1>5 DEF CompletedByAll, CompletionInv, DeliveriesFollowPhase, Latest
  <1> QED BY <1>2, <1>3, <1>4, <1>6

(* The step that completes the project looks at the accounts once more.     *)
LEMMA CompletingStep ==
    ASSUME CompletionInv, [CompletionNext]_completionVars,
           stage.phase # "TERMINAL", stage'.phase = "TERMINAL"
    PROVE  terms[deliveries'[Latest].pin].required \subseteq enabled
  <1>1. PICK p \in Deciders : AcceptDelivery(p)
    <2>1. stage' # stage BY DEF CompletionInv
    <2>2. \A p \in Deciders : ~RejectDelivery(p) BY DEF RejectDelivery, Moved
    <2>3. ~Deliver BY DEF Deliver, Moved
    <2> QED BY <2>1, <2>2, <2>3 DEF CompletionNext, completionVars, Show, ApproveContract,
               Disable, ProposeContract, FactsMove
  <1>2. PICK c \in DOMAIN terms :
          /\ MayDecide(p, c) /\ Conclusive(c) /\ Decision(p, c, "ACCEPT", "ACCEPTED")
    BY <1>1 DEF AcceptDelivery
  <1>3. deliveries'[Latest].pin = c BY <1>2, DecisionRow DEF DecisionTaken
  <1> QED BY <1>2, <1>3 DEF Conclusive

(* A project is completed by everyone the contract in effect names, each    *)
(* still enabled, whatever contracts replace one another, deliveries are    *)
(* rejected and accounts disabled (approve_contract, deliver,               *)
(* accept_delivery, reject_delivery).                                       *)
THEOREM CompletionAgreed == CompletionSpec => CompletionIsAgreed
  <1>1. CompletionSpec => []CompletionInv
    BY CompletionInvInit, CompletionStepKeeps, CompletionStutters, PTL DEF CompletionSpec
  <1>2. CompletionInv => CompletionTypeOK /\ OneContractPerDelivery /\ OneDeliveryWaits
                         /\ CompletedByAll
    BY CompletionInvImplies
  <1>3. CompletionInv /\ [CompletionNext]_completionVars =>
          [stage.phase # "TERMINAL" /\ stage'.phase = "TERMINAL" =>
             terms[deliveries'[Latest].pin].required \subseteq enabled]_completionVars
    BY CompletingStep
  <1> QED BY <1>1, <1>2, <1>3, PTL DEF CompletionSpec, CompletionIsAgreed, CompletedByThePresent

-----------------------------------------------------------------------------
(* Documents                                                                *)

ArtifactsSound ==
    /\ Readable(<<"original">>, Original)
    /\ \A c \in claims : c.request \in manifests

(* The versions are numbered in sequence; each has its draft and its parent. *)
VersionsSound ==
    /\ IsFiniteSet(versions) /\ Numbers = 1..Cardinality(versions)
    /\ \A v, w \in versions : v.number = w.number => v = w
    /\ \A v \in versions : Readable(v.artifact, v.content)
    /\ \A v \in versions : v.number > 1 =>
          \E e \in Edits, u \in versions :
              /\ drafts[e].status = "approved" /\ drafts[e].version = v.number
              /\ drafts[e].source = v.parent /\ u.number = v.parent
              /\ EditsIn(v.content) = EditsIn(u.content) \cup {e}

DraftSound(d) ==
    \/ d = NoDraft
    \/ /\ d \in [status : {"pending", "rejected", "approved"}, source : Numbers, version : Nat]
       /\ d.status = "approved" => d.version \in Numbers

DraftsSound ==
    /\ drafts = [e \in Edits |-> drafts[e]]
    /\ \A e \in Edits : DraftSound(drafts[e])

CodeDraftSound(d, row) ==
    \/ row = NoDraft
    \/ /\ row \in [status : {"pending", "rejected", "applied"}, by : Members \cup {Nobody}]
       /\ row.status = "applied" =>
             /\ Readable(<<"patch", PatchText(d)>>, PatchText(d))
             /\ row.by \in Members /\ d \in scratch[row.by]

CodeSound ==
    /\ scratch \in [Members -> SUBSET Patches]
    /\ codeDrafts = [d \in Patches |-> codeDrafts[d]]
    /\ \A d \in Patches : CodeDraftSound(d, codeDrafts[d])

ApproveCall(c) ==
    /\ c \in [step : {"rendered", "stored", "registered"}, kind : {"approve"},
              draft : {<<"doc", c.edit>>}, edit : Edits, source : {c.source}, number : Nat,
              content : {c.content}]
    /\ drafts[c.edit].status = "pending" /\ drafts[c.edit].source = c.source
    /\ c.number > 1 /\ c.number <= Cardinality(versions) + 1
    /\ \E u \in versions : u.number = c.source
                           /\ EditsIn(c.content) = EditsIn(u.content) \cup {c.edit}

ParseCall(c) ==
    c \in [step : {"rendered", "stored", "registered"}, kind : {"parse"},
           draft : {<<"none">>}, content : {Parsed}]

ApplyCall(p, c) ==
    /\ c \in [step : {"rendered", "stored", "registered", "prepared", "written"}, kind : {"apply"},
              draft : {<<"code", c.patch>>}, patch : Patches, content : {PatchText(c.patch)}]
    /\ codeDrafts[c.patch].status = "pending"
    /\ c.step = "written" => c.patch \in scratch[p]

IdOf(c) == IF c.kind = "apply" THEN <<"patch", c.content>> ELSE <<"doc", c.content>>

ContentKept(c) ==
    /\ c.step \in {"stored", "registered", "prepared", "written"} => c.content \in objects
    /\ c.step \in {"registered", "prepared", "written"} => Readable(IdOf(c), c.content)

CallSound(p, c) ==
    \/ c = NoCall
    \/ (ApproveCall(c) \/ ParseCall(c) \/ ApplyCall(p, c)) /\ ContentKept(c)

Approving(c) == c.step # "none" /\ c.kind = "approve"

Applying(c) == c.step # "none" /\ c.kind = "apply"

LocksHeld ==
    \A p, q \in Members : p # q =>
        /\ Approving(call[p]) /\ Approving(call[q]) => call[p].edit # call[q].edit
        /\ Applying(call[p]) /\ Applying(call[q]) => call[p].patch # call[q].patch

CallsSound ==
    /\ call = [p \in Members |-> call[p]]
    /\ \A p \in Members : CallSound(p, call[p])
    /\ LocksHeld

DocumentsInv ==
    /\ ArtifactsSound /\ VersionsSound /\ DraftsSound /\ CodeSound /\ CallsSound
    /\ derivative = "ready" => Readable(<<"doc", Parsed>>, Parsed)

(* The original is stored and registered; no version, draft or call is      *)
(* there at first.                                                          *)
LEMMA DocumentsInvInit == DocumentsInit => DocumentsInv
  <1> SUFFICES ASSUME DocumentsInit PROVE DocumentsInv OBVIOUS
  <1>1. ArtifactsSound
    BY DEF DocumentsInit, ArtifactsSound, ArtifactsInit, Manifest, Readable
  <1>2. VersionsSound
    <2>1. versions = {} /\ IsFiniteSet(versions) /\ Cardinality(versions) = 0
      BY FS_EmptySet DEF DocumentsInit
    <2>2. Numbers = {} /\ 1..0 = {} BY <2>1 DEF Numbers
    <2> QED BY <2>1, <2>2 DEF VersionsSound
  <1>3. DraftsSound BY DEF DocumentsInit, DraftsSound, DraftSound
  <1>4. CodeSound BY DEF DocumentsInit, CodeSound, CodeDraftSound
  <1>5. CallsSound BY DEF DocumentsInit, CallsSound, CallSound, LocksHeld, NoCall, Approving, Applying
  <1>6. derivative # "ready" BY DEF DocumentsInit
  <1> QED BY <1>1, <1>2, <1>3, <1>4, <1>5, <1>6 DEF DocumentsInv

ArtifactsGrow == objects \subseteq objects' /\ manifests \subseteq manifests'

(* What can be read stays readable: manifests are never withdrawn, objects  *)
(* never overwritten.                                                       *)
LEMMA ReadableStays ==
    ASSUME ArtifactsGrow, NEW id, NEW content, Readable(id, content)
    PROVE  Readable(id, content)'
  BY DEF ArtifactsGrow, Readable

(* The call of another member stays sound while versions and objects only   *)
(* grow.                                                                    *)
LEMMA CallKept ==
    ASSUME ArtifactsGrow, NEW q, NEW c, CallSound(q, c),
           versions \subseteq versions', IsFiniteSet(versions), IsFiniteSet(versions'),
           c # NoCall /\ ApproveCall(c) => drafts'[c.edit] = drafts[c.edit],
           c # NoCall /\ ApplyCall(q, c) => codeDrafts'[c.patch] = codeDrafts[c.patch],
           scratch'[q] = scratch[q]
    PROVE  CallSound(q, c)'
  <1>1. CASE c = NoCall BY <1>1 DEF CallSound
  <1>2. CASE c # NoCall
    <2>1. ContentKept(c)'
      <3>1. ContentKept(c) BY <1>2 DEF CallSound
      <3>2. c.content \in objects => c.content \in objects' BY DEF ArtifactsGrow
      <3>3. Readable(IdOf(c), c.content) => Readable(IdOf(c), c.content)' BY ReadableStays
      <3> QED BY <3>1, <3>2, <3>3 DEF ContentKept, Readable
    <2>2. CASE ApproveCall(c)
      <3>1. /\ Cardinality(versions) <= Cardinality(versions') /\ Cardinality(versions) \in Nat
            /\ Cardinality(versions') \in Nat
        BY FS_Subset, FS_CardinalityType
      <3>2. ApproveCall(c)' BY <1>2, <2>2, <3>1 DEF ApproveCall
      <3> QED BY <2>1, <3>2 DEF CallSound
    <2>3. CASE ParseCall(c) BY <2>1, <2>3 DEF CallSound, ParseCall
    <2>4. CASE ApplyCall(q, c) BY <1>2, <2>1, <2>4 DEF CallSound, ApplyCall
    <2> QED BY <1>2, <2>2, <2>3, <2>4 DEF CallSound
  <1> QED BY <1>1, <1>2

(* A step that changes no call under way.                                    *)
LEMMA CallsStay ==
    ASSUME DocumentsInv, ArtifactsGrow, UNCHANGED <<call, scratch>>,
           versions \subseteq versions', IsFiniteSet(versions'),
           \A p \in Members : call[p] # NoCall =>
              /\ ApproveCall(call[p]) => drafts'[call[p].edit] = drafts[call[p].edit]
              /\ ApplyCall(p, call[p]) => codeDrafts'[call[p].patch] = codeDrafts[call[p].patch]
    PROVE  CallsSound'
  <1>1. ASSUME NEW p \in Members PROVE CallSound(p, call[p])'
    <2>1. PICK c : c = call[p] OBVIOUS
    <2>2. CallSound(p, c) /\ IsFiniteSet(versions) /\ scratch'[p] = scratch[p]
      BY <2>1 DEF DocumentsInv, CallsSound, VersionsSound
    <2>3. CallSound(p, c)' BY <2>1, <2>2, CallKept
    <2>4. call'[p] = c BY <2>1
    <2> QED BY <2>3, <2>4 DEF CallSound, ApproveCall, ParseCall, ApplyCall, ContentKept, Readable
  <1> QED BY <1>1 DEF DocumentsInv, CallsSound, LocksHeld

(* A step of one call.                                                       *)
LEMMA CallsMove ==
    ASSUME DocumentsInv, ArtifactsGrow, NEW p \in Members, NEW c,
           call' = [call EXCEPT ![p] = c], CallSound(p, c)',
           \A q \in Members \ {p} : scratch'[q] = scratch[q],
           versions \subseteq versions', IsFiniteSet(versions'),
           \A q \in Members \ {p} : call[q] # NoCall =>
              /\ ApproveCall(call[q]) => drafts'[call[q].edit] = drafts[call[q].edit]
              /\ ApplyCall(q, call[q]) => codeDrafts'[call[q].patch] = codeDrafts[call[q].patch],
           \A q \in Members \ {p} :
              /\ Approving(c) /\ Approving(call[q]) => c.edit # call[q].edit
              /\ Applying(c) /\ Applying(call[q]) => c.patch # call[q].patch
    PROVE  CallsSound'
  <1>0. \A q \in Members : call'[q] = IF q = p THEN c ELSE call[q] BY DEF DocumentsInv, CallsSound
  <1>1. ASSUME NEW q \in Members PROVE CallSound(q, call[q])'
    <2>1. PICK d : d = call'[q] OBVIOUS
    <2>2. CASE q = p
      <3>1. d = c BY <1>0, <2>1, <2>2
      <3>2. CallSound(q, d)' BY <2>2, <3>1
      <3> QED BY <2>1, <3>2 DEF CallSound, ApproveCall, ParseCall, ApplyCall, ContentKept, Readable
    <2>3. CASE q # p
      <3>1. d = call[q] BY <1>0, <2>1, <2>3
      <3>2. CallSound(q, d) /\ IsFiniteSet(versions) /\ scratch'[q] = scratch[q]
        BY <2>3, <3>1 DEF DocumentsInv, CallsSound, VersionsSound
      <3>3. CallSound(q, d)' BY <2>3, <3>1, <3>2, CallKept
      <3> QED BY <2>1, <3>3 DEF CallSound, ApproveCall, ParseCall, ApplyCall, ContentKept, Readable
    <2> QED BY <2>2, <2>3
  <1>2. LocksHeld' BY <1>0 DEF DocumentsInv, CallsSound, LocksHeld, Approving, Applying
  <1>3. call' = [q \in Members |-> call'[q]] BY <1>0 DEF DocumentsInv, CallsSound
  <1> QED BY <1>1, <1>2, <1>3 DEF CallsSound

(* What the parts of the invariant rest on stays.                            *)
LEMMA ArtifactsStay ==
    ASSUME DocumentsInv, UNCHANGED artifactVars
    PROVE  ArtifactsGrow /\ ArtifactsSound'
  BY DEF artifactVars, ArtifactsGrow, ArtifactsSound, DocumentsInv, Readable

(* A step that adds no version keeps what is said of them.                  *)
LEMMA VersionsStay ==
    ASSUME DocumentsInv, ArtifactsGrow, UNCHANGED versions,
           \A e \in Edits : drafts[e].status = "approved" => drafts'[e] = drafts[e]
    PROVE  VersionsSound' /\ Numbers' = Numbers /\ IsFiniteSet(versions')
  <1>1. \A v \in versions : Readable(v.artifact, v.content)'
    BY ReadableStays DEF DocumentsInv, VersionsSound
  <1>2. VersionsSound /\ Numbers' = Numbers BY DEF DocumentsInv, Numbers
  <1>3. \A v \in versions' : Readable(v.artifact, v.content)' BY <1>1 DEF Readable
  <1>4. \A v \in versions' : v.number > 1 =>
          \E e \in Edits, u \in versions' :
              /\ drafts'[e].status = "approved" /\ drafts'[e].version = v.number
              /\ drafts'[e].source = v.parent /\ u.number = v.parent
              /\ EditsIn(v.content) = EditsIn(u.content) \cup {e}
    <2> TAKE v \in versions'
    <2> HAVE v.number > 1
    <2>1. PICK e \in Edits, u \in versions :
              /\ drafts[e].status = "approved" /\ drafts[e].version = v.number
              /\ drafts[e].source = v.parent /\ u.number = v.parent
              /\ EditsIn(v.content) = EditsIn(u.content) \cup {e}
      BY <1>2 DEF VersionsSound
    <2>2. drafts'[e] = drafts[e] BY <2>1
    <2> QED BY <2>1, <2>2
  <1> QED BY <1>2, <1>3, <1>4 DEF VersionsSound

(* A step that leaves the drafts alone keeps them sound.                    *)
LEMMA DraftsStay ==
    ASSUME DocumentsInv, UNCHANGED drafts, Numbers \subseteq Numbers'
    PROVE  DraftsSound'
  BY DEF DocumentsInv, DraftsSound, DraftSound

(* A step that leaves patches and workspaces alone keeps them sound.        *)
LEMMA CodeStays ==
    ASSUME DocumentsInv, ArtifactsGrow, UNCHANGED <<codeDrafts, scratch>>
    PROVE  CodeSound'
  <1>1. ASSUME NEW d \in Patches, CodeDraftSound(d, codeDrafts[d])
        PROVE  CodeDraftSound(d, codeDrafts[d])'
    <2>1. Readable(<<"patch", PatchText(d)>>, PatchText(d)) =>
            Readable(<<"patch", PatchText(d)>>, PatchText(d))'
      BY ReadableStays
    <2> QED BY <1>1, <2>1 DEF CodeDraftSound, Readable
  <1> QED BY <1>1 DEF DocumentsInv, CodeSound

(* A derivative that is ready stays readable.                               *)
LEMMA DerivativeStays ==
    ASSUME DocumentsInv, ArtifactsGrow, derivative' = derivative \/ derivative' # "ready"
    PROVE  (derivative = "ready" => Readable(<<"doc", Parsed>>, Parsed))'
  <1>1. Readable(<<"doc", Parsed>>, Parsed) => Readable(<<"doc", Parsed>>, Parsed)'
    BY ReadableStays
  <1> QED BY <1>1 DEF DocumentsInv, Readable

(* One draft that is not approved changes, and no approval has it.           *)
DraftChanges ==
    /\ UNCHANGED <<versions, derivative, codeDrafts, scratch, call, artifactVars>>
    /\ DraftsSound'
    /\ \E e \in Edits : /\ drafts[e].status # "approved"
                        /\ \A f \in Edits : f # e => drafts'[f] = drafts[f]
                        /\ \A p \in Members : Approving(call[p]) /\ ApproveCall(call[p]) => call[p].edit # e

(* Routes that leave calls, code and artifacts alone.                        *)
LEMMA DraftStep ==
    ASSUME DocumentsInv,
           \/ \E p \in Members, e \in Edits : RejectChangeDraft(p, e)
           \/ \E e \in Edits, n \in 1..(1 + Cardinality(Edits)) : CreateChangeDraft(e, n)
    PROVE  DocumentsInv'
  <1>1. DraftChanges
    <2>1. ASSUME NEW p \in Members, NEW e \in Edits, RejectChangeDraft(p, e)
          PROVE  DraftChanges
      <3>1. /\ drafts[e].status = "pending" /\ ~LockedDraft(<<"doc", e>>)
            /\ drafts' = [drafts EXCEPT ![e].status = "rejected"]
            /\ UNCHANGED <<versions, derivative, codeDrafts, scratch, call, artifactVars>>
        BY <2>1 DEF RejectChangeDraft
      <3>2. DraftSound(drafts[e]) /\ Numbers' = Numbers
        BY <3>1 DEF DocumentsInv, DraftsSound, Numbers
      <3>3. DraftSound([drafts[e] EXCEPT !.status = "rejected"])
        BY <3>1, <3>2 DEF DraftSound, NoDraft
      <3>4. \A f \in Edits : drafts'[f] = IF f = e THEN [drafts[e] EXCEPT !.status = "rejected"] ELSE drafts[f]
        BY <3>1 DEF DocumentsInv, DraftsSound
      <3>5. DraftsSound' BY <3>1, <3>2, <3>3, <3>4 DEF DocumentsInv, DraftsSound, DraftSound
      <3>6. \A q \in Members : Approving(call[q]) /\ ApproveCall(call[q]) => call[q].edit # e
        BY <3>1 DEF LockedDraft, Approving, ApproveCall
      <3> QED BY <3>1, <3>4, <3>5, <3>6 DEF DraftChanges
    <2>2. ASSUME NEW e \in Edits, NEW n, CreateChangeDraft(e, n)
          PROVE  DraftChanges
      <3> DEFINE new == [status |-> "pending", source |-> n, version |-> 0]
      <3>1. /\ n \in Numbers /\ drafts[e] = NoDraft /\ drafts' = [drafts EXCEPT ![e] = new]
            /\ UNCHANGED <<versions, derivative, codeDrafts, scratch, call, artifactVars>>
        BY <2>2 DEF CreateChangeDraft
      <3>2. DraftSound(new) /\ Numbers' = Numbers /\ drafts[e].status = "absent"
        BY <3>1 DEF DraftSound, Numbers, NoDraft
      <3>4. \A f \in Edits : drafts'[f] = IF f = e THEN new ELSE drafts[f]
        BY <3>1 DEF DocumentsInv, DraftsSound
      <3> HIDE DEF new
      <3>5. DraftsSound' BY <3>1, <3>2, <3>4 DEF DocumentsInv, DraftsSound, DraftSound
      <3>6. \A q \in Members : Approving(call[q]) /\ ApproveCall(call[q]) => call[q].edit # e
        BY <3>2 DEF ApproveCall
      <3> QED BY <3>1, <3>2, <3>4, <3>5, <3>6 DEF DraftChanges
    <2> QED BY <2>1, <2>2
  <1>2. ArtifactsGrow /\ ArtifactsSound' BY <1>1, ArtifactsStay DEF DraftChanges
  <1>3. VersionsSound' /\ IsFiniteSet(versions') BY <1>1, <1>2, VersionsStay DEF DraftChanges
  <1>4. CallsSound'
    <2>1. \A p \in Members : call[p] # NoCall =>
             /\ ApproveCall(call[p]) => drafts'[call[p].edit] = drafts[call[p].edit]
             /\ ApplyCall(p, call[p]) => codeDrafts'[call[p].patch] = codeDrafts[call[p].patch]
      BY <1>1 DEF DraftChanges, Approving, ApproveCall
    <2> QED BY <1>1, <1>2, <1>3, <2>1, CallsStay DEF DraftChanges
  <1>5. CodeSound' BY <1>1, <1>2, CodeStays DEF DraftChanges
  <1> QED BY <1>1, <1>2, <1>3, <1>4, <1>5, DerivativeStays DEF DocumentsInv, DraftChanges

(* The next version keeps the numbers in sequence and leads to its draft.   *)
LEMMA VersionAdded ==
    ASSUME DocumentsInv, ArtifactsGrow, NEW v, v.number = Cardinality(versions) + 1,
           versions' = versions \cup {v}, Readable(v.artifact, v.content)',
           \A e \in Edits : drafts[e].status = "approved" => drafts'[e] = drafts[e],
           v.number > 1 =>
              \E e \in Edits, u \in versions :
                  /\ drafts'[e].status = "approved" /\ drafts'[e].version = v.number
                  /\ drafts'[e].source = v.parent /\ u.number = v.parent
                  /\ EditsIn(v.content) = EditsIn(u.content) \cup {e}
    PROVE  /\ VersionsSound' /\ IsFiniteSet(versions')
           /\ Numbers \subseteq Numbers' /\ v.number \in Numbers'
  <1>0. /\ IsFiniteSet(versions) /\ Numbers = 1..Cardinality(versions)
        /\ \A x, w \in versions : x.number = w.number => x = w
        /\ Cardinality(versions) \in Nat
    BY FS_CardinalityType DEF DocumentsInv, VersionsSound
  <1>1. v.number \notin Numbers BY <1>0
  <1>2. v \notin versions BY <1>1 DEF Numbers
  <1>3. IsFiniteSet(versions') /\ Cardinality(versions') = Cardinality(versions) + 1
    BY <1>0, <1>2, FS_AddElement
  <1>4. Numbers' = Numbers \cup {v.number} BY DEF Numbers
  <1>5. Numbers' = 1..Cardinality(versions') BY <1>0, <1>3, <1>4
  <1>6. \A x, w \in versions' : x.number = w.number => x = w BY <1>0, <1>1 DEF Numbers
  <1>7. \A x \in versions' : Readable(x.artifact, x.content)'
    <2>1. \A x \in versions : Readable(x.artifact, x.content)'
      BY ReadableStays DEF DocumentsInv, VersionsSound
    <2> QED BY <2>1 DEF Readable
  <1>8. \A x \in versions' : x.number > 1 =>
          \E e \in Edits, u \in versions' :
              /\ drafts'[e].status = "approved" /\ drafts'[e].version = x.number
              /\ drafts'[e].source = x.parent /\ u.number = x.parent
              /\ EditsIn(x.content) = EditsIn(u.content) \cup {e}
    <2> TAKE x \in versions'
    <2> HAVE x.number > 1
    <2>1. CASE x = v BY <2>1
    <2>2. CASE x \in versions
      <3>1. PICK e \in Edits, u \in versions :
              /\ drafts[e].status = "approved" /\ drafts[e].version = x.number
              /\ drafts[e].source = x.parent /\ u.number = x.parent
              /\ EditsIn(x.content) = EditsIn(u.content) \cup {e}
        BY <2>2 DEF DocumentsInv, VersionsSound
      <3>2. drafts'[e] = drafts[e] BY <3>1
      <3> QED BY <3>1, <3>2
    <2> QED BY <2>1, <2>2
  <1> QED BY <1>3, <1>4, <1>5, <1>6, <1>7, <1>8 DEF VersionsSound

(* The first version is written.                                            *)
LEMMA InitialStep ==
    ASSUME DocumentsInv, NEW p \in Members, EnsureInitialVersion(p)
    PROVE  DocumentsInv'
  <1> DEFINE v == [number |-> 1, content |-> Original, artifact |-> <<"original">>, parent |-> 0]
  <1>1. /\ 1 \notin Numbers /\ versions' = versions \cup {v}
        /\ UNCHANGED <<drafts, derivative, codeDrafts, scratch, call, artifactVars>>
    BY DEF EnsureInitialVersion
  <1>2. Cardinality(versions) \in Nat /\ Numbers = 1..Cardinality(versions)
    BY FS_CardinalityType DEF DocumentsInv, VersionsSound
  <1>3. Cardinality(versions) = 0 BY <1>1, <1>2
  <1>4. ArtifactsGrow /\ ArtifactsSound' BY <1>1, ArtifactsStay
  <1>5. v.number = 1 /\ v.artifact = <<"original">> /\ v.content = Original OBVIOUS
  <1> HIDE DEF v
  <1>6. Readable(v.artifact, v.content)' BY <1>4, <1>5 DEF ArtifactsSound, Readable
  <1>7. VersionsSound' /\ IsFiniteSet(versions') /\ Numbers \subseteq Numbers'
    BY <1>1, <1>3, <1>4, <1>5, <1>6, VersionAdded
  <1>8. CallsSound' BY <1>1, <1>4, <1>7, CallsStay
  <1> QED BY <1>1, <1>4, <1>7, <1>8, DraftsStay, CodeStays, DerivativeStays DEF DocumentsInv

(* A call opens, goes on or ends, and no row changes.                        *)
LEMMA CallOnly ==
    ASSUME DocumentsInv, NEW p \in Members, NEW c, call' = [call EXCEPT ![p] = c],
           UNCHANGED <<versions, drafts, derivative, codeDrafts, scratch>>,
           ArtifactsGrow, ArtifactsSound', CallSound(p, c)',
           \A q \in Members \ {p} :
              /\ Approving(c) /\ Approving(call[q]) => c.edit # call[q].edit
              /\ Applying(c) /\ Applying(call[q]) => c.patch # call[q].patch
    PROVE  DocumentsInv'
  <1>1. VersionsSound' /\ IsFiniteSet(versions') /\ Numbers' = Numbers BY VersionsStay
  <1>2. CallsSound' BY <1>1, CallsMove
  <1> QED BY <1>1, <1>2, DraftsStay, CodeStays, DerivativeStays DEF DocumentsInv

(* A member without a call has read nothing that could be stale.            *)
LEMMA NoCallIsSound ==
    /\ \A p : CallSound(p, NoCall) /\ CallSound(p, NoCall)'
    /\ ~Approving(NoCall) /\ ~Applying(NoCall)
  BY DEF CallSound, Approving, Applying, NoCall

(* The fields of a call under way.                                           *)
LEMMA CallFacts ==
    ASSUME DocumentsInv, NEW p \in Members, call[p].step # "none"
    PROVE  /\ ContentKept(call[p])
           /\ ApproveCall(call[p]) \/ ParseCall(call[p]) \/ ApplyCall(p, call[p])
           /\ call[p].kind = "approve" => ApproveCall(call[p])
           /\ call[p].kind = "parse" => ParseCall(call[p])
           /\ call[p].kind = "apply" => ApplyCall(p, call[p])
           /\ PublicationOf(p).id = IdOf(call[p])
           /\ call[p].kind = "parse" => call[p].content = Parsed
           /\ ManifestOf(p).id = IdOf(call[p]) /\ ManifestOf(p).content = call[p].content
  <1> DEFINE c == call[p]
  <1>1. ContentKept(c) /\ (ApproveCall(c) \/ ParseCall(c) \/ ApplyCall(p, c))
    BY DEF DocumentsInv, CallsSound, CallSound, NoCall
  <1>2. /\ ApproveCall(c) => c.kind = "approve"
        /\ ParseCall(c) => c.kind = "parse" /\ c.content = Parsed
        /\ ApplyCall(p, c) => c.kind = "apply"
    BY DEF ApproveCall, ParseCall, ApplyCall
  <1>3. PublicationOf(p).id = IdOf(c)
    <2>1. CASE c.kind = "approve" BY <2>1 DEF PublicationOf, IdOf
    <2>2. CASE c.kind = "parse" BY <2>2 DEF PublicationOf, IdOf
    <2>3. CASE c.kind = "apply" BY <2>3 DEF PublicationOf, IdOf
    <2> QED BY <1>1, <1>2, <2>1, <2>2, <2>3
  <1>4. ManifestOf(p).id = IdOf(c) /\ ManifestOf(p).content = c.content
    BY <1>3 DEF ManifestOf, Manifest
  <1> QED BY <1>1, <1>2, <1>3, <1>4

(* A call begins: it reads what it will write later.                        *)
LEMMA OpenStep ==
    ASSUME DocumentsInv, NEW p \in Members,
           \/ OpenParse(p)
           \/ \E e \in Edits, at \in Instants : OpenApproval(p, e, at)
           \/ \E d \in Patches : OpenApply(p, d)
    PROVE  DocumentsInv'
  <1>0. UNCHANGED <<versions, drafts, derivative, codeDrafts, scratch, artifactVars>>
    BY DEF OpenParse, OpenApproval, OpenApply
  <1>1. ArtifactsGrow /\ ArtifactsSound' BY <1>0, ArtifactsStay
  <1>a. ASSUME NEW c, CallSound(p, c), c # NoCall PROVE CallSound(p, c)'
    <2>1. IsFiniteSet(versions) BY DEF DocumentsInv, VersionsSound
    <2> QED BY <1>0, <1>1, <1>a, <2>1, CallKept
  <1>2. CASE OpenParse(p)
    <2> DEFINE c == [step |-> "rendered", kind |-> "parse", draft |-> <<"none">>, content |-> Parsed]
    <2>1. call' = [call EXCEPT ![p] = c] BY <1>2 DEF OpenParse
    <2>2. c.kind = "parse" /\ c.step = "rendered" OBVIOUS
    <2>3. ParseCall(c) /\ ContentKept(c) BY DEF ParseCall, ContentKept
    <2> HIDE DEF c
    <2>4. CallSound(p, c) /\ c # NoCall BY <2>2, <2>3 DEF CallSound, NoCall
    <2>5. CallSound(p, c)' BY <1>a, <2>4
    <2>6. ~Approving(c) /\ ~Applying(c) BY <2>2 DEF Approving, Applying
    <2> QED BY <1>0, <1>1, <2>1, <2>5, <2>6, CallOnly
  <1>3. ASSUME NEW e \in Edits, NEW at \in Instants, OpenApproval(p, e, at) PROVE DocumentsInv'
    <2> DEFINE source == SourceOf(e)
               content == Rendered(source.content, e, at)
    <2>0. PICK c : c = [step |-> "rendered", kind |-> "approve", draft |-> <<"doc", e>>,
                        edit |-> e, source |-> drafts[e].source, number |-> NextNumber,
                        content |-> content]
      OBVIOUS
    <2>1. /\ call' = [call EXCEPT ![p] = c] /\ drafts[e].status = "pending"
          /\ ~LockedDraft(<<"doc", e>>)
      BY <1>3, <2>0 DEF OpenApproval
    <2>2. drafts[e].source \in Numbers
      BY <2>1 DEF DocumentsInv, DraftsSound, DraftSound, NoDraft
    <2>3. source \in versions /\ source.number = drafts[e].source
      BY <2>2 DEF SourceOf, VersionOf, Numbers
    <2>4. NextNumber = Cardinality(versions) + 1 /\ Cardinality(versions) \in Nat \ {0}
      <3>1. Cardinality(versions) \in Nat /\ Numbers = 1..Cardinality(versions)
        BY FS_CardinalityType DEF DocumentsInv, VersionsSound
      <3>2. Cardinality(versions) # 0 BY <2>2, <3>1
      <3>3. PICK k : k = CHOOSE n \in Numbers : \A m \in Numbers : m <= n OBVIOUS
      <3>4. Cardinality(versions) \in Numbers /\ \A m \in Numbers : m <= Cardinality(versions)
        BY <3>1, <3>2
      <3>5. k \in Numbers /\ \A m \in Numbers : m <= k BY <3>3, <3>4
      <3>6. k = Cardinality(versions) BY <3>1, <3>4, <3>5
      <3> QED BY <3>1, <3>2, <3>3, <3>6 DEF NextNumber
    <2>5. EditsIn(content) = EditsIn(source.content) \cup {e} BY DEF EditsIn, Rendered
    <2> HIDE DEF source, content
    <2>6. /\ c.step = "rendered" /\ c.kind = "approve" /\ c.edit = e /\ c.source = drafts[e].source
          /\ c.number = NextNumber /\ c.content = content
          /\ c \in [step : {"rendered", "stored", "registered"}, kind : {"approve"},
                    draft : {<<"doc", c.edit>>}, edit : Edits, source : {c.source}, number : Nat,
                    content : {c.content}]
      BY <2>0, <2>4
    <2>7. ApproveCall(c) BY <2>1, <2>3, <2>4, <2>5, <2>6 DEF ApproveCall
    <2>8. CallSound(p, c) /\ c # NoCall BY <2>6, <2>7 DEF CallSound, ContentKept, NoCall
    <2>9. CallSound(p, c)' BY <1>a, <2>8
    <2>10. \A q \in Members \ {p} :
              /\ Approving(c) /\ Approving(call[q]) => c.edit # call[q].edit
              /\ Applying(c) /\ Applying(call[q]) => c.patch # call[q].patch
      <3> TAKE q \in Members \ {p}
      <3>1. ~Applying(c) BY <2>6 DEF Applying
      <3>2. ASSUME Approving(call[q]) PROVE call[q].draft = <<"doc", call[q].edit>>
        <4>1. ApproveCall(call[q]) BY <3>2, CallFacts DEF Approving
        <4> QED BY <4>1 DEF ApproveCall
      <3> QED BY <2>1, <2>6, <3>1, <3>2 DEF LockedDraft, Approving
    <2> QED BY <1>0, <1>1, <2>1, <2>9, <2>10, CallOnly
  <1>4. ASSUME NEW d \in Patches, OpenApply(p, d) PROVE DocumentsInv'
    <2> DEFINE c == [step |-> "rendered", kind |-> "apply", draft |-> <<"code", d>>,
                     patch |-> d, content |-> PatchText(d)]
    <2>1. /\ call' = [call EXCEPT ![p] = c] /\ codeDrafts[d].status = "pending"
          /\ ~LockedDraft(<<"code", d>>)
      BY <1>4 DEF OpenApply
    <2>6. /\ c.step = "rendered" /\ c.kind = "apply" /\ c.patch = d
          /\ c \in [step : {"rendered", "stored", "registered", "prepared", "written"}, kind : {"apply"},
                    draft : {<<"code", c.patch>>}, patch : Patches, content : {PatchText(c.patch)}]
      OBVIOUS
    <2> HIDE DEF c
    <2>7. ApplyCall(p, c) BY <2>1, <2>6 DEF ApplyCall
    <2>8. CallSound(p, c) /\ c # NoCall BY <2>6, <2>7 DEF CallSound, ContentKept, NoCall
    <2>9. CallSound(p, c)' BY <1>a, <2>8
    <2>10. \A q \in Members \ {p} :
              /\ Approving(c) /\ Approving(call[q]) => c.edit # call[q].edit
              /\ Applying(c) /\ Applying(call[q]) => c.patch # call[q].patch
      <3> TAKE q \in Members \ {p}
      <3>1. ~Approving(c) BY <2>6 DEF Approving
      <3>2. ASSUME Applying(call[q]) PROVE call[q].draft = <<"code", call[q].patch>>
        <4>1. ApplyCall(q, call[q]) BY <3>2, CallFacts DEF Applying
        <4> QED BY <4>1 DEF ApplyCall
      <3> QED BY <2>1, <2>6, <3>1, <3>2 DEF LockedDraft, Applying
    <2> QED BY <1>0, <1>1, <2>1, <2>9, <2>10, CallOnly
  <1> QED BY <1>2, <1>3, <1>4

(* A call that goes on without another draft takes no other call's lock.     *)
LEMMA LocksKept ==
    ASSUME DocumentsInv, NEW p \in Members, call[p].step # "none", NEW c,
           c.kind = call[p].kind, c.kind = "approve" => c.edit = call[p].edit,
           c.kind = "apply" => c.patch = call[p].patch
    PROVE  \A q \in Members \ {p} :
              /\ Approving(c) /\ Approving(call[q]) => c.edit # call[q].edit
              /\ Applying(c) /\ Applying(call[q]) => c.patch # call[q].patch
  BY DEF DocumentsInv, CallsSound, LocksHeld, Approving, Applying

(* The next step of a call is one of its kind.                               *)
LEMMA StepOfCall ==
    ASSUME DocumentsInv, NEW p \in Members, call[p].step # "none", NEW c,
           NEW step, step \in {"stored", "registered"} \/
              (step \in {"prepared", "written"} /\ call[p].kind = "apply"),
           c = [call[p] EXCEPT !.step = step],
           step = "written" => call[p].patch \in scratch[p]
    PROVE  /\ ApproveCall(c) \/ ParseCall(c) \/ ApplyCall(p, c)
           /\ c.step = step /\ c.kind = call[p].kind /\ c.content = call[p].content
           /\ c.kind = "approve" => c.edit = call[p].edit
           /\ c.kind = "apply" => c.patch = call[p].patch
           /\ IdOf(c) = IdOf(call[p]) /\ c # NoCall
  <1> DEFINE old == call[p]
  <1>0. c = [old EXCEPT !.step = step] OBVIOUS
  <1>1. CASE ApproveCall(old)
    <2>1. old.kind = "approve" /\ step \in {"stored", "registered"} BY <1>1 DEF ApproveCall
    <2> HIDE DEF old
    <2>2. /\ c.step = step /\ c.kind = "approve" /\ c.content = old.content /\ c.edit = old.edit
          /\ c.source = old.source /\ c.number = old.number
          /\ c \in [step : {"rendered", "stored", "registered"}, kind : {"approve"},
                    draft : {<<"doc", c.edit>>}, edit : Edits, source : {c.source}, number : Nat,
                    content : {c.content}]
      BY <1>0, <1>1, <2>1 DEF ApproveCall
    <2>3. ApproveCall(c) BY <1>1, <2>2 DEF ApproveCall
    <2> QED BY <2>1, <2>2, <2>3 DEF IdOf, NoCall, old
  <1>2. CASE ParseCall(old)
    <2>1. old.kind = "parse" /\ step \in {"stored", "registered"} BY <1>2 DEF ParseCall
    <2> HIDE DEF old
    <2>2. /\ c.step = step /\ c.kind = "parse" /\ c.content = old.content /\ ParseCall(c)
      BY <1>0, <1>2, <2>1 DEF ParseCall
    <2> QED BY <2>1, <2>2 DEF IdOf, NoCall, old
  <1>3. CASE ApplyCall(p, old)
    <2>1. old.kind = "apply" BY <1>3 DEF ApplyCall
    <2> HIDE DEF old
    <2>2. /\ c.step = step /\ c.kind = "apply" /\ c.content = old.content /\ c.patch = old.patch
          /\ c \in [step : {"rendered", "stored", "registered", "prepared", "written"}, kind : {"apply"},
                    draft : {<<"code", c.patch>>}, patch : Patches, content : {PatchText(c.patch)}]
      BY <1>0, <1>3 DEF ApplyCall
    <2>3. ApplyCall(p, c) BY <1>3, <2>2 DEF ApplyCall, old
    <2> QED BY <2>1, <2>2, <2>3 DEF IdOf, NoCall, old
  <1> QED BY <1>1, <1>2, <1>3, CallFacts

(* A call that moves to its next step keeps its kind.                       *)
LEMMA KindKept ==
    ASSUME NEW p, NEW c, ApproveCall(c) \/ ParseCall(c) \/ ApplyCall(p, c),
           UNCHANGED <<versions, drafts, codeDrafts, scratch>>, ContentKept(c)'
    PROVE  CallSound(p, c)'
  BY DEF CallSound, ApproveCall, ParseCall, ApplyCall

(* The bytes are stored and then registered.                                *)
LEMMA PublishStep ==
    ASSUME DocumentsInv, NEW p \in Members, StoreContent(p) \/ RegisterContent(p)
    PROVE  DocumentsInv'
  <1>0. UNCHANGED <<versions, drafts, derivative, codeDrafts, scratch>>
    BY DEF StoreContent, RegisterContent
  <1>a. PICK step \in {"stored", "registered"} :
          /\ call' = [call EXCEPT ![p] = [call[p] EXCEPT !.step = step]]
          /\ step = "stored" => StoreContent(p)
          /\ step = "registered" => RegisterContent(p)
    BY DEF StoreContent, RegisterContent
  <1>b. PICK c : c = [call[p] EXCEPT !.step = step] OBVIOUS
  <1>1. /\ step \in {"stored", "registered"}
        /\ c = [call[p] EXCEPT !.step = step] /\ call' = [call EXCEPT ![p] = c]
        /\ step = "stored" => StoreContent(p)
        /\ step = "registered" => RegisterContent(p)
    BY <1>a, <1>b
  <1>2. call[p].step # "none" /\ (step = "registered" => call[p].step = "stored")
    BY <1>1 DEF StoreContent, RegisterContent
  <1>3. /\ ApproveCall(c) \/ ParseCall(c) \/ ApplyCall(p, c)
        /\ c.step = step /\ c.kind = call[p].kind /\ c.content = call[p].content
        /\ c.kind = "approve" => c.edit = call[p].edit
        /\ c.kind = "apply" => c.patch = call[p].patch
        /\ IdOf(c) = IdOf(call[p])
    BY <1>1, <1>2, StepOfCall
  <1>4. /\ ContentKept(call[p]) /\ ManifestOf(p).id = IdOf(call[p])
        /\ ManifestOf(p).content = call[p].content
    BY <1>2, CallFacts
  <1>5. ArtifactsSound BY DEF DocumentsInv
  <1>6. ArtifactsGrow /\ ArtifactsSound' /\ ContentKept(c)'
    <2>1. CASE step = "stored"
      <3>1. objects' = objects \cup {c.content} /\ UNCHANGED <<claims, manifests>>
        BY <1>1, <1>3, <2>1 DEF StoreContent, PutObject
      <3>2. ArtifactsGrow BY <3>1 DEF ArtifactsGrow
      <3>3. ArtifactsSound' BY <1>5, <3>1 DEF ArtifactsSound, Readable
      <3>4. ContentKept(c)' BY <1>3, <2>1, <3>1 DEF ContentKept
      <3> QED BY <3>2, <3>3, <3>4
    <2>2. CASE step = "registered"
      <3> DEFINE m == ManifestOf(p)
                 key == PublicationOf(p).key
      <3>1. RegisterContent(p) /\ call[p].content \in objects
        BY <1>1, <1>2, <1>4, <2>2 DEF ContentKept
      <3>2. CASE Registrable(key, m) /\ PersistPublication(key, m)
        <4>1. /\ claims' = claims \cup {[key |-> key, request |-> m]}
              /\ manifests' = manifests \cup {m} /\ UNCHANGED objects
          BY <3>2 DEF PersistPublication
        <4>2. ArtifactsGrow BY <4>1 DEF ArtifactsGrow
        <4> HIDE DEF m, key
        <4>3. ArtifactsSound' BY <1>5, <4>1 DEF ArtifactsSound, Readable
        <4>4. m.id = IdOf(c) /\ m.content = c.content BY <1>3, <1>4 DEF m
        <4>5. c.content \in objects' BY <1>3, <3>1, <4>1
        <4>6. \E x \in manifests' : x.id = IdOf(c) /\ x.content = c.content BY <4>1, <4>4
        <4>7. ContentKept(c)' BY <4>5, <4>6 DEF ContentKept, Readable, IdOf
        <4> QED BY <4>2, <4>3, <4>7
      <3>3. CASE Replayed(key, m) /\ UNCHANGED artifactVars
        <4>1. ArtifactsGrow /\ ArtifactsSound' BY <3>3, ArtifactsStay
        <4>2. [key |-> key, request |-> m] \in claims BY <3>3 DEF Replayed
        <4> HIDE DEF m, key
        <4>3. m \in manifests BY <1>5, <4>2 DEF ArtifactsSound
        <4>4. m.id = IdOf(c) /\ m.content = c.content BY <1>3, <1>4 DEF m
        <4>5. c.content \in objects' /\ m \in manifests'
          BY <1>3, <3>1, <3>3, <4>3 DEF artifactVars
        <4>7. ContentKept(c)' BY <4>4, <4>5 DEF ContentKept, Readable, IdOf
        <4> QED BY <4>1, <4>7
      <3> QED BY <3>1, <3>2, <3>3 DEF RegisterContent
    <2> QED BY <2>1, <2>2
  <1>7. CallSound(p, c)' BY <1>0, <1>3, <1>6, KindKept
  <1>8. \A q \in Members \ {p} :
              /\ Approving(c) /\ Approving(call[q]) => c.edit # call[q].edit
              /\ Applying(c) /\ Applying(call[q]) => c.patch # call[q].patch
    BY <1>2, <1>3, LocksKept
  <1> QED BY <1>0, <1>1, <1>6, <1>7, <1>8, CallOnly

(* A call ends or is cut off.                                               *)
LEMMA StopStep ==
    ASSUME DocumentsInv, NEW p \in Members, RefuseContent(p) \/ AbortCall(p)
    PROVE  DocumentsInv'
  <1>1. /\ call' = [call EXCEPT ![p] = NoCall]
        /\ UNCHANGED <<versions, drafts, derivative, codeDrafts, scratch, artifactVars>>
    BY DEF RefuseContent, AbortCall
  <1>2. ArtifactsGrow /\ ArtifactsSound' BY <1>1, ArtifactsStay
  <1> QED BY <1>1, <1>2, NoCallIsSound, CallOnly

(* An approval commits: the version and its draft.                          *)
LEMMA ApprovalStep ==
    ASSUME DocumentsInv, NEW p \in Members, CommitApproval(p)
    PROVE  DocumentsInv'
  <1>0. /\ call[p].step = "registered" /\ call[p].kind = "approve"
        /\ call' = [call EXCEPT ![p] = NoCall]
        /\ UNCHANGED <<derivative, codeDrafts, scratch, artifactVars>>
    BY DEF CommitApproval
  <1>1. ArtifactsGrow /\ ArtifactsSound' BY <1>0, ArtifactsStay
  <1>2. CASE ~NumberFree(p)
    <2>1. UNCHANGED <<versions, drafts>> BY <1>2 DEF CommitApproval
    <2> QED BY <1>0, <1>1, <2>1, NoCallIsSound, CallOnly
  <1>3. CASE NumberFree(p)
    <2>0. PICK c : c = call[p] OBVIOUS
    <2>1. /\ ApproveCall(c) /\ ContentKept(c) /\ PublicationOf(p).id = IdOf(c)
      BY <1>0, <2>0, CallFacts
    <2> DEFINE e == c.edit
               v == [number |-> c.number, content |-> c.content, artifact |-> IdOf(c),
                     parent |-> c.source]
               new == [drafts[e] EXCEPT !.status = "approved", !.version = c.number]
    <2>2. versions' = versions \cup {v} /\ drafts' = [drafts EXCEPT ![e] = new]
      BY <1>3, <2>0, <2>1 DEF CommitApproval
    <2>3. /\ e \in Edits /\ c.number \in Nat /\ drafts[e].status = "pending"
          /\ drafts[e].source = c.source
      BY <2>1 DEF ApproveCall
    <2>4. c.number = Cardinality(versions) + 1 /\ c.number > 1
      <3>1. Cardinality(versions) \in Nat /\ Numbers = 1..Cardinality(versions)
        BY FS_CardinalityType DEF DocumentsInv, VersionsSound
      <3>2. c.number \notin Numbers BY <1>3, <2>0 DEF NumberFree
      <3>3. c.number > 1 /\ c.number <= Cardinality(versions) + 1 BY <2>1 DEF ApproveCall
      <3> QED BY <2>3, <3>1, <3>2, <3>3
    <2>5. Readable(IdOf(c), c.content)
      BY <1>0, <2>0, <2>1 DEF ContentKept
    <2>6. DraftSound(drafts[e]) /\ drafts[e] # NoDraft
      BY <2>3 DEF DocumentsInv, DraftsSound, NoDraft
    <2>7. \A f \in Edits : drafts'[f] = IF f = e THEN new ELSE drafts[f]
      BY <2>2, <2>3 DEF DocumentsInv, DraftsSound
    <2>8. /\ new \in [status : {"approved"}, source : Numbers, version : {c.number}]
          /\ new.status = "approved" /\ new.version = c.number /\ new.source = c.source
      BY <2>3, <2>6 DEF DraftSound
    <2>9. /\ v.number = c.number /\ v.content = c.content /\ v.artifact = IdOf(c)
          /\ v.parent = c.source
      OBVIOUS
    <2> HIDE DEF v, new
    <2>10. PICK u \in versions : u.number = c.source
                                  /\ EditsIn(c.content) = EditsIn(u.content) \cup {e}
      BY <2>1 DEF ApproveCall
    <2>11. /\ VersionsSound' /\ IsFiniteSet(versions')
           /\ Numbers \subseteq Numbers' /\ v.number \in Numbers'
      <3>1. Readable(v.artifact, v.content)' 
        <4>1. PICK id, content : id = v.artifact /\ content = v.content OBVIOUS
        <4>2. Readable(id, content)' BY <1>1, <2>5, <2>9, <4>1, ReadableStays
        <4>3. v' = v BY DEF v
        <4> QED BY <4>1, <4>2, <4>3 DEF Readable
      <3>2. \A f \in Edits : drafts[f].status = "approved" => drafts'[f] = drafts[f]
        BY <2>3, <2>7
      <3>3. \E f \in Edits, w \in versions :
                  /\ drafts'[f].status = "approved" /\ drafts'[f].version = v.number
                  /\ drafts'[f].source = v.parent /\ w.number = v.parent
                  /\ EditsIn(v.content) = EditsIn(w.content) \cup {f}
        BY <2>3, <2>7, <2>8, <2>9, <2>10
      <3> QED BY <1>1, <2>2, <2>4, <2>9, <3>1, <3>2, <3>3, VersionAdded
    <2>12. DraftsSound'
      <3>1. ASSUME NEW f \in Edits PROVE DraftSound(drafts[f])'
        <4>1. CASE f = e
          <5>1. drafts'[f] = new BY <2>7, <4>1
          <5> QED BY <2>3, <2>8, <2>9, <2>11, <5>1 DEF DraftSound
        <4>2. CASE f # e
          <5>1. drafts'[f] = drafts[f] /\ DraftSound(drafts[f])
            BY <2>7, <4>2 DEF DocumentsInv, DraftsSound
          <5> QED BY <2>11, <5>1 DEF DraftSound
        <4> QED BY <4>1, <4>2
      <3>2. drafts' = [f \in Edits |-> drafts'[f]] BY <2>2 DEF DocumentsInv, DraftsSound
      <3> QED BY <3>1, <3>2 DEF DraftsSound
    <2>13. CallsSound'
      <3>1. \A q \in Members \ {p} : call[q] # NoCall =>
              /\ ApproveCall(call[q]) => drafts'[call[q].edit] = drafts[call[q].edit]
              /\ ApplyCall(q, call[q]) => codeDrafts'[call[q].patch] = codeDrafts[call[q].patch]
        <4> TAKE q \in Members \ {p}
        <4>1. ASSUME call[q] # NoCall, ApproveCall(call[q]) PROVE drafts'[call[q].edit] = drafts[call[q].edit]
          <5>1. Approving(call[q]) /\ Approving(call[p]) /\ call[q].edit \in Edits
            BY <1>0, <4>1 DEF Approving, ApproveCall
          <5>2. call[q].edit # e BY <2>0, <5>1 DEF DocumentsInv, CallsSound, LocksHeld
          <5> QED BY <2>7, <5>1, <5>2
        <4> QED BY <1>0, <4>1
      <3> QED BY <1>0, <1>1, <2>2, <2>11, <3>1, NoCallIsSound, CallsMove
    <2>14. CodeSound' BY <1>0, <1>1, CodeStays
    <2> QED BY <1>0, <1>1, <2>11, <2>12, <2>13, <2>14, DerivativeStays DEF DocumentsInv
  <1> QED BY <1>2, <1>3

(* A parse commits its derivative.                                          *)
LEMMA ParseStep ==
    ASSUME DocumentsInv, NEW p \in Members, CommitParse(p) \/ FailParse(p)
    PROVE  DocumentsInv'
  <1>0. UNCHANGED <<versions, drafts, codeDrafts, scratch, artifactVars>>
    BY DEF CommitParse, FailParse
  <1>1. ArtifactsGrow /\ ArtifactsSound' BY <1>0, ArtifactsStay
  <1>2. VersionsSound' /\ IsFiniteSet(versions') /\ Numbers' = Numbers
    BY <1>0, <1>1, VersionsStay
  <1>3. DraftsSound' /\ CodeSound' BY <1>0, <1>1, <1>2, DraftsStay, CodeStays
  <1>4. CallsSound'
    <2>1. CASE CommitParse(p)
      <3>1. call' = [call EXCEPT ![p] = NoCall] BY <2>1 DEF CommitParse
      <3> QED BY <1>0, <1>1, <1>2, <3>1, NoCallIsSound, CallsMove
    <2>2. CASE FailParse(p)
      <3>1. UNCHANGED call BY <2>2 DEF FailParse
      <3> QED BY <1>0, <1>1, <1>2, <3>1, CallsStay
    <2> QED BY <2>1, <2>2
  <1>5. derivative' = "ready" => Readable(<<"doc", Parsed>>, Parsed)
    <2>1. CASE CommitParse(p)
      <3>1. call[p].step = "registered" /\ call[p].kind = "parse" BY <2>1 DEF CommitParse
      <3>2. ContentKept(call[p]) /\ call[p].content = Parsed BY <3>1, CallFacts
      <3> QED BY <3>1, <3>2 DEF ContentKept, IdOf
    <2>2. CASE FailParse(p)
      <3>1. derivative' = "failed" BY <2>2 DEF FailParse, DerivativeAfter
      <3> QED BY <3>1
    <2> QED BY <2>1, <2>2
  <1>6. (derivative = "ready" => Readable(<<"doc", Parsed>>, Parsed))'
    <2>1. Readable(<<"doc", Parsed>>, Parsed) => Readable(<<"doc", Parsed>>, Parsed)'
      BY <1>1, ReadableStays
    <2> QED BY <1>5, <2>1 DEF Readable
  <1> QED BY <1>1, <1>2, <1>3, <1>4, <1>6 DEF DocumentsInv

(* One code draft that no other call has changes.                            *)
LEMMA CodeDraftMoves ==
    ASSUME DocumentsInv, NEW d \in Patches, NEW row,
           codeDrafts' = [codeDrafts EXCEPT ![d] = row], CodeDraftSound(d, row)',
           UNCHANGED <<versions, drafts, derivative, scratch, artifactVars>>, CallsSound'
    PROVE  DocumentsInv'
  <1>1. ArtifactsGrow /\ ArtifactsSound' BY ArtifactsStay
  <1>2. VersionsSound' /\ IsFiniteSet(versions') /\ Numbers' = Numbers BY <1>1, VersionsStay
  <1>3. \A f \in Patches : codeDrafts'[f] = IF f = d THEN row ELSE codeDrafts[f]
    BY DEF DocumentsInv, CodeSound
  <1>4. ASSUME NEW f \in Patches PROVE CodeDraftSound(f, codeDrafts[f])'
    <2>1. CASE f = d
      <3>1. codeDrafts'[f] = row BY <1>3, <2>1
      <3> QED BY <2>1, <3>1 DEF CodeDraftSound, Readable
    <2>2. CASE f # d
      <3>1. codeDrafts'[f] = codeDrafts[f] /\ CodeDraftSound(f, codeDrafts[f])
        BY <1>3, <2>2 DEF DocumentsInv, CodeSound
      <3> QED BY <3>1 DEF CodeDraftSound, Readable, artifactVars
    <2> QED BY <2>1, <2>2
  <1>5. codeDrafts' = [f \in Patches |-> codeDrafts'[f]] BY <1>3 DEF DocumentsInv, CodeSound
  <1>6. CodeSound' BY <1>4, <1>5 DEF DocumentsInv, CodeSound
  <1> QED BY <1>1, <1>2, <1>6, DraftsStay, DerivativeStays DEF DocumentsInv

(* A patch is proposed or decided.                                          *)
LEMMA CodeStep ==
    ASSUME DocumentsInv,
           \/ \E d \in Patches : CreateCodeDraft(d)
           \/ \E p \in Members, d \in Patches : RejectCodeDraft(p, d)
    PROVE  DocumentsInv'
  <1>1. ASSUME NEW d \in Patches, NEW row,
               codeDrafts' = [codeDrafts EXCEPT ![d] = row], CodeDraftSound(d, row)',
               UNCHANGED <<versions, drafts, derivative, scratch, call, artifactVars>>,
               \A q \in Members : Applying(call[q]) /\ ApplyCall(q, call[q]) => call[q].patch # d
        PROVE  DocumentsInv'
    <2>1. ArtifactsGrow BY <1>1, ArtifactsStay
    <2>2. IsFiniteSet(versions') BY <1>1 DEF DocumentsInv, VersionsSound
    <2>3. \A f \in Patches : f # d => codeDrafts'[f] = codeDrafts[f]
      BY <1>1 DEF DocumentsInv, CodeSound
    <2>4. \A p \in Members : call[p] # NoCall =>
              /\ ApproveCall(call[p]) => drafts'[call[p].edit] = drafts[call[p].edit]
              /\ ApplyCall(p, call[p]) => codeDrafts'[call[p].patch] = codeDrafts[call[p].patch]
      BY <1>1, <2>3 DEF Applying, ApplyCall
    <2>5. CallsSound' BY <1>1, <2>1, <2>2, <2>4, CallsStay
    <2> QED BY <1>1, <2>5, CodeDraftMoves
  <1>2. ASSUME NEW d \in Patches, CreateCodeDraft(d) PROVE DocumentsInv'
    <2> DEFINE row == [status |-> "pending", by |-> Nobody]
    <2>1. /\ codeDrafts[d] = NoDraft /\ codeDrafts' = [codeDrafts EXCEPT ![d] = row]
          /\ UNCHANGED <<versions, drafts, derivative, scratch, call, artifactVars>>
      BY <1>2 DEF CreateCodeDraft
    <2>2. CodeDraftSound(d, row)' BY DEF CodeDraftSound
    <2>3. \A q \in Members : Applying(call[q]) /\ ApplyCall(q, call[q]) => call[q].patch # d
      BY <2>1 DEF ApplyCall, NoDraft
    <2> HIDE DEF row
    <2> QED BY <1>1, <2>1, <2>2, <2>3
  <1>3. ASSUME NEW p \in Members, NEW d \in Patches, RejectCodeDraft(p, d) PROVE DocumentsInv'
    <2> DEFINE row == [status |-> "rejected", by |-> p]
    <2>1. /\ ~LockedDraft(<<"code", d>>) /\ codeDrafts' = [codeDrafts EXCEPT ![d] = row]
          /\ UNCHANGED <<versions, drafts, derivative, scratch, call, artifactVars>>
      BY <1>3 DEF RejectCodeDraft
    <2>2. CodeDraftSound(d, row)' BY DEF CodeDraftSound
    <2>3. \A q \in Members : Applying(call[q]) /\ ApplyCall(q, call[q]) => call[q].patch # d
      BY <2>1 DEF ApplyCall, Applying, LockedDraft
    <2> HIDE DEF row
    <2> QED BY <1>1, <2>1, <2>2, <2>3
  <1> QED BY <1>2, <1>3

(* A patch is applied.                                                      *)
LEMMA ApplyStep ==
    ASSUME DocumentsInv, NEW p \in Members, CommitApply(p)
    PROVE  DocumentsInv'
  <1>0. PICK c : c = call[p] OBVIOUS
  <1>1. call[p].step = "written" BY DEF CommitApply
  <1>2. ApplyCall(p, c) /\ ContentKept(c)
    <2>1. ~ApproveCall(call[p]) /\ ~ParseCall(call[p]) BY <1>1 DEF ApproveCall, ParseCall
    <2> QED BY <1>0, <1>1, <2>1, CallFacts
  <1> DEFINE d == c.patch
             row == [status |-> "applied", by |-> p]
  <1>3. /\ d \in Patches /\ codeDrafts' = [codeDrafts EXCEPT ![d] = row]
        /\ call' = [call EXCEPT ![p] = NoCall]
        /\ UNCHANGED <<versions, drafts, derivative, scratch, artifactVars>>
    BY <1>0, <1>2 DEF CommitApply, ApplyCall
  <1>4. /\ c.content = PatchText(d) /\ c.kind = "apply" /\ d \in scratch[p]
        /\ Readable(<<"patch", PatchText(d)>>, PatchText(d))
    BY <1>0, <1>1, <1>2 DEF ApplyCall, ContentKept, IdOf
  <1>5. CodeDraftSound(d, row)'
    BY <1>3, <1>4 DEF CodeDraftSound, Readable, artifactVars
  <1>6. ArtifactsGrow /\ IsFiniteSet(versions') BY <1>3, ArtifactsStay DEF DocumentsInv, VersionsSound
  <1>7. \A f \in Patches : f # d => codeDrafts'[f] = codeDrafts[f]
    BY <1>3 DEF DocumentsInv, CodeSound
  <1>8. \A q \in Members \ {p} : call[q] # NoCall =>
              /\ ApproveCall(call[q]) => drafts'[call[q].edit] = drafts[call[q].edit]
              /\ ApplyCall(q, call[q]) => codeDrafts'[call[q].patch] = codeDrafts[call[q].patch]
    <2> TAKE q \in Members \ {p}
    <2>1. ASSUME call[q] # NoCall, ApplyCall(q, call[q])
          PROVE  codeDrafts'[call[q].patch] = codeDrafts[call[q].patch]
      <3>1. Applying(call[q]) /\ Applying(call[p]) /\ call[q].patch \in Patches
        BY <1>0, <1>1, <1>4, <2>1 DEF Applying, ApplyCall
      <3>2. call[q].patch # d BY <1>0, <3>1 DEF DocumentsInv, CallsSound, LocksHeld
      <3> QED BY <1>7, <3>1, <3>2
    <2> QED BY <1>3, <2>1
  <1> HIDE DEF row
  <1>9. CallsSound' BY <1>3, <1>6, <1>8, NoCallIsSound, CallsMove
  <1> QED BY <1>3, <1>5, <1>9, CodeDraftMoves

(* The workspace of a call is prepared, then written.                       *)
LEMMA WorkspaceStep ==
    ASSUME DocumentsInv, NEW p \in Members, PrepareWorkspace(p) \/ WriteWorkspaceFiles(p)
    PROVE  DocumentsInv'
  <1>0. UNCHANGED <<versions, drafts, derivative, codeDrafts, artifactVars>>
    BY DEF PrepareWorkspace, WriteWorkspaceFiles
  <1>a. PICK step \in {"prepared", "written"} :
          /\ call' = [call EXCEPT ![p] = [call[p] EXCEPT !.step = step]]
          /\ step = "prepared" => PrepareWorkspace(p)
          /\ step = "written" => WriteWorkspaceFiles(p)
    BY DEF PrepareWorkspace, WriteWorkspaceFiles
  <1>b. PICK c : c = [call[p] EXCEPT !.step = step] OBVIOUS
  <1>1. /\ step \in {"prepared", "written"}
        /\ c = [call[p] EXCEPT !.step = step] /\ call' = [call EXCEPT ![p] = c]
        /\ step = "prepared" => PrepareWorkspace(p)
        /\ step = "written" => WriteWorkspaceFiles(p)
    BY <1>a, <1>b
  <1>2. call[p].step \in {"registered", "prepared"} /\ call[p].kind = "apply"
    <2>1. CASE step = "prepared" BY <1>1, <2>1 DEF PrepareWorkspace
    <2>2. CASE step = "written"
      <3>1. call[p].step = "prepared" BY <1>1, <2>2 DEF WriteWorkspaceFiles
      <3>2. ~ApproveCall(call[p]) /\ ~ParseCall(call[p]) BY <3>1 DEF ApproveCall, ParseCall
      <3>3. ApplyCall(p, call[p]) BY <3>1, <3>2, CallFacts
      <3> QED BY <3>1, <3>3 DEF ApplyCall
    <2> QED BY <2>1, <2>2
  <1>3. ApplyCall(p, call[p]) /\ ContentKept(call[p]) BY <1>2, CallFacts
  <1> DEFINE d == call[p].patch
  <1>4. /\ d \in Patches /\ codeDrafts[d].status = "pending"
        /\ scratch \in [Members -> SUBSET Patches]
    BY <1>3 DEF ApplyCall, DocumentsInv, CodeSound
  <1>5. /\ scratch' \in [Members -> SUBSET Patches]
        /\ \A q \in Members \ {p} : scratch'[q] = scratch[q]
        /\ scratch[p] \ {d} \subseteq scratch'[p]
        /\ step = "written" => d \in scratch'[p]
    <2>1. CASE step = "prepared"
      <3>1. scratch' = [scratch EXCEPT ![p] = @ \ {d}] BY <1>1, <2>1 DEF PrepareWorkspace
      <3> QED BY <1>4, <2>1, <3>1
    <2>2. CASE step = "written"
      <3>1. scratch' = [scratch EXCEPT ![p] = @ \cup {d}] BY <1>1, <2>2 DEF WriteWorkspaceFiles
      <3> QED BY <1>4, <2>2, <3>1
    <2> QED BY <2>1, <2>2
  <1>6. ArtifactsGrow /\ ArtifactsSound' BY <1>0, ArtifactsStay
  <1>7. VersionsSound' /\ IsFiniteSet(versions') /\ Numbers' = Numbers
    BY <1>0, <1>6, VersionsStay
  <1>8. /\ c.step = step /\ c.kind = "apply" /\ c.content = call[p].content /\ c.patch = d
        /\ c \in [step : {"rendered", "stored", "registered", "prepared", "written"}, kind : {"apply"},
                  draft : {<<"code", c.patch>>}, patch : Patches, content : {PatchText(c.patch)}]
    BY <1>1, <1>3 DEF ApplyCall
  <1>9. CallSound(p, c)'
    <2>1. ApplyCall(p, c)' BY <1>0, <1>4, <1>5, <1>8 DEF ApplyCall
    <2>2. ContentKept(c)'
      BY <1>0, <1>2, <1>3, <1>8 DEF ContentKept, IdOf, Readable, artifactVars
    <2> QED BY <2>1, <2>2 DEF CallSound
  <1>10. CallsSound'
    <2>1. \A q \in Members \ {p} :
              /\ Approving(c) /\ Approving(call[q]) => c.edit # call[q].edit
              /\ Applying(c) /\ Applying(call[q]) => c.patch # call[q].patch
      BY <1>2, <1>8, LocksKept
    <2> QED BY <1>0, <1>1, <1>5, <1>6, <1>7, <1>9, <2>1, CallsMove
  <1>11. CodeSound'
    <2>1. ASSUME NEW f \in Patches PROVE CodeDraftSound(f, codeDrafts[f])'
      <3>1. CodeDraftSound(f, codeDrafts[f]) BY DEF DocumentsInv, CodeSound
      <3>2. codeDrafts[f].status = "applied" => f # d BY <1>4
      <3>3. codeDrafts[f].status = "applied" /\ codeDrafts[f].by \in Members /\ f \in scratch[codeDrafts[f].by]
              => f \in scratch'[codeDrafts[f].by]
        BY <1>5, <3>2
      <3> QED BY <1>0, <3>1, <3>3 DEF CodeDraftSound, Readable, artifactVars
    <2> QED BY <1>0, <1>5, <2>1 DEF DocumentsInv, CodeSound
  <1> QED BY <1>0, <1>6, <1>7, <1>10, <1>11, DraftsStay, DerivativeStays DEF DocumentsInv

(* Every step keeps the invariant.                                          *)
LEMMA DocumentsInvNext == DocumentsInv /\ [DocumentsNext]_documentVars => DocumentsInv'
  <1> SUFFICES ASSUME DocumentsInv, [DocumentsNext]_documentVars PROVE DocumentsInv' OBVIOUS
  <1>1. CASE UNCHANGED documentVars
    <2>1. /\ UNCHANGED <<versions, drafts, derivative, codeDrafts, scratch, call>>
          /\ UNCHANGED artifactVars
      BY <1>1 DEF documentVars
    <2>2. ArtifactsGrow /\ ArtifactsSound' BY <2>1, ArtifactsStay
    <2>3. VersionsSound' /\ IsFiniteSet(versions') /\ Numbers' = Numbers
      BY <2>1, <2>2, VersionsStay
    <2>4. CallsSound' BY <2>1, <2>2, <2>3, CallsStay
    <2> QED BY <2>1, <2>2, <2>3, <2>4, DraftsStay, CodeStays, DerivativeStays DEF DocumentsInv
  <1>2. CASE DocumentRoutes
    BY <1>2, InitialStep, OpenStep, ParseStep, DraftStep DEF DocumentRoutes
  <1>3. CASE CodeRoutes BY <1>3, CodeStep, OpenStep DEF CodeRoutes
  <1>4. ASSUME NEW p \in Members, ContinueCall(p) PROVE DocumentsInv'
    BY <1>4, PublishStep, StopStep, ApprovalStep, ParseStep, WorkspaceStep, ApplyStep
       DEF ContinueCall
  <1> QED BY <1>1, <1>2, <1>3, <1>4 DEF DocumentsNext

(* The invariant says what the run checks.                                  *)
LEMMA DocumentsInvImplies == DocumentsInv => DocumentsAreTraceable
  <1> SUFFICES ASSUME DocumentsInv PROVE DocumentsAreTraceable OBVIOUS
  <1>1. ReferencesResolve
    <2>1. \A d \in Patches : codeDrafts[d].status = "applied" =>
             /\ Readable(<<"patch", PatchText(d)>>, PatchText(d))
             /\ d \in scratch[codeDrafts[d].by]
      BY DEF DocumentsInv, CodeSound, CodeDraftSound, NoDraft
    <2> QED BY <2>1 DEF DocumentsInv, ReferencesResolve, VersionsSound
  <1>2. VersionsFollowApprovals
    <2>1. Numbers = 1..Cardinality(versions) BY DEF DocumentsInv, VersionsSound
    <2>2. \A e \in Edits : drafts[e].status = "approved" => drafts[e].version \in Numbers
      BY DEF DocumentsInv, DraftsSound, DraftSound, NoDraft
    <2>3. ASSUME NEW v \in versions, v.number > 1
          PROVE  \E e \in Edits :
                   /\ drafts[e].status = "approved" /\ drafts[e].version = v.number
                   /\ drafts[e].source = v.parent
                   /\ EditsIn(v.content) = EditsIn(VersionOf(v.parent).content) \cup {e}
      <3>1. PICK e \in Edits, u \in versions :
              /\ drafts[e].status = "approved" /\ drafts[e].version = v.number
              /\ drafts[e].source = v.parent /\ u.number = v.parent
              /\ EditsIn(v.content) = EditsIn(u.content) \cup {e}
        BY <2>3 DEF DocumentsInv, VersionsSound
      <3>2. VersionOf(v.parent) \in versions /\ VersionOf(v.parent).number = v.parent
        BY <3>1 DEF VersionOf
      <3>3. VersionOf(v.parent) = u BY <3>1, <3>2 DEF DocumentsInv, VersionsSound
      <3> QED BY <3>1, <3>3
    <2> QED BY <2>1, <2>2, <2>3 DEF VersionsFollowApprovals
  <1> QED BY <1>1, <1>2 DEF DocumentsAreTraceable

(* Each version of a document leads to an approved draft and to the version *)
(* it was made from, and each row to bytes that can be read, although       *)
(* manifest, bytes and rows are written in different transactions (publish, *)
(* approve, parse, apply).                                                  *)
THEOREM DocumentsStayTraceable == DocumentsSpec => []DocumentsAreTraceable
  <1>1. DocumentsSpec => []DocumentsInv BY DocumentsInvInit, DocumentsInvNext, PTL DEF DocumentsSpec
  <1> QED BY <1>1, DocumentsInvImplies, PTL

-----------------------------------------------------------------------------
(* Memory                                                                   *)

RotationBegun == {"reencrypt", "retire", "complete"}

(* Every record can be found under the new key; once re-encryption begins    *)
(* every process writes with it, and a completed plan left no old record.    *)
MemoryInv ==
    /\ MemoryTypeOK /\ PendingStaysRevoked
    /\ writer \in [Writers -> {"old", "new"}]
    /\ plan.stage \in RotationBegun => \A w \in Writers : writer[w] = "new"
    /\ \A m \in Memories : Remembered(m) => "new" \in mem[m].terms
    /\ plan.stage = "complete" => \A m \in Memories : Remembered(m) => mem[m].key = "new"

(* The keyring reads no third key and always reads the new one.             *)
LEMMA KeyringKeys == Keyring \subseteq {"old", "new"} /\ "new" \in Keyring
  BY DEF Keyring

(* No memory is kept at first.                                              *)
LEMMA MemoryInvInit == MemoryInit => MemoryInv
  BY RotationRoles DEF MemoryInit, RotationInit, MemoryInv, MemoryTypeOK, MemoryRecord, NoRecord,
     DeletionRequest, LegalHold, RotationPlan, PendingStaysRevoked, RotationBegun, Remembered

(* A step that changes one record and its request, and leaves the plan.      *)
LEMMA RecordMoves ==
    ASSUME MemoryInv, NEW m \in Memories, NEW row \in MemoryRecord, NEW q \in DeletionRequest,
           mem' = [mem EXCEPT ![m] = row], request' = [request EXCEPT ![m] = q],
           hold' \in [Holds -> LegalHold], UNCHANGED <<writer, plan>>,
           q.status \in {"pending", "approving"} => row.status = "revoked",
           row.status # "absent" => /\ "new" \in row.terms
                                    /\ plan.stage = "complete" => row.key = "new"
    PROVE  MemoryInv'
  <1>0. MemoryTypeOK BY DEF MemoryInv
  <1>1. /\ mem' \in [Memories -> MemoryRecord] /\ request' \in [Memories -> DeletionRequest]
        /\ \A n \in Memories : mem'[n] = (IF n = m THEN row ELSE mem[n])
        /\ \A n \in Memories : request'[n] = (IF n = m THEN q ELSE request[n])
    BY <1>0 DEF MemoryTypeOK
  <1>2. MemoryTypeOK' BY <1>0, <1>1 DEF MemoryTypeOK
  <1>3. PendingStaysRevoked' BY <1>1 DEF MemoryInv, PendingStaysRevoked
  <1>4. \A n \in Memories : Remembered(n)' =>
          "new" \in mem'[n].terms /\ (plan.stage = "complete" => mem'[n].key = "new")
    BY <1>1 DEF MemoryInv, Remembered
  <1> QED BY <1>2, <1>3, <1>4 DEF MemoryInv, Remembered

(* A row of the table is one of its records.                                 *)
LEMMA RecordFacts ==
    ASSUME MemoryInv, NEW m \in Memories
    PROVE  /\ mem[m] \in MemoryRecord /\ request[m] \in DeletionRequest
           /\ request = [request EXCEPT ![m] = request[m]] /\ mem = [mem EXCEPT ![m] = mem[m]]
           /\ mem[m].version + 1 \in Nat
           /\ hold \in [Holds -> LegalHold]
           /\ request[m].status \in {"pending", "approving"} => mem[m].status = "revoked"
           /\ mem[m].status # "absent" => /\ "new" \in mem[m].terms
                                          /\ plan.stage = "complete" => mem[m].key = "new"
  BY DEF MemoryInv, MemoryTypeOK, MemoryRecord, PendingStaysRevoked, Remembered

(* A write, a review, a deletion or a new index changes one record.         *)
LEMMA RecordStep ==
    ASSUME MemoryInv, NEW m \in Memories,
           \/ \E w \in Writers, s \in Admission : Write(w, m, s)
           \/ ReadForReview(m) \/ \E approve \in BOOLEAN : ReviewMemory(m, approve)
           \/ RequestDeletion(m) \/ RejectDeletion(m) \/ ApproveDeletion(m) \/ Purge(m)
           \/ Reindex(m)
    PROVE  MemoryInv'
  <1> DEFINE r == mem[m]
             q == request[m]
  <1>0. /\ r \in MemoryRecord /\ q \in DeletionRequest
        /\ request = [request EXCEPT ![m] = q] /\ mem = [mem EXCEPT ![m] = r]
        /\ r.version + 1 \in Nat
        /\ hold \in [Holds -> LegalHold]
        /\ q.status \in {"pending", "approving"} => r.status = "revoked"
        /\ r.status # "absent" => "new" \in r.terms /\ (plan.stage = "complete" => r.key = "new")
    BY RecordFacts
  <1>1. ASSUME NEW w \in Writers, NEW s \in Admission, Write(w, m, s) PROVE MemoryInv'
    <2> DEFINE row == [status |-> s, version |-> 1, key |-> writer[w], terms |-> Keyring]
    <2>1. /\ r.status = "absent" /\ mem' = [mem EXCEPT ![m] = row]
          /\ UNCHANGED <<request, hold, writer, plan>>
      BY <1>1 DEF Write, Remembered
    <2>2. row \in MemoryRecord /\ row.key = writer[w] /\ row.terms = Keyring
      BY KeyringKeys DEF MemoryInv, MemoryRecord, Admission
    <2>3. plan.stage = "complete" => row.key = "new" BY <2>2 DEF MemoryInv, RotationBegun
    <2>4. ~(q.status \in {"pending", "approving"}) BY <1>0, <2>1
    <2>5. request' = [request EXCEPT ![m] = q] /\ hold' \in [Holds -> LegalHold] BY <1>0, <2>1
    <2> HIDE DEF row, q, r
    <2> QED BY <1>0, <2>1, <2>2, <2>3, <2>4, <2>5, KeyringKeys, RecordMoves
  <1>2. CASE ReadForReview(m)
    BY <1>2 DEF ReadForReview, MemoryInv, MemoryTypeOK, PendingStaysRevoked, Remembered
  <1>3. ASSUME NEW approve \in BOOLEAN, ReviewMemory(m, approve) PROVE MemoryInv'
    <2> DEFINE s == IF approve THEN "active" ELSE "revoked"
               row == [r EXCEPT !.status = s, !.version = r.version + 1]
    <2>1. /\ r.status = "quarantined" /\ mem' = [mem EXCEPT ![m] = row]
          /\ UNCHANGED <<request, hold, writer, plan>>
      BY <1>3 DEF ReviewMemory, Unmoved
    <2>2. row \in MemoryRecord /\ row.key = r.key /\ row.terms = r.terms
      BY <1>0 DEF MemoryRecord
    <2>4. ~(q.status \in {"pending", "approving"}) BY <1>0, <2>1
    <2>5. request' = [request EXCEPT ![m] = q] /\ hold' \in [Holds -> LegalHold] BY <1>0, <2>1
    <2> HIDE DEF row, s, q, r
    <2>6. /\ q.status \in {"pending", "approving"} => row.status = "revoked"
          /\ row.status # "absent" => "new" \in row.terms /\ (plan.stage = "complete" => row.key = "new")
      BY <1>0, <2>1, <2>2, <2>4
    <2>7. q \in DeletionRequest /\ UNCHANGED <<writer, plan>> BY <1>0, <2>1
    <2> QED BY <2>1, <2>2, <2>5, <2>6, <2>7, RecordMoves
  <1>4. CASE RequestDeletion(m)
    <2> DEFINE row == [r EXCEPT !.status = "revoked", !.version = r.version + 1]
               next == [status |-> "pending", previous |-> r.status]
    <2>1. /\ r.status \in {"active", "quarantined"} /\ mem' = [mem EXCEPT ![m] = row]
          /\ request' = [request EXCEPT ![m] = next]
          /\ UNCHANGED <<hold, writer, plan>>
      BY <1>4 DEF RequestDeletion
    <2>2. /\ row \in MemoryRecord /\ row.key = r.key /\ row.terms = r.terms /\ row.status = "revoked"
      BY <1>0 DEF MemoryRecord
    <2>3. next \in DeletionRequest BY <2>1 DEF DeletionRequest
    <2>4. hold' \in [Holds -> LegalHold] BY <1>0, <2>1
    <2> HIDE DEF row, next, q, r
    <2> QED BY <1>0, <2>1, <2>2, <2>3, <2>4, RecordMoves
  <1>5. CASE RejectDeletion(m)
    <2> DEFINE row == [r EXCEPT !.status = q.previous, !.version = r.version + 1]
               next == [q EXCEPT !.status = "rejected"]
    <2>1. /\ q.status = "pending" /\ mem' = [mem EXCEPT ![m] = row]
          /\ request' = [request EXCEPT ![m] = next]
          /\ UNCHANGED <<hold, writer, plan>>
      BY <1>5 DEF RejectDeletion
    <2>2. row \in MemoryRecord /\ row.key = r.key /\ row.terms = r.terms /\ r.status = "revoked"
      BY <1>0, <2>1 DEF MemoryRecord, DeletionRequest
    <2>3. next \in DeletionRequest /\ next.status = "rejected" BY <1>0 DEF DeletionRequest
    <2>4. hold' \in [Holds -> LegalHold] BY <1>0, <2>1
    <2> HIDE DEF row, next, q, r
    <2> QED BY <1>0, <2>1, <2>2, <2>3, <2>4, RecordMoves
  <1>6. CASE ApproveDeletion(m)
    <2> DEFINE next == [q EXCEPT !.status = "approving"]
    <2>1. /\ q.status = "pending" /\ request' = [request EXCEPT ![m] = next]
          /\ UNCHANGED <<mem, hold, writer, plan>>
      BY <1>6 DEF ApproveDeletion
    <2>3. next \in DeletionRequest BY <1>0 DEF DeletionRequest
    <2>4. hold' \in [Holds -> LegalHold] /\ mem' = [mem EXCEPT ![m] = r] BY <1>0, <2>1
    <2> HIDE DEF next, q, r
    <2> QED BY <1>0, <2>1, <2>3, <2>4, RecordMoves
  <1>7. CASE Purge(m)
    <2> DEFINE next == [q EXCEPT !.status = "purged"]
    <2>1. /\ request' = [request EXCEPT ![m] = next] /\ mem' = [mem EXCEPT ![m] = NoRecord]
          /\ hold' = [h \in Holds |-> IF hold[h] = m THEN 0 ELSE hold[h]]
          /\ UNCHANGED <<writer, plan>>
      BY <1>7 DEF Purge
    <2>3. next \in DeletionRequest /\ next.status = "purged" BY <1>0 DEF DeletionRequest
    <2>4. hold' \in [Holds -> LegalHold] BY <1>0, <2>1 DEF LegalHold
    <2>5. NoRecord \in MemoryRecord /\ NoRecord.status = "absent" BY DEF NoRecord, MemoryRecord
    <2> HIDE DEF next, q, r
    <2> QED BY <1>0, <2>1, <2>3, <2>4, <2>5, RecordMoves
  <1>8. CASE Reindex(m)
    <2> DEFINE row == [r EXCEPT !.terms = Keyring]
    <2>1. /\ r.status # "absent" /\ mem' = [mem EXCEPT ![m] = row]
          /\ UNCHANGED <<request, hold, writer, plan>>
      BY <1>8 DEF Reindex, Remembered
    <2>2. /\ row \in MemoryRecord /\ row.key = r.key /\ row.terms = Keyring /\ row.status = r.status
      BY <1>0, KeyringKeys DEF MemoryRecord
    <2>5. request' = [request EXCEPT ![m] = q] /\ hold' \in [Holds -> LegalHold] BY <1>0, <2>1
    <2> HIDE DEF row, q, r
    <2> QED BY <1>0, <2>1, <2>2, <2>5, KeyringKeys, RecordMoves
  <1> QED BY <1>1, <1>2, <1>3, <1>4, <1>5, <1>6, <1>7, <1>8

(* A legal hold is placed or released; no record changes.                   *)
LEMMA HoldStep ==
    ASSUME MemoryInv, NEW h \in Holds, ReleaseHold(h) \/ \E m \in Memories : CreateHold(h, m)
    PROVE  MemoryInv'
  <1>1. UNCHANGED <<mem, request, writer, plan>> BY DEF ReleaseHold, CreateHold
  <1>2. PICK m \in LegalHold : hold' = [hold EXCEPT ![h] = m]
    BY DEF ReleaseHold, CreateHold, LegalHold
  <1> QED
    BY <1>1, <1>2 DEF MemoryInv, MemoryTypeOK, PendingStaysRevoked, Remembered

(* The plan moves on, and what the keyring holds with it.                    *)
LEMMA KeyStep ==
    ASSUME MemoryInv,
           \/ \E w \in Writers : SwitchWriter(w)
           \/ PlanStep
           \/ \E a \in Actors : RetireKey(a) \/ \E S \in SUBSET OldRecords : RotateBatch(a, S)
    PROVE  MemoryInv'
  <1>0. MemoryTypeOK /\ PendingStaysRevoked /\ plan \in RotationPlan
    BY DEF MemoryInv, MemoryTypeOK
  <1>1. ASSUME NEW w \in Writers, SwitchWriter(w) PROVE MemoryInv'
    BY <1>1 DEF SwitchWriter, MemoryInv, MemoryTypeOK, PendingStaysRevoked, Remembered, RotationBegun
  <1>2. CASE PlanStep
    <2>1. UNCHANGED <<mem, request, hold, writer>> BY <1>2 DEF PlanStep
    <2>2. /\ plan' \in RotationPlan
          /\ plan'.stage \in RotationBegun =>
                plan'.stage = "reencrypt" /\ \A w \in Writers : writer[w] = "new"
      <3> PICK a \in Actors :
            \/ Prepare(a) \/ EnableNewWrites(a)
            \/ (\A w \in Writers : writer[w] = "new") /\ BeginReencryption(a)
        BY <1>2 DEF PlanStep
      <3>1. CASE Prepare(a)
        BY <1>0, <3>1 DEF Prepare, RotationPlan, RotationBegun
      <3>2. CASE EnableNewWrites(a)
        BY <1>0, <3>2 DEF EnableNewWrites, RotationPlan, RotationBegun
      <3>3. CASE (\A w \in Writers : writer[w] = "new") /\ BeginReencryption(a)
        BY <1>0, <3>3 DEF BeginReencryption, RotationPlan, RotationBegun
      <3> QED BY <3>1, <3>2, <3>3
    <2> QED BY <2>1, <2>2 DEF MemoryInv, MemoryTypeOK, PendingStaysRevoked, Remembered, RotationBegun
  <1>3. ASSUME NEW a \in Actors, RetireKey(a) PROVE MemoryInv'
    <2>1. UNCHANGED <<mem, request, hold, writer>> /\ OldRecords = {} /\ plan.stage = "retire"
      BY <1>3 DEF RetireKey, Retire, MayRetire
    <2>2. plan' \in RotationPlan BY <1>0, <1>3 DEF RetireKey, Retire, RotationPlan
    <2>3. \A m \in Memories : Remembered(m) => mem[m].key = "new"
      BY <2>1 DEF OldRecords, MemoryInv, MemoryTypeOK, MemoryRecord
    <2> QED BY <2>1, <2>2, <2>3 DEF MemoryInv, MemoryTypeOK, PendingStaysRevoked, Remembered, RotationBegun
  <1>4. ASSUME NEW a \in Actors, NEW S \in SUBSET OldRecords, RotateBatch(a, S) PROVE MemoryInv'
    <2>1. UNCHANGED <<request, hold, writer>> /\ mem' = Reencrypted(S) /\ plan.stage = "reencrypt"
      BY <1>4 DEF RotateBatch, ReencryptBatch
    <2>2. plan' \in RotationPlan /\ plan'.stage \in {"reencrypt", "retire"}
      BY <1>0, <1>4 DEF RotateBatch, ReencryptBatch, RotationPlan
    <2>3. PICK K : K = Keyring OBVIOUS
    <2>4. /\ mem' \in [Memories -> MemoryRecord]
          /\ \A m \in Memories : /\ mem'[m].status = mem[m].status
                                 /\ mem'[m].terms \in {mem[m].terms, K}
      <3>1. K \in SUBSET {"old", "new"} BY <2>3, KeyringKeys
      <3>2. \A m \in Memories : mem'[m] = IF m \in S
              THEN [mem[m] EXCEPT !.key = "new", !.version = mem[m].version + 1, !.terms = K]
              ELSE mem[m]
        BY <2>1, <2>3 DEF Reencrypted
      <3>3. \A m \in Memories :
              [mem[m] EXCEPT !.key = "new", !.version = mem[m].version + 1, !.terms = K] \in MemoryRecord
        <4>1. ASSUME NEW r \in MemoryRecord
              PROVE  [r EXCEPT !.key = "new", !.version = r.version + 1, !.terms = K] \in MemoryRecord
          <5>1. r.version \in Nat BY DEF MemoryRecord
          <5>2. r.version + 1 \in Nat BY <5>1
          <5> QED BY <3>1, <5>2 DEF MemoryRecord
        <4>2. \A m \in Memories : mem[m] \in MemoryRecord BY <1>0 DEF MemoryTypeOK
        <4> QED BY <4>1, <4>2
      <3>4. \A m \in Memories : mem[m] \in MemoryRecord BY <1>0 DEF MemoryTypeOK
      <3>5. \A m \in Memories : mem'[m] \in MemoryRecord BY <3>2, <3>3, <3>4
      <3>6. mem' = [m \in Memories |-> mem'[m]] BY <2>1 DEF Reencrypted
      <3>7. mem' \in [Memories -> MemoryRecord] BY <3>5, <3>6
      <3>8. \A m \in Memories : mem'[m].status = mem[m].status /\ mem'[m].terms \in {mem[m].terms, K}
        BY <3>2, <3>4 DEF MemoryRecord
      <3> QED BY <3>7, <3>8
    <2> QED
      BY <1>0, <2>1, <2>2, <2>3, <2>4, KeyringKeys DEF MemoryInv, MemoryTypeOK, PendingStaysRevoked,
         Remembered, RotationBegun
  <1> QED BY <1>1, <1>2, <1>3, <1>4

(* Every step keeps the invariant.                                          *)
LEMMA MemoryInvNext == MemoryInv /\ [MemoryNext]_memoryVars => MemoryInv'
  <1> SUFFICES ASSUME MemoryInv, [MemoryNext]_memoryVars PROVE MemoryInv' OBVIOUS
  <1>1. CASE UNCHANGED memoryVars
    BY <1>1 DEF memoryVars, MemoryInv, MemoryTypeOK, PendingStaysRevoked, Remembered
  <1> QED BY <1>1, RecordStep, HoldStep, KeyStep DEF MemoryNext

(* The invariant says what the run checks.                                  *)
LEMMA MemoryInvImplies == MemoryInv => MemoryIsKept
  <1> SUFFICES ASSUME MemoryInv PROVE StoredIsReadable
    BY DEF MemoryInv, MemoryIsKept
  <1>1. \A m \in Memories : mem[m].key \in {"old", "new"}
    BY DEF MemoryInv, MemoryTypeOK, MemoryRecord
  <1> QED BY <1>1, KeyringKeys DEF MemoryInv, StoredIsReadable, Keyring

(* A memory with a pending deletion stays out of recall and one that is     *)
(* kept stays readable, through reviews, legal holds and each stage of a    *)
(* key rotation.                                                            *)
THEOREM MemoryStaysKept == MemorySpec => []MemoryIsKept
  <1>1. MemorySpec => []MemoryInv BY MemoryInvInit, MemoryInvNext, PTL DEF MemorySpec
  <1> QED BY <1>1, MemoryInvImplies, PTL
=============================================================================
