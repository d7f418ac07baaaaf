------------------------- MODULE SyncProtocol_proofs --------------------------
(***************************************************************************)
(* The protocol keeps its types, its cursors and its clean rows for any    *)
(* number of devices, ids, columns and retries and without any bound on    *)
(* writes, faults or revisions (a bound is a constant the proofs keep).    *)
(*                                                                         *)
(* ServedInv comes first: no assumption on faults or retention.  It is     *)
(* what makes the server's highest revision a number cursors can be        *)
(* compared with.  AgreementInv builds on it.                              *)
(***************************************************************************)
EXTENDS SyncProtocol, SyncServer_proofs

\* TypeOK without the server's part.
DeviceTypeOK ==
  /\ rows    \in [Device -> [Id -> LocalRow]]
  /\ cursor  \in [Device -> Nat \cup {NoCursor}]
  /\ pc      \in [Device -> RunLabels]
  /\ attempt \in [Device -> 0 .. Retries]
  /\ replace \in [Device -> BOOLEAN]
  /\ delta   \in [Device -> [Id -> Change]]
  /\ next    \in [Device -> Nat \cup {NoCursor}]
  /\ snap    \in [Device -> Request]
  /\ refused \in [Device -> SUBSET Id]
  /\ late    \in [Device -> [request : Request, since : Nat]]
  /\ born    \in SUBSET Id
  /\ writes  \in 0 .. MaxWrites
  /\ faults  \in 0 .. MaxFaults
  /\ \A d \in Device, i \in Id :
       /\ WellFormed(rows[d][i])
       /\ WellFormed(snap[d][i])
       /\ WellFormed(late[d].request[i])

\* The run variables' part.
RunTypeOK ==
  /\ pc      \in [Device -> RunLabels]
  /\ attempt \in [Device -> 0 .. Retries]
  /\ replace \in [Device -> BOOLEAN]
  /\ delta   \in [Device -> [Id -> Change]]
  /\ next    \in [Device -> Nat \cup {NoCursor}]
  /\ snap    \in [Device -> Request]
  /\ refused \in [Device -> SUBSET Id]
  /\ \A d \in Device, i \in Id : WellFormed(snap[d][i])

\* The two halves of the type invariant.
LEMMA TypeParts == TypeOK <=> ServerTypeOK /\ DeviceTypeOK
BY DEF TypeOK, DeviceTypeOK

\* An empty request and an empty changeset have the right types.
LEMMA EmptyMessages ==
  /\ NoRequest \in Request
  /\ \A i \in Id : NoRequest[i] = Absent /\ WellFormed(NoRequest[i])
  /\ NoChanges \in [Id -> Change]
  /\ NoLate \in [request : Request, since : Nat]
  /\ \A i \in Id : WellFormed(NoLate.request[i])
<1>1. WellFormed(Absent) /\ Absent \in LocalRow
  BY AbsentWellFormed DEF WellFormed
<1>2. Omitted \in Change
  BY DEF Change
<1> QED
  BY <1>1, <1>2 DEF NoRequest, NoChanges, NoLate, Request

\* The whole invariant holds initially.
LEMMA ServedInit == Init => ServedInv
<1> SUFFICES ASSUME Init PROVE ServedInv
  OBVIOUS
<1>1. ServerTypeOK /\ HistoryBounded
  <2>1. srv = [i \in Id |-> Unstored] /\ rev = 0 /\ floor = 0
        /\ acked = [i \in Id |-> {}]
    BY DEF Init, ServerInit
  <2>2. Topped(srv, floor)
    BY <2>1, ToppedByFloor DEF Unstored
  <2> QED
    BY <2>1, <2>2 DEF ServerTypeOK, HistoryBounded, StoredRow, Unstored, Body
<1>2. DeviceTypeOK
  BY EmptyMessages, AbsentWellFormed, ProtocolConstants
     DEF Init, DeviceTypeOK, RunLabels, WellFormed, NoCursor
<1>3. CursorServed /\ AnswersServed
  BY <1>1, EffMaxIsTop DEF Init, CursorServed, AnswersServed, NoCursor
<1> QED
  BY <1>1, <1>2, <1>3, TypeParts DEF ServedInv

\* Every step of the system is a move of the server.
LEMMA ServerStep ==
  ASSUME TypeOK, HistoryBounded, [Next]_vars
  PROVE  ServerTypeOK' /\ HistoryBounded' /\ ServerMoves
<1>0. ServerTypeOK
  BY DEF TypeOK
<1> SUFFICES ASSUME ~ UNCHANGED serverVars
             PROVE  ServerTypeOK' /\ HistoryBounded' /\ ServerMoves
  BY <1>0, StandingStillMoves
<1>1. ASSUME NEW d \in Device, NEW hooked, AcceptPush(d, hooked)
      PROVE  ServerTypeOK' /\ HistoryBounded' /\ ServerMoves
  <2>1. CommitPush(snap[d], Refused(snap[d], hooked))
    BY <1>1 DEF AcceptPush
  <2>2. snap[d] \in [Id -> LocalRow] /\ \A i \in Id : WellFormed(snap[d][i])
    BY DEF TypeOK, Request
  <2> QED
    BY <1>0, <2>1, <2>2, CommitPushMoves
<1>2. ASSUME NEW d \in Device, NEW hooked, LatePush(d, hooked)
      PROVE  ServerTypeOK' /\ HistoryBounded' /\ ServerMoves
  <2>1. CommitPush(late[d].request, Refused(late[d].request, hooked))
    BY <1>2 DEF LatePush
  <2>2. /\ late[d].request \in [Id -> LocalRow]
        /\ \A i \in Id : WellFormed(late[d].request[i])
    BY DEF TypeOK, Request
  <2> QED
    BY <1>0, <2>1, <2>2, CommitPushMoves
<1>3. ASSUME NEW f \in 1 .. rev + GcBeyond, Retain(f)
      PROVE  ServerTypeOK' /\ HistoryBounded' /\ ServerMoves
  <2>1. Gc(f) /\ f \in Nat
    BY <1>3 DEF Retain
  <2> QED
    BY <1>0, <2>1, GcMoves
<1>4. \/ \E d \in Device, hooked \in SUBSET HookIds :
           AcceptPush(d, hooked) \/ LatePush(d, hooked)
      \/ \E f \in 1 .. rev + GcBeyond : Retain(f)
  BY DEF Next, vars, LocalStep, RunStep, FaultStep, Create, Update,
         MarkAsDeleted, LocalWrite, StartRun, ServePull, RePull, ApplyPull,
         FinishApply, FetchNothing, FetchLocal, PushConflict, Retry, GiveUp,
         Mark, MarkOnly, ApplyInterleave, AdoptCursor, Interrupt
<1> QED
  BY <1>1, <1>2, <1>3, <1>4

\* A changeset window and a push answer are changesets.
LEMMA AnswerTypes ==
  ASSUME NEW r \in [Id -> StoredRow], NEW since, NEW excluded, NEW request
  PROVE  /\ Window(r, since, excluded) \in [Id -> Change]
         /\ PushChanges(request, since, r) \in [Id -> Change]
<1>1. \A x : Window(r, since, x) \in [Id -> Change]
  BY DEF Window, StoredRow, Change
<1>2. NoChanges \in [Id -> Change]
  BY EmptyMessages
<1> QED
  BY <1>1, <1>2 DEF PushChanges

\* Ending a run puts its variables back to their initial values.
LEMMA EndRunTypes ==
  ASSUME DeviceTypeOK, NEW d \in Device, EndRun(d)
  PROVE  RunTypeOK'
BY EmptyMessages, ProtocolConstants
   DEF DeviceTypeOK, RunTypeOK, EndRun, Goto, RunLabels, NoCursor

\* A local write stores a well formed row.
LEMMA LocalWriteTypes ==
  ASSUME DeviceTypeOK, NEW d \in Device, LocalStep(d)
  PROVE  DeviceTypeOK'
<1>1. PICK i \in Id, new \in LocalRow :
        /\ LocalWrite(d, i, new)
        /\ WellFormed(new)
        /\ born' \in SUBSET Id
  <2>1. CASE \E i \in Id, c \in Content : Create(d, i, c)
    <3>1. PICK i \in Id, c \in Content : Create(d, i, c)
      BY <2>1
    <3>2. WellFormed(CreatedRow(c))
      BY FreshRowsWellFormed
    <3> QED
      BY <3>1, <3>2 DEF Create, DeviceTypeOK, WellFormed
  <2>2. CASE \E i \in Id, c \in Content : Update(d, i, c)
    <3>1. PICK i \in Id, c \in Content : Update(d, i, c)
      BY <2>2
    <3>2. WellFormed(EditRow(rows[d][i], c))
      BY <3>1, EditRowWellFormed DEF Update, DeviceTypeOK
    <3> QED
      BY <3>1, <3>2 DEF Update, DeviceTypeOK, WellFormed
  <2>3. CASE \E i \in Id : MarkAsDeleted(d, i)
    BY <2>3, AbsentWellFormed DEF MarkAsDeleted, DeviceTypeOK, WellFormed
  <2> QED
    BY <2>1, <2>2, <2>3 DEF LocalStep
<1>2. /\ rows' = [rows EXCEPT ![d][i] = new]
      /\ writes' = writes + 1 /\ writes < MaxWrites
      /\ UNCHANGED <<cursor, pc, attempt, replace, delta, next, snap, refused,
                     late, faults>>
  BY <1>1 DEF LocalWrite, runVars
<1>3. new \in LocalRow
  BY <1>1 DEF WellFormed
<1>4. /\ rows' \in [Device -> [Id -> LocalRow]]
      /\ \A e \in Device, j \in Id :
           rows'[e][j] = IF e = d /\ j = i THEN new ELSE rows[e][j]
  BY <1>2, <1>3 DEF DeviceTypeOK
<1>5. writes' \in 0 .. MaxWrites
  BY <1>2, ProtocolConstants DEF DeviceTypeOK
<1> QED
  BY <1>1, <1>2, <1>4, <1>5 DEF DeviceTypeOK

\* Rows that went through the merge rules are well formed.
LEMMA MergeDeltaTypes ==
  ASSUME DeviceTypeOK, NEW d \in Device, MergeDelta(d)
  PROVE  /\ rows' \in [Device -> [Id -> LocalRow]]
         /\ \A e \in Device, i \in Id : WellFormed(rows'[e][i])
         /\ \A i \in Id :
              rows'[d][i] = ApplyChange(rows[d][i], delta[d][i], replace[d])
         /\ \A e \in Device : e # d => rows'[e] = rows[e]
<1> DEFINE merged == [i \in Id |-> ApplyChange(rows[d][i], delta[d][i], replace[d])]
<1>1. rows' = [rows EXCEPT ![d] = merged]
  BY DEF MergeDelta
<1>2. \A i \in Id : WellFormed(merged[i])
  BY ApplyChangeRow DEF DeviceTypeOK
<1>3. merged \in [Id -> LocalRow]
  BY <1>2 DEF WellFormed
<1>4. rows \in [Device -> [Id -> LocalRow]]
  BY DEF DeviceTypeOK
<1>5. rows'[d] = merged /\ \A e \in Device : e # d => rows'[e] = rows[e]
  BY <1>1, <1>4
<1> QED
  BY <1>1, <1>2, <1>3, <1>4, <1>5 DEF DeviceTypeOK

\* So are marked rows.
LEMMA MarkRowsTypes ==
  ASSUME DeviceTypeOK, NEW d \in Device, MarkRows(d)
  PROVE  /\ rows' \in [Device -> [Id -> LocalRow]]
         /\ \A e \in Device, i \in Id : WellFormed(rows'[e][i])
         /\ \A i \in Id :
              rows'[d][i] = MarkSynced(rows[d][i], snap[d][i], i \in refused[d])
         /\ \A e \in Device : e # d => rows'[e] = rows[e]
<1> DEFINE marks == [i \in Id |-> MarkSynced(rows[d][i], snap[d][i], i \in refused[d])]
<1>1. rows' = [rows EXCEPT ![d] = marks]
  BY DEF MarkRows
<1>2. ASSUME NEW i \in Id PROVE WellFormed(marks[i])
  <2>1. WellFormed(rows[d][i]) /\ WellFormed(snap[d][i])
    BY DEF DeviceTypeOK
  <2>2. (i \in refused[d]) \in BOOLEAN
    OBVIOUS
  <2> QED
    BY <2>1, <2>2, MarkSyncedRow
<1>3. marks \in [Id -> LocalRow]
  BY <1>2 DEF WellFormed
<1>4. rows \in [Device -> [Id -> LocalRow]]
  BY DEF DeviceTypeOK
<1>5. rows'[d] = marks /\ \A e \in Device : e # d => rows'[e] = rows[e]
  BY <1>1, <1>4
<1> QED
  BY <1>1, <1>2, <1>3, <1>4, <1>5 DEF DeviceTypeOK

\* The cursors the server hands out are revisions.
LEMMA CursorTypes ==
  ASSUME ServerTypeOK, HistoryBounded
  PROVE  /\ EffMax \in Nat
         /\ \A c \in Nat \cup {NoCursor} : PullCursor(c) \in Nat
<1>1. EffMax \in Nat
  BY EffMaxIsTop
<1> QED
  BY <1>1 DEF PullCursor, NoCursor

\* What an accepted push puts on its way: the cursor is a revision the
\* server now serves, or none when the request's cursor fell below the floor.
LEMMA AcceptPushAnswer ==
  ASSUME TypeOK, HistoryBounded, NEW d \in Device, NEW hooked,
         AcceptPush(d, hooked)
  PROVE  LET store == StoreAfter(snap[d], Refused(snap[d], hooked))
         IN  /\ store \in [Id -> StoredRow]
             /\ srv' = store
             /\ delta' = [delta EXCEPT ![d] = PushChanges(snap[d], next[d], store)]
             /\ next' = [next EXCEPT ![d] =
                           IF next[d] < floor THEN NoCursor ELSE EffMax']
             /\ EffMax' \in Nat
             /\ floor' = floor
<1> DEFINE store == StoreAfter(snap[d], Refused(snap[d], hooked))
<1>1. CommitPush(snap[d], Refused(snap[d], hooked))
  BY DEF AcceptPush
<1>2. srv' = store /\ floor' = floor
  BY <1>1 DEF CommitPush
<1>3. ServerTypeOK' /\ HistoryBounded'
  BY <1>1, CommitPushMoves DEF TypeOK, Request
<1>4. store \in [Id -> StoredRow]
  BY <1>2, <1>3 DEF ServerTypeOK
<1>5. EffMax' = TopOf(store, floor)
  BY <1>2 DEF EffMax, TopOf
<1>6. EffMax' \in Nat
  <2>1. Topped(store, floor)
    BY StoreAfterTopped DEF TypeOK, Request
  <2> QED
    BY <1>4, <1>5, <2>1, TopOfIsTop DEF TypeOK, ServerTypeOK
<1> QED
  BY <1>2, <1>4, <1>5, <1>6 DEF AcceptPush, PushCursor

\* Every step keeps the types of what devices and messages hold.
LEMMA DeviceTypeStep ==
  ASSUME TypeOK, HistoryBounded, AnswersServed, [Next]_vars
  PROVE  DeviceTypeOK'
<1>0. ServerTypeOK /\ DeviceTypeOK
  BY TypeParts
<1>1. CASE UNCHANGED vars
  BY <1>0, <1>1 DEF DeviceTypeOK, vars, runVars, budgetVars
<1>2. ASSUME NEW d \in Device, LocalStep(d) PROVE DeviceTypeOK'
  BY <1>0, <1>2, LocalWriteTypes
<1>3. ASSUME NEW d \in Device, StartRun(d) PROVE DeviceTypeOK'
  BY <1>0, <1>3, ProtocolConstants
     DEF StartRun, DeviceTypeOK, Goto, RunLabels, budgetVars
<1>4. ASSUME NEW d \in Device, ServePull(d) PROVE DeviceTypeOK'
  <2>1. RequestCursor(d) \in Nat \cup {NoCursor}
    BY <1>0 DEF RequestCursor, DeviceTypeOK
  <2>2. PullCursor(RequestCursor(d)) \in Nat
    BY <1>0, <2>1, CursorTypes
  <2>3. PullChanges(RequestCursor(d)) \in [Id -> Change]
    BY <1>0, AnswerTypes DEF PullChanges, ServerTypeOK
  <2>4. /\ pc' \in [Device -> RunLabels]
        /\ delta' \in [Device -> [Id -> Change]]
        /\ next' \in [Device -> Nat \cup {NoCursor}]
    <3>1. CASE PullExpired(RequestCursor(d))
      BY <1>0, <1>4, <3>1 DEF ServePull, DeviceTypeOK, Goto, RunLabels
    <3>2. CASE ~PullExpired(RequestCursor(d))
      <4>1. /\ pc' = [pc EXCEPT ![d] = "pulled"]
            /\ delta' = [delta EXCEPT ![d] = PullChanges(RequestCursor(d))]
            /\ next' = [next EXCEPT ![d] = PullCursor(RequestCursor(d))]
        BY <1>4, <3>2 DEF ServePull, Goto
      <4>2. delta' \in [Device -> [Id -> Change]]
        BY <1>0, <2>3, <4>1 DEF DeviceTypeOK
      <4> QED
        BY <1>0, <2>2, <4>1, <4>2 DEF DeviceTypeOK, RunLabels
    <3> QED
      BY <3>1, <3>2
  <2> QED
    BY <1>0, <1>4, <2>4 DEF ServePull, DeviceTypeOK, budgetVars
<1>5. ASSUME NEW d \in Device, RePull(d) PROVE DeviceTypeOK'
  BY <1>0, <1>5 DEF RePull, DeviceTypeOK, Goto, RunLabels, budgetVars
<1>6. ASSUME NEW d \in Device, ApplyPull(d) \/ ApplyInterleave(d)
      PROVE  DeviceTypeOK'
  <2>1. /\ rows' \in [Device -> [Id -> LocalRow]]
        /\ \A e \in Device, i \in Id : WellFormed(rows'[e][i])
    BY <1>0, <1>6, MergeDeltaTypes DEF ApplyPull, ApplyInterleave
  <2> QED
    BY <1>0, <1>6, <2>1
       DEF ApplyPull, ApplyInterleave, DeviceTypeOK, Goto, RunLabels, budgetVars
<1>7. ASSUME NEW d \in Device, FinishApply(d) PROVE DeviceTypeOK'
  BY <1>0, <1>7, EmptyMessages
     DEF FinishApply, SaveCursor, DeviceTypeOK, Goto, RunLabels, budgetVars
<1>8. ASSUME NEW d \in Device, FetchNothing(d) \/ GiveUp(d) PROVE DeviceTypeOK'
  <2>1. RunTypeOK'
    BY <1>0, <1>8, EndRunTypes DEF FetchNothing, GiveUp
  <2> QED
    BY <1>0, <1>8, <2>1
       DEF FetchNothing, GiveUp, DeviceTypeOK, RunTypeOK, budgetVars
<1>9. ASSUME NEW d \in Device, FetchLocal(d) PROVE DeviceTypeOK'
  <2> DEFINE copy == [i \in Id |-> Frozen(rows[d][i])]
  <2>1. \A i \in Id : WellFormed(copy[i])
    BY <1>0, FrozenRow DEF DeviceTypeOK
  <2>2. copy \in Request
    BY <2>1 DEF WellFormed, Request
  <2>3. snap' = [snap EXCEPT ![d] = copy]
    BY <1>9 DEF FetchLocal
  <2> HIDE DEF copy
  <2>4. /\ snap' \in [Device -> Request]
        /\ \A e \in Device, i \in Id : WellFormed(snap'[e][i])
    BY <1>0, <2>1, <2>2, <2>3 DEF DeviceTypeOK
  <2> QED
    BY <1>0, <1>9, <2>4 DEF FetchLocal, DeviceTypeOK, Goto, RunLabels, budgetVars
<1>10. ASSUME NEW d \in Device, PushConflict(d) PROVE DeviceTypeOK'
  BY <1>0, <1>10 DEF PushConflict, DeviceTypeOK, Goto, RunLabels, budgetVars
<1>11. ASSUME NEW d \in Device, Retry(d) PROVE DeviceTypeOK'
  BY <1>0, <1>11, EmptyMessages, ProtocolConstants
     DEF Retry, DeviceTypeOK, Goto, RunLabels, NoCursor, budgetVars
<1>12. ASSUME NEW d \in Device, NEW hooked \in SUBSET HookIds, AcceptPush(d, hooked)
       PROVE  DeviceTypeOK'
  <2> DEFINE store == StoreAfter(snap[d], Refused(snap[d], hooked))
  <2>1. /\ PushChanges(snap[d], next[d], store) \in [Id -> Change]
        /\ delta' = [delta EXCEPT ![d] = PushChanges(snap[d], next[d], store)]
        /\ EffMax' \in Nat
        /\ next' = [next EXCEPT ![d] = IF next[d] < floor THEN NoCursor ELSE EffMax']
    BY <1>12, AcceptPushAnswer, AnswerTypes
  <2>2. delta' \in [Device -> [Id -> Change]]
    BY <1>0, <2>1 DEF DeviceTypeOK
  <2>3. next' \in [Device -> Nat \cup {NoCursor}]
    BY <1>0, <2>1 DEF DeviceTypeOK
  <2>4. Refused(snap[d], hooked) \in SUBSET Id
    BY DEF Refused, Named, Upserts
  <2> QED
    BY <1>0, <1>12, <2>2, <2>3, <2>4
       DEF AcceptPush, DeviceTypeOK, Goto, RunLabels, budgetVars
<1>13. ASSUME NEW d \in Device, Mark(d) \/ MarkOnly(d) PROVE DeviceTypeOK'
  <2>1. /\ rows' \in [Device -> [Id -> LocalRow]]
        /\ \A e \in Device, i \in Id : WellFormed(rows'[e][i])
    BY <1>0, <1>13, MarkRowsTypes DEF Mark, MarkOnly
  <2>2. RunTypeOK'
    <3>1. CASE Mark(d)
      BY <1>0, <3>1 DEF Mark, DeviceTypeOK, RunTypeOK, Goto, RunLabels
    <3>2. CASE MarkOnly(d)
      BY <1>0, <3>2, EndRunTypes DEF MarkOnly
    <3> QED
      BY <1>13, <3>1, <3>2
  <2> QED
    BY <1>0, <1>13, <2>1, <2>2
       DEF Mark, MarkOnly, DeviceTypeOK, RunTypeOK, budgetVars
<1>14. ASSUME NEW d \in Device, AdoptCursor(d) PROVE DeviceTypeOK'
  <2>1. RunTypeOK'
    BY <1>0, <1>14, EndRunTypes DEF AdoptCursor
  <2> QED
    BY <1>0, <1>14, <2>1
       DEF AdoptCursor, SaveCursor, DeviceTypeOK, RunTypeOK, budgetVars
<1>15. ASSUME NEW d \in Device, Interrupt(d) PROVE DeviceTypeOK'
  <2>1. RunTypeOK'
    BY <1>0, <1>15, EndRunTypes DEF Interrupt
  <2>2. /\ late' \in [Device -> [request : Request, since : Nat]]
        /\ \A e \in Device, i \in Id : WellFormed(late'[e].request[i])
    <3>1. CASE pc[d] = "pushing"
      <4> DEFINE parting == [request |-> snap[d], since |-> next[d]]
      <4>1. late' = [late EXCEPT ![d] = parting]
        BY <1>15, <3>1 DEF Interrupt
      <4>2. parting \in [request : Request, since : Nat]
        BY <1>0, <3>1 DEF DeviceTypeOK, AnswersServed
      <4>3. \A i \in Id : WellFormed(parting.request[i])
        BY <1>0 DEF DeviceTypeOK
      <4> HIDE DEF parting
      <4> QED
        BY <1>0, <4>1, <4>2, <4>3 DEF DeviceTypeOK
    <3>2. CASE pc[d] # "pushing"
      BY <1>0, <1>15, <3>2 DEF Interrupt, DeviceTypeOK
    <3> QED
      BY <3>1, <3>2
  <2>3. faults' \in 0 .. MaxFaults
    BY <1>0, <1>15, ProtocolConstants DEF Interrupt, DeviceTypeOK
  <2> QED
    BY <1>0, <1>15, <2>1, <2>2, <2>3 DEF Interrupt, DeviceTypeOK, RunTypeOK
<1>16. ASSUME NEW d \in Device, NEW hooked, LatePush(d, hooked) PROVE DeviceTypeOK'
  <2>1. late' = [late EXCEPT ![d] = NoLate]
    BY <1>16 DEF LatePush
  <2>2. /\ late' \in [Device -> [request : Request, since : Nat]]
        /\ \A e \in Device, i \in Id : WellFormed(late'[e].request[i])
    BY <1>0, <2>1, EmptyMessages DEF DeviceTypeOK
  <2> QED
    BY <1>0, <1>16, <2>2 DEF LatePush, DeviceTypeOK, runVars, budgetVars
<1>17. ASSUME NEW f \in 1 .. rev + GcBeyond, Retain(f) PROVE DeviceTypeOK'
  BY <1>0, <1>17 DEF Retain, DeviceTypeOK, runVars, budgetVars
<1> QED
  BY <1>1, <1>2, <1>3, <1>4, <1>5, <1>6, <1>7, <1>8, <1>9, <1>10, <1>11, <1>12,
     <1>13, <1>14, <1>15, <1>16, <1>17 DEF Next, RunStep, FaultStep

\* Cursors and answers stay within the history served: what is handed out is
\* its highest revision, and that only grows.
LEMMA CursorsStep ==
  ASSUME ServedInv, [Next]_vars
  PROVE  CursorServed' /\ AnswersServed'
<1>0. TypeOK /\ ServerTypeOK /\ DeviceTypeOK /\ HistoryBounded
      /\ CursorServed /\ AnswersServed
  BY TypeParts DEF ServedInv
<1>1. /\ ServerTypeOK' /\ HistoryBounded' /\ ServerMoves
      /\ EffMax \in Nat /\ EffMax' \in Nat /\ EffMax <= EffMax'
  BY <1>0, ServerStep, EffMaxIsTop, NextEffMaxIsTop DEF ServerMoves
<1>2. \A d \in Device :
        /\ cursor[d] \in Nat \cup {NoCursor} /\ next[d] \in Nat \cup {NoCursor}
        /\ cursor[d] <= EffMax /\ next[d] <= EffMax
        /\ cursor[d] <= EffMax' /\ next[d] <= EffMax'
  <2> TAKE d \in Device
  <2>1. cursor[d] \in Nat \cup {NoCursor} /\ next[d] \in Nat \cup {NoCursor}
    BY <1>0 DEF DeviceTypeOK
  <2>2. cursor[d] <= EffMax /\ next[d] <= EffMax
    BY <1>0 DEF CursorServed, AnswersServed
  <2> QED
    BY <1>1, <2>1, <2>2 DEF NoCursor
<1>3. NoCursor <= EffMax'
  BY <1>1 DEF NoCursor
<1> DEFINE Good == /\ \A d \in Device : cursor'[d] <= EffMax'
                   /\ \A d \in Device : next'[d] <= EffMax'
                   /\ \A d \in Device :
                        pc'[d] \in {"pulled", "applied", "ready", "pushing"} =>
                          next'[d] # NoCursor
<1> SUFFICES Good
  BY DEF CursorServed, AnswersServed
<1>4. \A d \in Device :
        pc[d] \in {"pulled", "applied", "ready", "pushing"} => next[d] # NoCursor
  BY <1>0 DEF AnswersServed
<1>5. CASE UNCHANGED <<cursor, pc, next>>
  BY <1>2, <1>4, <1>5
<1>6. ASSUME NEW d \in Device, EndRun(d), UNCHANGED cursor PROVE Good
  <2>1. /\ next' = [next EXCEPT ![d] = NoCursor]
        /\ pc' = [pc EXCEPT ![d] = "idle"]
    BY <1>6 DEF EndRun, Goto
  <2> QED
    BY <1>0, <1>2, <1>3, <1>4, <1>6, <2>1 DEF DeviceTypeOK
<1>7. ASSUME NEW d \in Device, UNCHANGED <<cursor, next>>,
             NEW label \in {"pulling", "expired", "conflict", "marked", "merged"},
             Goto(d, label)
      PROVE  Good
  BY <1>0, <1>2, <1>4, <1>7 DEF DeviceTypeOK, Goto
<1>8. ASSUME NEW d \in Device, ServePull(d) PROVE Good
  <2>1. CASE PullExpired(RequestCursor(d))
    BY <1>7, <1>8, <2>1 DEF ServePull
  <2>2. CASE ~PullExpired(RequestCursor(d))
    <3>1. RequestCursor(d) \in Nat \cup {NoCursor} /\ RequestCursor(d) <= EffMax
      BY <1>1, <1>2 DEF RequestCursor, NoCursor
    <3>2. PullCursor(RequestCursor(d)) = EffMax
      BY <1>1, <3>1 DEF PullCursor, NoCursor
    <3>3. /\ next' = [next EXCEPT ![d] = EffMax] /\ cursor' = cursor
          /\ pc' = [pc EXCEPT ![d] = "pulled"]
      BY <1>8, <2>2, <3>2 DEF ServePull, Goto
    <3> QED
      BY <1>0, <1>1, <1>2, <1>4, <3>3 DEF DeviceTypeOK, NoCursor
  <2> QED
    BY <2>1, <2>2
<1>9. ASSUME NEW d \in Device, ApplyPull(d) \/ FetchLocal(d) PROVE Good
  <2>1. /\ UNCHANGED <<cursor, next>> /\ pc[d] \in {"pulled", "ready"}
        /\ pc' = [pc EXCEPT ![d] = IF ApplyPull(d) THEN "applied" ELSE "pushing"]
    BY <1>9 DEF ApplyPull, FetchLocal, Goto
  <2> QED
    BY <1>0, <1>2, <1>4, <2>1 DEF DeviceTypeOK
<1>10. ASSUME NEW d \in Device, FinishApply(d) PROVE Good
  <2>1. /\ next' = next /\ pc[d] = "applied"
        /\ cursor' = [cursor EXCEPT ![d] = next[d]]
        /\ pc' = [pc EXCEPT ![d] = "ready"]
    BY <1>10 DEF FinishApply, SaveCursor, Goto
  <2> QED
    BY <1>0, <1>2, <1>4, <2>1 DEF DeviceTypeOK
<1>11. ASSUME NEW d \in Device, Retry(d) PROVE Good
  <2>1. /\ cursor' = cursor
        /\ next' = [next EXCEPT ![d] = NoCursor]
        /\ pc' = [pc EXCEPT ![d] = "pulling"]
    BY <1>11 DEF Retry, Goto
  <2> QED
    BY <1>0, <1>2, <1>3, <1>4, <2>1 DEF DeviceTypeOK
<1>12. ASSUME NEW d \in Device, NEW hooked, AcceptPush(d, hooked) PROVE Good
  <2>1. /\ cursor' = cursor
        /\ next' = [next EXCEPT ![d] = IF next[d] < floor THEN NoCursor ELSE EffMax']
        /\ pc' = [pc EXCEPT ![d] = "pushed"]
    BY <1>0, <1>12, AcceptPushAnswer DEF AcceptPush, Goto
  <2> QED
    BY <1>0, <1>1, <1>2, <1>3, <1>4, <2>1 DEF DeviceTypeOK
<1>13. ASSUME NEW d \in Device, AdoptCursor(d) PROVE Good
  <2>1. /\ next' = [next EXCEPT ![d] = NoCursor]
        /\ cursor' = [cursor EXCEPT ![d] = next[d]]
        /\ pc' = [pc EXCEPT ![d] = "idle"]
    BY <1>13 DEF AdoptCursor, SaveCursor, EndRun, Goto
  <2> QED
    BY <1>0, <1>2, <1>3, <1>4, <2>1 DEF DeviceTypeOK
<1>14. ASSUME NEW d \in Device, LocalStep(d) PROVE Good
  BY <1>5, <1>14 DEF LocalStep, Create, Update, MarkAsDeleted, LocalWrite, runVars
<1>15. ASSUME NEW d \in Device, RunStep(d) PROVE Good
  <2>1. CASE StartRun(d) \/ RePull(d) \/ PushConflict(d) \/ Mark(d) \/ ApplyInterleave(d)
    BY <1>7, <2>1 DEF StartRun, RePull, PushConflict, Mark, ApplyInterleave
  <2>2. CASE FetchNothing(d) \/ GiveUp(d) \/ MarkOnly(d)
    BY <1>6, <2>2 DEF FetchNothing, GiveUp, MarkOnly
  <2> QED
    BY <1>8, <1>9, <1>10, <1>11, <1>12, <1>13, <1>15, <2>1, <2>2 DEF RunStep
<1>16. ASSUME NEW d \in Device, FaultStep(d) PROVE Good
  BY <1>5, <1>6, <1>16 DEF FaultStep, Interrupt, LatePush, runVars
<1>17. ASSUME NEW f, Retain(f) PROVE Good
  BY <1>5, <1>17 DEF Retain, runVars
<1>18. CASE UNCHANGED vars
  BY <1>5, <1>18 DEF vars, runVars
<1> QED
  BY <1>14, <1>15, <1>16, <1>17, <1>18 DEF Next

\* The first invariant is inductive.
LEMMA ServedStep == ServedInv /\ [Next]_vars => ServedInv'
<1> SUFFICES ASSUME ServedInv, [Next]_vars PROVE ServedInv'
  OBVIOUS
<1>1. ServerTypeOK' /\ HistoryBounded'
  BY ServerStep DEF ServedInv
<1>2. DeviceTypeOK'
  BY DeviceTypeStep DEF ServedInv
<1>3. TypeOK'
  BY <1>1, <1>2 DEF TypeOK, DeviceTypeOK
<1> QED
  BY <1>1, <1>3, CursorsStep DEF ServedInv

\* And so it holds throughout, under no assumption but the constants'.
LEMMA ServedAlways == Spec => []ServedInv
BY ServedInit, ServedStep, PTL DEF Spec

\* Type correctness, for any constants: rows and frozen copies always have a
\* shape the record layer can store, messages and cursors their domains.
THEOREM TypeCorrect == Spec => []TypeOK
<1>1. ServedInv => TypeOK
  BY DEF ServedInv
<1> QED
  BY <1>1, ServedAlways, PTL

\* No device's cursor is ever above what the server serves, whatever is
\* lost, replayed or pruned, and however far above the last revision a gc
\* floor is put: the engine's foreign-cursor refusal never meets a cursor
\* it issued.
THEOREM CursorsServed == Spec => []CursorServed
<1>1. ServedInv => CursorServed
  BY DEF ServedInv
<1> QED
  BY <1>1, ServedAlways, PTL

-----------------------------------------------------------------------------
(***************************************************************************)
(* Agreement.  It needs two things of the surroundings: a gc floor is a    *)
(* revision the server has reached, and no device dies between the two     *)
(* commits of its very first apply.                                        *)
(***************************************************************************)
Discipline == GcBeyond = 0 /\ FirstApplyCrash = FALSE

\* AgreementInv as it concerns one device.
DeviceInv(d) ==
  /\ cursor[d] = NoCursor /\ pc[d] # "applied" =>
       \A i \in Id : rows[d][i].status # "synced"
  /\ pc[d] \in {"ready", "pushing"} => next[d] = cursor[d]
  /\ pc[d] \in {"conflict", "pushed", "marked", "merged"} =>
       cursor[d] # NoCursor /\ ~replace[d]
  /\ pc[d] \in {"ready", "pushing"} => ~replace[d]
  /\ pc[d] \in {"pulled", "applied", "marked", "merged"} => cursor[d] <= next[d]
  /\ pc[d] = "pushed" =>
       cursor[d] <= next[d] \/ (next[d] = NoCursor /\ cursor[d] < floor)
  /\ \A i \in Id :
       /\ Agrees(cursor[d], rows[d][i], srv[i])
       /\ pc[d] \in {"pulled", "pushed", "marked"} =>
            Delivers(next[d], delta[d][i], replace[d], rows[d][i], srv[i])
       /\ pc[d] \in {"applied", "merged"} => Agrees(next[d], rows[d][i], srv[i])
       /\ pc[d] \in {"pushing", "pushed"} /\ IsDirty(snap[d][i]) =>
            /\ IsDirty(rows[d][i])
            /\ pc[d] = "pushed" /\ i \notin refused[d] /\ Reaches(next[d], srv[i]) =>
                 srv[i].body = snap[d][i].data

\* The invariant is about each device on its own.
LEMMA AgreementParts ==
  AgreementInv <=> UnstoredIsGone /\ \A d \in Device : DeviceInv(d)
BY DEF AgreementInv, DeviceInv, NothingBeforeCursor, CursorBehindAnswer,
       CleanRowsAgree, AnswersDeliver, SnapshotsStand, Agrees, Reaches

\* Cursors and answers are revisions that were handed out.
LEMMA CursorsReached ==
  ASSUME ServedInv, UnstoredIsGone, NEW d \in Device
  PROVE  /\ cursor[d] \in Nat \cup {NoCursor} /\ cursor[d] <= rev
         /\ next[d] \in Nat \cup {NoCursor} /\ next[d] <= rev
<1>1. /\ EffMax \in Nat /\ rev \in Nat
      /\ EffMax \in {floor} \cup {srv[i].rev : i \in Id}
  BY EffMaxIsTop DEF ServedInv, TypeOK, ServerTypeOK
<1>2. EffMax <= rev
  BY <1>1 DEF ServedInv, HistoryBounded, UnstoredIsGone
<1>3. cursor[d] \in Nat \cup {NoCursor} /\ next[d] \in Nat \cup {NoCursor}
  BY DEF ServedInv, TypeOK
<1>4. cursor[d] <= EffMax /\ next[d] <= EffMax
  BY DEF ServedInv, CursorServed, AnswersServed
<1> QED
  BY <1>1, <1>2, <1>3, <1>4 DEF NoCursor

\* A row within a cursor's reach after a move of the server was so before.
LEMMA ReachBack ==
  ASSUME ServedInv, ServerTypeOK', ServerMoves, NEW c \in Nat \cup {NoCursor},
         c <= rev, NEW i \in Id, floor' <= c, srv'[i].rev <= c
  PROVE  Reaches(c, srv[i]) /\ srv'[i].body = srv[i].body
<1>1. c \in Nat
  BY DEF ServerTypeOK, NoCursor
<1> QED
  BY <1>1 DEF ServerMoves, Reaches

\* A device stays as it was, or gets dirty rows, while the server moves.
LEMMA StandingDevice ==
  ASSUME ServedInv, UnstoredIsGone, ServerTypeOK', ServerMoves,
         NEW d \in Device, DeviceInv(d),
         \A i \in Id : rows'[d][i] = rows[d][i] \/ IsDirty(rows'[d][i]),
         UNCHANGED <<cursor[d], pc[d], replace[d], delta[d], next[d], snap[d],
                     refused[d]>>
  PROVE  DeviceInv(d)'
<1>1. /\ cursor[d] \in Nat \cup {NoCursor} /\ cursor[d] <= rev
      /\ next[d] \in Nat \cup {NoCursor} /\ next[d] <= rev
  BY CursorsReached
<1>2. /\ cursor'[d] = cursor[d] /\ pc'[d] = pc[d] /\ replace'[d] = replace[d]
      /\ delta'[d] = delta[d] /\ next'[d] = next[d] /\ snap'[d] = snap[d]
      /\ refused'[d] = refused[d]
  OBVIOUS
<1>3. \A i \in Id : IsDirty(rows[d][i]) => IsDirty(rows'[d][i])
  OBVIOUS
<1>4. \A i \in Id : rows[d][i].status # "synced" => rows'[d][i].status # "synced"
  BY DEF IsDirty
<1>5. floor \in Nat /\ floor' \in Nat /\ floor <= floor'
  BY DEF ServedInv, TypeOK, ServerTypeOK, ServerMoves
<1>6. pc[d] = "pushed" =>
        cursor[d] <= next[d] \/ (next[d] = NoCursor /\ cursor[d] < floor')
  BY <1>1, <1>5 DEF DeviceInv, NoCursor
<1>7. ASSUME NEW i \in Id
      PROVE  /\ Agrees(cursor[d], rows[d][i], srv[i])'
             /\ pc[d] \in {"pulled", "pushed", "marked"} =>
                  Delivers(next[d], delta[d][i], replace[d], rows[d][i], srv[i])'
             /\ pc[d] \in {"applied", "merged"} =>
                  Agrees(next[d], rows[d][i], srv[i])'
             /\ pc[d] = "pushed" /\ IsDirty(snap[d][i]) /\ i \notin refused[d]
                  /\ Reaches(next[d], srv[i])' => srv'[i].body = snap[d][i].data
  <2>1. Reaches(cursor[d], srv[i])' =>
          Reaches(cursor[d], srv[i]) /\ srv'[i].body = srv[i].body
    BY <1>1, <1>2, ReachBack DEF Reaches
  <2>2. Reaches(next[d], srv[i])' =>
          Reaches(next[d], srv[i]) /\ srv'[i].body = srv[i].body
    BY <1>1, <1>2, ReachBack DEF Reaches
  <2>3. ~IsDirty(rows'[d][i]) => rows'[d][i] = rows[d][i]
    OBVIOUS
  <2>4. Agrees(cursor[d], rows[d][i], srv[i])'
    BY <2>1, <2>3 DEF DeviceInv, Agrees
  <2>5. ASSUME pc[d] \in {"pulled", "pushed", "marked"}
        PROVE  Delivers(next[d], delta[d][i], replace[d], rows[d][i], srv[i])'
    BY <1>2, <2>2, <2>3, <2>5 DEF DeviceInv, Delivers
  <2>6. ASSUME pc[d] \in {"applied", "merged"}
        PROVE  Agrees(next[d], rows[d][i], srv[i])'
    BY <2>2, <2>3, <2>6 DEF DeviceInv, Agrees
  <2> QED
    BY <1>2, <2>2, <2>4, <2>5, <2>6 DEF DeviceInv
<1> QED
  BY <1>2, <1>3, <1>4, <1>6, <1>7 DEF DeviceInv

\* A device between runs, or with nothing merged on its way.
LEMMA RestingDevice ==
  ASSUME NEW d \in Device, DeviceInv(d),
         UNCHANGED <<serverVars, rows, cursor>>,
         pc'[d] \in {"idle", "pulling", "expired"},
         pc[d] = "applied" => cursor[d] # NoCursor
  PROVE  DeviceInv(d)'
<1>1. srv' = srv /\ floor' = floor /\ rows' = rows /\ cursor' = cursor
  BY DEF serverVars
<1>2. \A i \in Id : Agrees(cursor[d], rows[d][i], srv[i])'
  BY <1>1 DEF DeviceInv, Agrees, Reaches
<1>3. cursor'[d] = NoCursor => \A i \in Id : rows'[d][i].status # "synced"
  BY <1>1 DEF DeviceInv
<1> QED
  BY <1>2, <1>3 DEF DeviceInv

\* A served pull delivers: what it does not carry was agreed before, or is
\* not on the server.
LEMMA ServePullDelivers ==
  ASSUME ServedInv, UnstoredIsGone, NEW d \in Device, DeviceInv(d), ServePull(d)
  PROVE  DeviceInv(d)'
<1> DEFINE c     == RequestCursor(d)
           since == IF c = NoCursor THEN 0 ELSE c
<1>1. /\ srv' = srv /\ floor' = floor /\ rows' = rows /\ cursor' = cursor
      /\ replace' = replace /\ UNCHANGED <<serverVars, rows, cursor>>
      /\ pc[d] = "pulling"
  BY DEF ServePull, serverVars
<1>2. /\ pc \in [Device -> RunLabels] /\ delta \in [Device -> [Id -> Change]]
      /\ next \in [Device -> Nat \cup {NoCursor}]
      /\ cursor[d] \in Nat \cup {NoCursor} /\ replace[d] \in BOOLEAN
      /\ srv \in [Id -> StoredRow] /\ floor \in Nat
  BY DEF ServedInv, TypeOK, ServerTypeOK
<1>3. CASE PullExpired(c)
  <2>1. pc'[d] = "expired"
    BY <1>2, <1>3 DEF ServePull, Goto
  <2> QED
    BY <1>1, <2>1, RestingDevice
<1>4. CASE ~PullExpired(c)
  <2>1. EffMax \in Nat /\ cursor[d] <= EffMax
    BY EffMaxIsTop DEF ServedInv, TypeOK, CursorServed
  <2>2. c \in Nat \cup {NoCursor} /\ c <= EffMax
    BY <1>2, <2>1 DEF RequestCursor, NoCursor
  <2>3. PullCursor(c) = EffMax
    BY <2>1, <2>2 DEF PullCursor, NoCursor
  <2>4. /\ pc'[d] = "pulled" /\ next'[d] = EffMax
        /\ delta'[d] = Window(srv, since, {})
    BY <1>2, <1>4, <2>3 DEF ServePull, Goto, PullChanges
  <2>5. ASSUME NEW i \in Id
        PROVE  Delivers(EffMax, delta'[d][i], replace[d], rows[d][i], srv[i])
    <3>1. delta'[d][i] = IF srv[i].rev <= since THEN Omitted ELSE srv[i].body
      BY <2>4 DEF Window
    <3>2. srv[i].body \in Body /\ srv[i].rev \in Nat
      BY <1>2 DEF StoredRow
    <3>3. CASE ~(srv[i].rev <= since)
      <4>1. delta'[d][i] = srv[i].body /\ delta'[d][i] # Omitted
        BY <3>1, <3>2, <3>3, MarkersAreNoContent DEF Body
      <4> QED
        BY <4>1 DEF Delivers
    <3>4. CASE srv[i].rev <= since /\ c = NoCursor
      <4>1. srv[i].body = Gone
        BY <3>2, <3>4 DEF UnstoredIsGone
      <4>2. CASE replace[d]
        BY <3>1, <3>4, <4>1, <4>2 DEF Delivers
      <4>3. CASE ~replace[d]
        <5>1. rows[d][i].status # "synced"
          BY <1>1, <3>4, <4>3 DEF DeviceInv, RequestCursor
        <5>2. ~IsDirty(rows[d][i]) => rows[d][i].data = Gone
          BY <5>1, RowShapes DEF ServedInv, TypeOK, IsLive, IsDirty
        <5> QED
          BY <3>1, <3>4, <4>1, <4>3, <5>2 DEF Delivers
      <4> QED
        BY <1>2, <4>2, <4>3
    <3>5. CASE srv[i].rev <= since /\ c # NoCursor
      <4>1. c = cursor[d] /\ ~replace[d] /\ floor <= c
        BY <1>2, <1>4, <2>2, <3>5 DEF RequestCursor, PullExpired, NoCursor
      <4>2. ~IsDirty(rows[d][i]) => rows[d][i].data = srv[i].body
        BY <3>5, <4>1 DEF DeviceInv, Agrees, Reaches
      <4> QED
        BY <3>1, <3>5, <4>1, <4>2 DEF Delivers
    <3> QED
      BY <3>3, <3>4, <3>5
  <2>6. \A i \in Id :
          Delivers(next[d], delta[d][i], replace[d], rows[d][i], srv[i])'
    BY <1>1, <2>4, <2>5 DEF Delivers, Reaches
  <2>7. \A i \in Id : Agrees(cursor[d], rows[d][i], srv[i])'
    BY <1>1 DEF DeviceInv, Agrees, Reaches
  <2>8. cursor'[d] <= next'[d]
    BY <1>1, <2>1, <2>4
  <2>9. cursor'[d] = NoCursor => \A i \in Id : rows'[d][i].status # "synced"
    BY <1>1 DEF DeviceInv
  <2> QED
    BY <2>4, <2>6, <2>7, <2>8, <2>9 DEF DeviceInv
<1> QED
  BY <1>3, <1>4

\* Merging an answer that delivers makes the clean rows agree at its cursor,
\* and at the stored one behind it.
LEMMA MergeLands ==
  ASSUME ServedInv, NEW d \in Device, DeviceInv(d), MergeDelta(d),
         pc[d] \in {"pulled", "marked"}, NEW i \in Id
  PROVE  /\ Agrees(next[d], rows'[d][i], srv[i])
         /\ Agrees(cursor[d], rows'[d][i], srv[i])
<1> DEFINE r == rows[d][i]
           a == rows'[d][i]
<1>1. /\ WellFormed(r) /\ delta[d][i] \in Change /\ replace[d] \in BOOLEAN
      /\ DeviceTypeOK
  BY TypeParts DEF ServedInv, DeviceTypeOK
<1>2. a = ApplyChange(r, delta[d][i], replace[d])
  BY <1>1, MergeDeltaTypes
<1>3. Delivers(next[d], delta[d][i], replace[d], r, srv[i])
  BY DEF DeviceInv
<1> HIDE DEF r, a
<1>4. Agrees(next[d], a, srv[i])
  <2>1. SUFFICES ASSUME Reaches(next[d], srv[i]), ~IsDirty(a)
                 PROVE  a.data = srv[i].body
    BY DEF Agrees
  <2>2. CASE delta[d][i] # Omitted /\ delta[d][i] = srv[i].body
    BY <1>1, <1>2, <2>1, <2>2, ApplyChangeRow
  <2>3. CASE delta[d][i] = Omitted /\ replace[d] /\ srv[i].body = Gone
    BY <1>1, <1>2, <2>1, <2>3, ApplyChangeRow
  <2>4. CASE delta[d][i] = Omitted /\ ~replace[d]
             /\ (~IsDirty(r) => r.data = srv[i].body)
    BY <1>1, <1>2, <2>1, <2>4, ApplyChangeRow
  <2> QED
    BY <1>3, <2>1, <2>2, <2>3, <2>4 DEF Delivers
<1>5. cursor[d] <= next[d]
  BY DEF DeviceInv
<1>6. Reaches(cursor[d], srv[i]) => Reaches(next[d], srv[i])
  <2>1. /\ cursor[d] \in Int /\ next[d] \in Int /\ floor \in Int
        /\ srv[i].rev \in Int
    BY DEF ServedInv, TypeOK, ServerTypeOK, StoredRow, NoCursor
  <2> QED
    BY <1>5, <2>1 DEF Reaches
<1> QED
  BY <1>4, <1>6 DEF Agrees, a

\* The apply write's batch, and the interleave's.
LEMMA MergeStep ==
  ASSUME ServedInv, NEW d \in Device, DeviceInv(d),
         ApplyPull(d) \/ ApplyInterleave(d)
  PROVE  DeviceInv(d)'
<1>1. /\ srv' = srv /\ floor' = floor /\ cursor' = cursor /\ next' = next
      /\ replace' = replace /\ MergeDelta(d)
      /\ pc[d] \in {"pulled", "marked"}
  BY DEF ApplyPull, ApplyInterleave, serverVars
<1>2. pc'[d] = IF pc[d] = "pulled" THEN "applied" ELSE "merged"
  BY DEF ApplyPull, ApplyInterleave, Goto, ServedInv, TypeOK
<1>3. \A i \in Id : /\ Agrees(next[d], rows[d][i], srv[i])'
                    /\ Agrees(cursor[d], rows[d][i], srv[i])'
  BY <1>1, MergeLands DEF Agrees, Reaches
<1>4. cursor'[d] <= next'[d]
  BY <1>1 DEF DeviceInv
<1>5. pc[d] = "marked" => cursor'[d] # NoCursor /\ ~replace'[d]
  BY <1>1 DEF DeviceInv
<1> QED
  BY <1>1, <1>2, <1>3, <1>4, <1>5 DEF DeviceInv

\* The cursor of a merged answer is stored.
LEMMA SaveCursorStep ==
  ASSUME ServedInv, NEW d \in Device, DeviceInv(d),
         FinishApply(d) \/ AdoptCursor(d)
  PROVE  DeviceInv(d)'
<1>1. /\ srv' = srv /\ floor' = floor /\ rows' = rows
      /\ pc[d] \in {"applied", "merged"}
      /\ cursor' = [cursor EXCEPT ![d] = next[d]]
  BY DEF FinishApply, AdoptCursor, SaveCursor, serverVars
<1>2. cursor'[d] = next[d]
  BY <1>1 DEF ServedInv, TypeOK
<1>3. next[d] # NoCursor
  <2>1. cursor[d] \in Nat \cup {NoCursor} /\ cursor[d] <= next[d]
    BY <1>1 DEF ServedInv, TypeOK, DeviceInv
  <2>2. pc[d] = "merged" => cursor[d] # NoCursor
    BY DEF DeviceInv
  <2>3. pc[d] = "applied" => next[d] # NoCursor
    BY DEF ServedInv, AnswersServed
  <2> QED
    BY <1>1, <2>1, <2>2, <2>3 DEF NoCursor
<1>4. \A i \in Id : Agrees(cursor[d], rows[d][i], srv[i])'
  BY <1>1, <1>2 DEF DeviceInv, Agrees, Reaches
<1>5. \/ pc'[d] = "idle"
      \/ pc'[d] = "ready" /\ next'[d] = cursor'[d] /\ ~replace'[d]
  <2>1. CASE FinishApply(d)
    BY <1>2, <2>1 DEF FinishApply, Goto, ServedInv, TypeOK
  <2>2. CASE AdoptCursor(d)
    BY <2>2 DEF AdoptCursor, EndRun, Goto, ServedInv, TypeOK
  <2> QED
    BY <2>1, <2>2
<1> QED
  BY <1>2, <1>3, <1>4, <1>5 DEF DeviceInv

\* A snapshot names dirty rows only.
LEMMA FetchLocalStep ==
  ASSUME ServedInv, NEW d \in Device, DeviceInv(d), FetchLocal(d)
  PROVE  DeviceInv(d)'
<1>1. /\ srv' = srv /\ floor' = floor /\ rows' = rows /\ cursor' = cursor
      /\ next' = next /\ replace' = replace /\ pc[d] = "ready"
  BY DEF FetchLocal, serverVars
<1>2. pc'[d] = "pushing" /\ snap'[d] = [i \in Id |-> Frozen(rows[d][i])]
  BY DEF FetchLocal, Goto, ServedInv, TypeOK
<1>3. \A i \in Id : IsDirty(snap'[d][i]) => IsDirty(rows'[d][i])
  BY <1>1, <1>2, FrozenRow DEF ServedInv, TypeOK
<1>4. \A i \in Id : Agrees(cursor[d], rows[d][i], srv[i])'
  BY <1>1 DEF DeviceInv, Agrees, Reaches
<1>5. /\ cursor'[d] = NoCursor => \A i \in Id : rows'[d][i].status # "synced"
      /\ next'[d] = cursor'[d] /\ ~replace'[d]
  BY <1>1 DEF DeviceInv
<1> QED
  BY <1>2, <1>3, <1>4, <1>5 DEF DeviceInv

\* A refused push leaves everything where it is.
LEMMA PushConflictStep ==
  ASSUME ServedInv, NEW d \in Device, DeviceInv(d), PushConflict(d)
  PROVE  DeviceInv(d)'
<1>1. /\ srv' = srv /\ floor' = floor /\ rows' = rows /\ cursor' = cursor
      /\ next' = next /\ replace' = replace /\ pc[d] = "pushing"
  BY DEF PushConflict, serverVars
<1>2. pc'[d] = "conflict"
  BY DEF PushConflict, Goto, ServedInv, TypeOK
<1>3. \A i \in Id : Agrees(cursor[d], rows[d][i], srv[i])'
  BY <1>1 DEF DeviceInv, Agrees, Reaches
<1>4. cursor'[d] # NoCursor /\ ~replace'[d]
  BY <1>1 DEF DeviceInv, ServedInv, AnswersServed
<1> QED
  BY <1>2, <1>3, <1>4 DEF DeviceInv

\* An accepting answer delivers: the snapshot's own records are in it by
\* having been stored, every other change since the cursor by name.
LEMMA AcceptPushStep ==
  ASSUME ServedInv, UnstoredIsGone, ServerTypeOK', ServerMoves,
         NEW d \in Device, DeviceInv(d), NEW hooked, AcceptPush(d, hooked)
  PROVE  DeviceInv(d)'
<1> DEFINE rejected == Refused(snap[d], hooked)
           store    == StoreAfter(snap[d], rejected)
<1>1. /\ rows' = rows /\ cursor' = cursor /\ replace' = replace /\ snap' = snap
      /\ pc[d] = "pushing" /\ ServerTypeOK
  BY DEF AcceptPush, ServedInv, TypeOK
<1>2. /\ next[d] = cursor[d] /\ ~replace[d] /\ cursor[d] # NoCursor
      /\ cursor[d] \in Nat /\ cursor[d] <= rev
  BY <1>1, CursorsReached DEF DeviceInv, ServedInv, AnswersServed
<1>3. /\ srv' = store /\ store \in [Id -> StoredRow] /\ floor' = floor
      /\ EffMax' \in Nat /\ floor' \in Nat
      /\ delta' = [delta EXCEPT ![d] = PushChanges(snap[d], next[d], store)]
      /\ next' = [next EXCEPT ![d] = IF next[d] < floor THEN NoCursor ELSE EffMax']
  BY AcceptPushAnswer DEF ServedInv, ServerTypeOK
<1>4. /\ pc'[d] = "pushed" /\ refused'[d] = rejected
      /\ delta'[d] = PushChanges(snap[d], cursor[d], store)
      /\ next'[d] = IF cursor[d] < floor THEN NoCursor ELSE EffMax'
  BY <1>2, <1>3 DEF AcceptPush, Goto, ServedInv, TypeOK
<1> HIDE DEF store, rejected
<1>5. ASSUME NEW i \in Id, Reaches(cursor[d], srv[i])'
      PROVE  Reaches(cursor[d], srv[i]) /\ srv'[i].body = srv[i].body
  BY <1>1, <1>2, <1>5, ReachBack DEF Reaches
<1>6. \A i \in Id : Agrees(cursor[d], rows[d][i], srv[i])'
  BY <1>1, <1>5 DEF DeviceInv, Agrees
<1>7. cursor'[d] <= next'[d] \/ (next'[d] = NoCursor /\ cursor'[d] < floor')
  <2>1. cursor[d] <= EffMax'
    <3>1. EffMax \in Nat /\ EffMax <= EffMax' /\ cursor[d] <= EffMax
      BY <1>1, EffMaxIsTop DEF ServedInv, CursorServed, ServerMoves
    <3> QED
      BY <1>2, <1>3, <3>1
  <2> QED
    BY <1>1, <1>2, <1>3, <1>4, <2>1
<1>8. ASSUME NEW i \in Id, IsDirty(snap[d][i])
      PROVE  IsDirty(rows[d][i])
  BY <1>1, <1>8 DEF DeviceInv
<1>9. ASSUME NEW i \in Id, IsDirty(snap[d][i]), i \notin rejected
      PROVE  srv'[i].body = snap[d][i].data
  <2>1. snap[d] \in [Id -> LocalRow] /\ \A j \in Id : WellFormed(snap[d][j])
    BY DEF ServedInv, TypeOK, Request
  <2>2. store[i].body = snap[d][i].data
    BY <1>1, <1>9, <2>1, AcceptedStored DEF store, rejected
  <2> QED
    BY <1>3, <2>2
<1>10. ASSUME NEW i \in Id
       PROVE  Delivers(next[d], delta[d][i], replace[d], rows[d][i], srv[i])'
  <2>1. CASE cursor[d] < floor
    <3>1. ~Reaches(next[d], srv[i])'
      BY <1>3, <1>4, <2>1 DEF Reaches, NoCursor
    <3> QED
      BY <3>1 DEF Delivers
  <2>2. CASE ~(cursor[d] < floor)
    <3>1. delta'[d][i] = IF i \in Named(snap[d]) \/ store[i].rev <= cursor[d]
                           THEN Omitted ELSE store[i].body
      BY <1>4, <2>2 DEF PushChanges, Window
    <3>2. store[i].body # Omitted
      BY <1>3, MarkersAreNoContent DEF StoredRow, Body
    <3>3. CASE i \in Named(snap[d])
      <4>1. IsDirty(rows'[d][i])
        BY <1>1, <1>8, <3>3 DEF Named
      <4> QED
        BY <1>1, <1>2, <3>1, <3>3, <4>1 DEF Delivers
    <3>4. CASE store[i].rev <= cursor[d]
      <4>1. Reaches(cursor[d], srv[i])'
        BY <1>1, <1>2, <1>3, <2>2, <3>4 DEF Reaches
      <4>2. ~IsDirty(rows'[d][i]) => rows'[d][i].data = srv'[i].body
        BY <1>6, <4>1 DEF Agrees
      <4> QED
        BY <1>1, <1>2, <3>1, <3>4, <4>2 DEF Delivers
    <3>5. CASE i \notin Named(snap[d]) /\ ~(store[i].rev <= cursor[d])
      BY <1>3, <3>1, <3>2, <3>5 DEF Delivers
    <3> QED
      BY <3>3, <3>4, <3>5
  <2> QED
    BY <2>1, <2>2
<1> QED
  BY <1>1, <1>2, <1>4, <1>6, <1>7, <1>8, <1>9, <1>10 DEF DeviceInv

\* Marking flips a record only to what the server stored of it.
LEMMA MarkStep ==
  ASSUME ServedInv, NEW d \in Device, DeviceInv(d), Mark(d) \/ MarkOnly(d)
  PROVE  DeviceInv(d)'
<1>1. /\ srv' = srv /\ floor' = floor /\ cursor' = cursor /\ MarkRows(d)
      /\ pc[d] = "pushed" /\ DeviceTypeOK
  BY TypeParts DEF Mark, MarkOnly, serverVars, ServedInv
<1>2. /\ cursor[d] # NoCursor /\ ~replace[d] /\ cursor[d] \in Int
      /\ next[d] \in Int /\ floor \in Int
      /\ cursor[d] <= next[d] \/ (next[d] = NoCursor /\ cursor[d] < floor)
  BY <1>1 DEF DeviceInv, ServedInv, TypeOK, ServerTypeOK, NoCursor
<1>3. ASSUME NEW i \in Id
      PROVE  \/ rows'[d][i] = rows[d][i]
             \/ /\ ~IsDirty(rows'[d][i]) /\ rows'[d][i].data = snap[d][i].data
                /\ Reaches(next[d], srv[i]) => srv[i].body = snap[d][i].data
  <2> DEFINE no == i \in refused[d]
  <2>1. rows'[d][i] = MarkSynced(rows[d][i], snap[d][i], no)
    BY <1>1, MarkRowsTypes
  <2>2. WellFormed(rows[d][i]) /\ WellFormed(snap[d][i])
    BY DEF ServedInv, TypeOK
  <2>3. no \in BOOLEAN
    OBVIOUS
  <2> HIDE DEF no
  <2>4. \/ rows'[d][i] = rows[d][i]
        \/ /\ IsDirty(snap[d][i]) /\ ~no
           /\ ~IsDirty(rows'[d][i]) /\ rows'[d][i].data = snap[d][i].data
    BY <2>1, <2>2, <2>3, MarkSyncedRow
  <2>5. IsDirty(snap[d][i]) /\ ~no /\ Reaches(next[d], srv[i]) =>
          srv[i].body = snap[d][i].data
    BY <1>1 DEF DeviceInv, no
  <2> QED
    BY <2>4, <2>5
<1>4. ASSUME NEW i \in Id PROVE Agrees(cursor[d], rows[d][i], srv[i])'
  <2>1. CASE rows'[d][i] = rows[d][i]
    BY <1>1, <2>1 DEF DeviceInv, Agrees, Reaches
  <2>2. CASE rows'[d][i] # rows[d][i]
    <3>1. Reaches(cursor[d], srv[i]) => Reaches(next[d], srv[i])
      <4>1. srv[i].rev \in Int
        BY DEF ServedInv, TypeOK, ServerTypeOK, StoredRow
      <4> QED
        BY <1>2, <4>1 DEF Reaches
    <3> QED
      BY <1>1, <1>3, <2>2, <3>1 DEF Agrees, Reaches
  <2> QED
    BY <2>1, <2>2
<1>5. CASE Mark(d)
  <2>1. /\ next' = next /\ delta' = delta /\ replace' = replace
        /\ next[d] # NoCursor /\ pc'[d] = "marked"
    BY <1>1, <1>5 DEF Mark, Goto, DeviceTypeOK
  <2>2. ASSUME NEW i \in Id
        PROVE  Delivers(next[d], delta[d][i], replace[d], rows[d][i], srv[i])'
    <3>1. Delivers(next[d], delta[d][i], replace[d], rows[d][i], srv[i])
      BY <1>1 DEF DeviceInv
    <3> QED
      BY <1>1, <1>2, <1>3, <2>1, <3>1 DEF Delivers, Reaches
  <2> QED
    BY <1>1, <1>2, <1>4, <2>1, <2>2 DEF DeviceInv
<1>6. CASE MarkOnly(d)
  <2>1. pc'[d] = "idle"
    BY <1>1, <1>6 DEF MarkOnly, EndRun, Goto, DeviceTypeOK
  <2> QED
    BY <1>1, <1>2, <1>4, <2>1 DEF DeviceInv
<1> QED
  BY <1>5, <1>6

\* The acting device, whatever its run does.
LEMMA RunStepDevice ==
  ASSUME ServedInv, UnstoredIsGone, ServerTypeOK', ServerMoves,
         NEW d \in Device, DeviceInv(d), RunStep(d)
  PROVE  DeviceInv(d)'
<1>1. CASE StartRun(d) \/ RePull(d) \/ Retry(d) \/ FetchNothing(d) \/ GiveUp(d)
  <2>1. /\ UNCHANGED <<serverVars, rows, cursor>>
        /\ pc[d] # "applied"
    BY <1>1 DEF StartRun, RePull, Retry, FetchNothing, GiveUp
  <2>2. pc'[d] \in {"idle", "pulling"}
    BY <1>1 DEF StartRun, RePull, Retry, FetchNothing, GiveUp, EndRun, Goto,
                ServedInv, TypeOK
  <2> QED
    BY <2>1, <2>2, RestingDevice
<1> QED
  BY <1>1, ServePullDelivers, MergeStep, SaveCursorStep, FetchLocalStep,
     PushConflictStep, AcceptPushStep, MarkStep DEF RunStep

\* A run step touches no other device.
LEMMA RunStepOthers ==
  ASSUME TypeOK, NEW d \in Device, RunStep(d) \/ Interrupt(d),
         NEW e \in Device, e # d
  PROVE  /\ rows'[e] = rows[e] /\ cursor'[e] = cursor[e] /\ pc'[e] = pc[e]
         /\ replace'[e] = replace[e] /\ delta'[e] = delta[e]
         /\ next'[e] = next[e] /\ snap'[e] = snap[e]
         /\ refused'[e] = refused[e]
<1>1. CASE StartRun(d) \/ ServePull(d) \/ RePull(d)
  BY <1>1 DEF StartRun, ServePull, RePull, Goto, TypeOK
<1>2. CASE ApplyPull(d) \/ FinishApply(d) \/ ApplyInterleave(d)
  BY <1>2 DEF ApplyPull, FinishApply, ApplyInterleave, MergeDelta, SaveCursor,
              Goto, TypeOK
<1>3. CASE FetchNothing(d) \/ FetchLocal(d) \/ PushConflict(d) \/ Retry(d) \/ GiveUp(d)
  BY <1>3 DEF FetchNothing, FetchLocal, PushConflict, Retry, GiveUp, EndRun,
              Goto, TypeOK
<1>4. CASE \E hooked \in SUBSET HookIds : AcceptPush(d, hooked)
  BY <1>4 DEF AcceptPush, Goto, TypeOK
<1>5. CASE Mark(d) \/ MarkOnly(d) \/ AdoptCursor(d) \/ Interrupt(d)
  BY <1>5 DEF Mark, MarkOnly, AdoptCursor, Interrupt, MarkRows, SaveCursor,
              EndRun, Goto, TypeOK
<1> QED
  BY <1>1, <1>2, <1>3, <1>4, <1>5 DEF RunStep

\* The server's half.
LEMMA UnstoredStep ==
  ASSUME Discipline, TypeOK, UnstoredIsGone, [Next]_vars
  PROVE  UnstoredIsGone'
<1>0. ServerTypeOK
  BY DEF TypeOK
<1>1. CASE UNCHANGED serverVars
  BY <1>1 DEF UnstoredIsGone, serverVars
<1>2. CASE \E d \in Device, hooked \in SUBSET HookIds : AcceptPush(d, hooked)
  <2>1. PICK d \in Device, hooked \in SUBSET HookIds : AcceptPush(d, hooked)
    BY <1>2
  <2>2. CommitPush(snap[d], Refused(snap[d], hooked))
    BY <2>1 DEF AcceptPush
  <2>3. snap[d] \in [Id -> LocalRow] /\ \A i \in Id : WellFormed(snap[d][i])
    BY DEF TypeOK, Request
  <2> QED
    BY <1>0, <2>2, <2>3, CommitPushUnstored
<1>3. CASE /\ ~UNCHANGED serverVars
           /\ \E d \in Device, hooked \in SUBSET HookIds : LatePush(d, hooked)
  <2>1. PICK d \in Device, hooked \in SUBSET HookIds : LatePush(d, hooked)
    BY <1>3
  <2>2. CommitPush(late[d].request, Refused(late[d].request, hooked))
    BY <1>3, <2>1 DEF LatePush
  <2>3. /\ late[d].request \in [Id -> LocalRow]
        /\ \A i \in Id : WellFormed(late[d].request[i])
    BY DEF TypeOK, Request
  <2> QED
    BY <1>0, <2>2, <2>3, CommitPushUnstored
<1>4. CASE \E f \in 1 .. rev + GcBeyond : Retain(f)
  <2>1. PICK f \in 1 .. rev + GcBeyond : Gc(f)
    BY <1>4 DEF Retain
  <2> QED
    BY <1>0, <2>1, GcUnstored DEF Discipline
<1>5. ~UNCHANGED serverVars =>
        \/ \E d \in Device, hooked \in SUBSET HookIds :
             AcceptPush(d, hooked) \/ LatePush(d, hooked)
        \/ \E f \in 1 .. rev + GcBeyond : Retain(f)
  BY DEF Next, vars, LocalStep, RunStep, FaultStep, Create, Update,
         MarkAsDeleted, LocalWrite, StartRun, ServePull, RePull, ApplyPull,
         FinishApply, FetchNothing, FetchLocal, PushConflict, Retry, GiveUp,
         Mark, MarkOnly, ApplyInterleave, AdoptCursor, Interrupt
<1> QED
  BY <1>1, <1>2, <1>3, <1>4, <1>5

\* A local write leaves a dirty row.
LEMMA LocalStepDirties ==
  ASSUME TypeOK, NEW d \in Device, LocalStep(d), NEW e \in Device, NEW i \in Id
  PROVE  rows'[e][i] = rows[e][i] \/ IsDirty(rows'[e][i])
<1>1. PICK new : \E j \in Id : LocalWrite(d, j, new) /\ IsDirty(new)
  <2>1. ASSUME NEW j \in Id, NEW c \in Content, Create(d, j, c)
        PROVE  LocalWrite(d, j, CreatedRow(c)) /\ IsDirty(CreatedRow(c))
    BY <2>1 DEF Create, CreatedRow, IsDirty
  <2>2. ASSUME NEW j \in Id, NEW c \in Content, Update(d, j, c)
        PROVE  LocalWrite(d, j, EditRow(rows[d][j], c))
               /\ IsDirty(EditRow(rows[d][j], c))
    BY <2>2, EditRowWellFormed DEF Update, TypeOK
  <2>3. ASSUME NEW j \in Id, MarkAsDeleted(d, j)
        PROVE  LocalWrite(d, j, Tombstone) /\ IsDirty(Tombstone)
    BY <2>3 DEF MarkAsDeleted, Tombstone, IsDirty
  <2> QED
    BY <2>1, <2>2, <2>3 DEF LocalStep
<1>2. PICK j \in Id : LocalWrite(d, j, new)
  BY <1>1
<1>3. rows' = [rows EXCEPT ![d][j] = new] /\ rows \in [Device -> [Id -> LocalRow]]
  BY <1>2 DEF LocalWrite, TypeOK
<1> QED
  BY <1>1, <1>3

\* Nothing is held before the first sync.
LEMMA AgreementInit == Init => AgreementInv
<1> SUFFICES ASSUME Init PROVE AgreementInv
  OBVIOUS
<1>1. UnstoredIsGone
  BY DEF Init, ServerInit, UnstoredIsGone, Unstored
<1>2. ASSUME NEW d \in Device PROVE DeviceInv(d)
  BY DEF Init, ServerInit, DeviceInv, Absent, Unstored, Agrees, Reaches, IsDirty
<1> QED
  BY <1>1, <1>2, AgreementParts

\* Agreement is inductive.
LEMMA AgreementStep ==
  ASSUME Discipline, ServedInv, AgreementInv, [Next]_vars
  PROVE  AgreementInv'
<1>1. /\ TypeOK /\ UnstoredIsGone /\ \A d \in Device : DeviceInv(d)
  BY AgreementParts DEF ServedInv
<1>2. ServerTypeOK' /\ HistoryBounded' /\ ServerMoves
  BY ServerStep DEF ServedInv
<1>3. UnstoredIsGone'
  BY <1>1, UnstoredStep
<1>4. ASSUME NEW e \in Device,
             \A i \in Id : rows'[e][i] = rows[e][i] \/ IsDirty(rows'[e][i]),
             UNCHANGED <<cursor[e], pc[e], replace[e], delta[e], next[e],
                         snap[e], refused[e]>>
      PROVE  DeviceInv(e)'
  BY <1>1, <1>2, <1>4, StandingDevice
<1>5. ASSUME NEW d \in Device, LocalStep(d) PROVE \A e \in Device : DeviceInv(e)'
  <2> TAKE e \in Device
  <2>1. /\ \A i \in Id : rows'[e][i] = rows[e][i] \/ IsDirty(rows'[e][i])
        /\ UNCHANGED <<cursor, pc, replace, delta, next, snap, refused>>
    BY <1>1, <1>5, LocalStepDirties
       DEF LocalStep, Create, Update, MarkAsDeleted, LocalWrite, runVars
  <2> QED
    BY <1>4, <2>1
<1>6. ASSUME UNCHANGED <<rows, cursor, runVars>>
      PROVE  \A e \in Device : DeviceInv(e)'
  <2>1. UNCHANGED <<rows, cursor, pc, replace, delta, next, snap, refused>>
    BY <1>6 DEF runVars
  <2> QED
    BY <1>4, <2>1
<1>7. ASSUME NEW d \in Device, RunStep(d) PROVE \A e \in Device : DeviceInv(e)'
  <2> TAKE e \in Device
  <2>1. CASE e = d
    BY <1>1, <1>2, <1>7, <2>1, RunStepDevice
  <2>2. CASE e # d
    BY <1>1, <1>4, <1>7, <2>2, RunStepOthers
  <2> QED
    BY <2>1, <2>2
<1>8. ASSUME NEW d \in Device, Interrupt(d) PROVE \A e \in Device : DeviceInv(e)'
  <2> TAKE e \in Device
  <2>1. CASE e = d
    <3>1. UNCHANGED <<serverVars, rows, cursor>> /\ pc'[d] = "idle"
      BY <1>1, <1>8 DEF Interrupt, EndRun, Goto, TypeOK
    <3>2. pc[d] = "applied" => cursor[d] # NoCursor
      BY <1>8 DEF Interrupt, Discipline
    <3> QED
      BY <1>1, <2>1, <3>1, <3>2, RestingDevice
  <2>2. CASE e # d
    BY <1>1, <1>4, <1>8, <2>2, RunStepOthers
  <2> QED
    BY <2>1, <2>2
<1>9. \A e \in Device : DeviceInv(e)'
  <2>1. CASE UNCHANGED vars
    BY <1>6, <2>1 DEF vars
  <2>2. CASE \E d \in Device, hooked \in SUBSET HookIds : LatePush(d, hooked)
    BY <1>6, <2>2 DEF LatePush
  <2>3. CASE \E f \in 1 .. rev + GcBeyond : Retain(f)
    BY <1>6, <2>3 DEF Retain
  <2> QED
    BY <1>5, <1>7, <1>8, <2>1, <2>2, <2>3 DEF Next, FaultStep
<1>10. (UnstoredIsGone /\ \A d \in Device : DeviceInv(d))' => AgreementInv'
  BY DEF AgreementInv, DeviceInv, NothingBeforeCursor, CursorBehindAnswer,
         CleanRowsAgree, AnswersDeliver, SnapshotsStand, Agrees, Reaches
<1> QED
  BY <1>3, <1>9, <1>10

\* Agreement holds throughout, under the discipline.
LEMMA AgreementAlways ==
  ASSUME Discipline
  PROVE  Spec => []AgreementInv
<1>1. AgreementInv /\ ServedInv /\ [Next]_vars => AgreementInv'
  BY AgreementStep
<1> QED
  BY <1>1, AgreementInit, ServedAlways, PTL DEF Spec

\* The protocol's promise, for any devices, ids, columns, refusals, retries
\* and budgets: a clean record equals the server's row as far as the device's
\* served cursor reaches, in every state of every interleaving of runs,
\* edits, late pushes, pruning and interruptions.
THEOREM CleanRowsAlwaysAgree ==
  ASSUME Discipline
  PROVE  Spec => []CleanRowsAgree
<1>1. AgreementInv => CleanRowsAgree
  BY DEF AgreementInv
<1> QED
  BY <1>1, AgreementAlways, PTL

-----------------------------------------------------------------------------
(***************************************************************************)
(* What a step may never do.                                               *)
(***************************************************************************)

\* Only three kinds of step touch rows.
LEMMA RowsTouched ==
  ASSUME [Next]_vars, NEW d \in Device, rows'[d] # rows[d], TypeOK
  PROVE  \/ \E e \in Device : LocalStep(e)
         \/ MergeDelta(d)
         \/ pc[d] = "pushed" /\ MarkRows(d)
<1>1. ~UNCHANGED rows
  OBVIOUS
<1>2. ASSUME NEW e \in Device, RunStep(e), rows'[d] # rows[d] PROVE e = d
  BY <1>2, RunStepOthers
<1>3. CASE \E e \in Device : RunStep(e)
  <2>1. RunStep(d)
    BY <1>2, <1>3
  <2> QED
    BY <1>1, <2>1
       DEF RunStep, StartRun, ServePull, RePull, ApplyPull, FinishApply,
           FetchNothing, FetchLocal, PushConflict, Retry, GiveUp, AcceptPush,
           Mark, MarkOnly, ApplyInterleave, AdoptCursor
<1> QED
  BY <1>1, <1>3
     DEF Next, FaultStep, Interrupt, LatePush, Retain, vars

\* What the server accepted of an answered push is in its history.
AnswersAcked ==
  \A d \in Device, i \in Id :
    pc[d] = "pushed" /\ IsDirty(snap[d][i]) /\ i \notin refused[d] =>
      snap[d][i].data \in acked[i]

\* A statement once accepted stays in the history.
LEMMA AckedGrows ==
  ASSUME TypeOK, [Next]_vars, NEW i \in Id
  PROVE  acked[i] \subseteq acked'[i]
<1>1. ASSUME NEW request, NEW rejected, CommitPush(request, rejected)
      PROVE  acked[i] \subseteq acked'[i]
  BY <1>1 DEF CommitPush, AckedAfter
<1>2. \/ \E request, rejected : CommitPush(request, rejected)
      \/ acked' = acked
  BY DEF Next, vars, serverVars, LocalStep, RunStep, FaultStep, Create, Update,
         MarkAsDeleted, LocalWrite, StartRun, ServePull, RePull, ApplyPull,
         FinishApply, FetchNothing, FetchLocal, PushConflict, AcceptPush, Retry,
         GiveUp, Mark, MarkOnly, ApplyInterleave, AdoptCursor, Interrupt,
         LatePush, Retain, Gc
<1> QED
  BY <1>1, <1>2

\* The history invariant is inductive.
LEMMA AnswersAckedStep ==
  ASSUME TypeOK, AnswersAcked, [Next]_vars
  PROVE  AnswersAcked'
<1> SUFFICES ASSUME NEW d \in Device, NEW i \in Id, pc'[d] = "pushed",
                    IsDirty(snap'[d][i]), i \notin refused'[d]
             PROVE  snap'[d][i].data \in acked'[i]
  BY DEF AnswersAcked
<1>1. CASE pc'[d] = pc[d] /\ snap'[d] = snap[d] /\ refused'[d] = refused[d]
  BY <1>1, AckedGrows DEF AnswersAcked
<1>2. ASSUME NEW hooked, AcceptPush(d, hooked)
      PROVE  snap'[d][i].data \in acked'[i]
  <2>1. snap' = snap /\ refused'[d] = Refused(snap[d], hooked)
    BY <1>2 DEF AcceptPush, TypeOK
  <2>2. acked' = AckedAfter(snap[d], Refused(snap[d], hooked))
    BY <1>2 DEF AcceptPush, CommitPush
  <2> QED
    BY <2>1, <2>2 DEF AckedAfter, Named
<1>3. CASE RunStep(d)
  <2>1. \E hooked : AcceptPush(d, hooked)
    BY <1>3 DEF RunStep, StartRun, ServePull, RePull, ApplyPull, FinishApply,
                FetchNothing, FetchLocal, PushConflict, Retry, GiveUp, Mark,
                MarkOnly, ApplyInterleave, AdoptCursor, EndRun, Goto, TypeOK
  <2> QED
    BY <1>2, <2>1
<1>4. CASE Interrupt(d)
  BY <1>4 DEF Interrupt, EndRun, Goto, TypeOK
<1>5. CASE \E e \in Device : e # d /\ (RunStep(e) \/ Interrupt(e))
  BY <1>1, <1>5, RunStepOthers
<1>6. CASE \/ \E e \in Device, hooked \in SUBSET HookIds : LocalStep(e) \/ LatePush(e, hooked)
           \/ \E f : Retain(f)
           \/ UNCHANGED vars
  BY <1>1, <1>6 DEF LocalStep, Create, Update, MarkAsDeleted, LocalWrite,
                    LatePush, Retain, vars, runVars
<1> QED
  BY <1>3, <1>4, <1>5, <1>6 DEF Next, FaultStep

\* No local write is ever lost: a record leaves the dirty set only with the
\* server's acceptance of exactly its content, or because a deletion of it
\* came back.  No assumption on faults, refusals or retention.
THEOREM NoWriteEverDropped == Spec => NoWriteDropped
<1>1. Init => AnswersAcked
  BY DEF Init, AnswersAcked
<1>2. TypeOK /\ AnswersAcked /\ [Next]_vars => AnswersAcked'
  BY AnswersAckedStep
<1>3. ASSUME TypeOK, AnswersAcked, [Next]_vars, NEW d \in Device, NEW i \in Id,
             IsDirty(rows[d][i]), ~IsDirty(rows'[d][i])
      PROVE  rows[d][i].data \in acked[i] \/ delta[d][i] = Gone
  <2>0. DeviceTypeOK /\ WellFormed(rows[d][i]) /\ WellFormed(snap[d][i])
        /\ delta[d][i] \in Change /\ replace[d] \in BOOLEAN
    BY <1>3 DEF TypeOK, DeviceTypeOK
  <2>1. CASE \E e \in Device : LocalStep(e)
    BY <1>3, <2>1, LocalStepDirties
  <2>2. CASE MergeDelta(d)
    <3>1. rows'[d][i] = ApplyChange(rows[d][i], delta[d][i], replace[d])
      BY <2>0, <2>2, MergeDeltaTypes
    <3> QED
      BY <1>3, <2>0, <3>1, ApplyChangeRow
  <2>3. CASE pc[d] = "pushed" /\ MarkRows(d)
    <3> DEFINE no == i \in refused[d]
    <3>1. rows'[d][i] = MarkSynced(rows[d][i], snap[d][i], no)
      BY <2>0, <2>3, MarkRowsTypes
    <3>2. no \in BOOLEAN
      OBVIOUS
    <3> HIDE DEF no
    <3>3. \/ rows'[d][i] = rows[d][i]
          \/ IsDirty(snap[d][i]) /\ ~no /\ rows[d][i] = snap[d][i]
      BY <2>0, <3>1, <3>2, MarkSyncedRow
    <3> QED
      BY <1>3, <2>3, <3>3 DEF AnswersAcked, no
  <2> QED
    BY <1>3, <2>1, <2>2, <2>3, RowsTouched
<1>4. TypeOK /\ AnswersAcked /\ [Next]_vars => WritesKept
  BY <1>3 DEF WritesKept
<1> QED
  BY <1>1, <1>2, <1>4, TypeCorrect, PTL DEF Spec, NoWriteDropped

\* Merging respects edits: until the user writes again, a changed column keeps
\* its local value and a pending delete is never undone, whatever a pull, a
\* replacement or an interleave carries.
THEOREM LocalEditsAlwaysStand == Spec => LocalEditsStand
<1>1. ASSUME TypeOK, [Next]_vars, NEW d \in Device, NEW i \in Id, writes' = writes
      PROVE  /\ IsLive(rows[d][i]) /\ IsLive(rows'[d][i]) =>
                  \A c \in rows[d][i].changed : rows'[d][i].data[c] = rows[d][i].data[c]
             /\ rows[d][i].status = "deleted" => ~IsLive(rows'[d][i])
  <2>1. DeviceTypeOK /\ WellFormed(rows[d][i]) /\ delta[d][i] \in Change
        /\ replace[d] \in BOOLEAN /\ writes \in Nat
    BY <1>1, ProtocolConstants DEF TypeOK, DeviceTypeOK
  <2>2. CASE rows'[d] = rows[d]
    BY <2>2 DEF IsLive
  <2>3. ASSUME NEW e \in Device, LocalStep(e) PROVE FALSE
    <3>1. writes' = writes + 1
      BY <2>3 DEF LocalStep, Create, Update, MarkAsDeleted, LocalWrite
    <3> QED
      BY <1>1, <2>1, <3>1
  <2>4. CASE MergeDelta(d)
    <3>1. rows'[d][i] = ApplyChange(rows[d][i], delta[d][i], replace[d])
      BY <2>1, <2>4, MergeDeltaTypes
    <3> QED
      BY <2>1, <3>1, ApplyChangeKeepsEdits
  <2>5. CASE MarkRows(d)
    <3> DEFINE no == i \in refused[d]
    <3>1. rows'[d][i] = MarkSynced(rows[d][i], snap[d][i], no)
      BY <2>1, <2>5, MarkRowsTypes
    <3>2. no \in BOOLEAN
      OBVIOUS
    <3> HIDE DEF no
    <3> QED
      BY <2>1, <3>1, <3>2, MarkSyncedKeepsEdits
  <2> QED
    BY <1>1, <2>2, <2>3, <2>4, <2>5, RowsTouched
<1>2. TypeOK /\ [Next]_vars => EditsKept
  BY <1>1 DEF EditsKept
<1> QED
  BY <1>2, TypeCorrect, PTL DEF Spec, LocalEditsStand

\* A deleted row stays deleted on the server: neither a stale push nor one
\* that arrives late, after any number of runs, brings it back.
THEOREM TombstonesAlwaysStayDead == Spec => TombstonesStayDead
<1>1. ASSUME TypeOK, [Next]_vars, NEW i \in Id, IsTombstone(srv[i])
      PROVE  srv'[i].body = Gone
  <2>1. srv[i].body = Gone
    BY <1>1 DEF IsTombstone
  <2>2. ASSUME NEW request, NEW rejected, CommitPush(request, rejected)
        PROVE  srv'[i].body = Gone
    <3>1. srv'[i] = srv[i]
      BY <1>1, <2>1, <2>2 DEF CommitPush, StoreAfter
    <3> QED
      BY <2>1, <3>1
  <2>3. ASSUME NEW f, Gc(f) PROVE srv'[i].body = Gone
    <3>1. srv'[i] = srv[i] \/ srv'[i] = Unstored
      BY <2>3 DEF Gc, Pruned
    <3> QED
      BY <2>1, <3>1 DEF Unstored
  <2>4. \/ \E request, rejected : CommitPush(request, rejected)
        \/ \E f : Gc(f)
        \/ srv' = srv
    BY <1>1
       DEF Next, vars, serverVars, LocalStep, RunStep, FaultStep, Create, Update,
           MarkAsDeleted, LocalWrite, StartRun, ServePull, RePull, ApplyPull,
           FinishApply, FetchNothing, FetchLocal, PushConflict, AcceptPush, Retry,
           GiveUp, Mark, MarkOnly, ApplyInterleave, AdoptCursor, Interrupt,
           LatePush, Retain
  <2> QED
    BY <2>1, <2>2, <2>3, <2>4
<1>2. TypeOK /\ [Next]_vars => TombstonesKept
  BY <1>1 DEF TombstonesKept
<1> QED
  BY <1>2, TypeCorrect, PTL DEF Spec, TombstonesStayDead

=============================================================================
