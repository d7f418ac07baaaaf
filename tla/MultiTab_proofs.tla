--------------------------- MODULE MultiTab_proofs ----------------------------
(***************************************************************************)
(* Clean rows agree for any number of tabs, ids, attempts, expired leases, *)
(* failures and writes: Inv of MultiTab is inductive.                      *)
(***************************************************************************)
EXTENDS MultiTab, SyncServer_proofs

(***************************************************************************)
(* The server under the tabs.                                              *)
(***************************************************************************)
\* The served history is a bound of the stored rows, and within the revisions
\* handed out.
LEMMA ServedBounds ==
  ASSUME ServerTypeOK, ServerStands
  PROVE  /\ EffMax \in Nat /\ rev \in Nat /\ EffMax <= rev
         /\ \A i \in Id : srv[i].rev \in Nat /\ srv[i].rev <= EffMax
<1>1. /\ EffMax \in Nat /\ \A i \in Id : srv[i].rev <= EffMax
      /\ EffMax \in {floor} \cup {srv[i].rev : i \in Id}
  BY EffMaxIsTop DEF ServerStands
<1>2. rev \in Nat /\ srv \in [Id -> StoredRow]
  BY DEF ServerTypeOK
<1>3. floor <= rev /\ \A i \in Id : srv[i].rev <= rev
  BY DEF ServerStands, HistoryBounded, UnstoredIsGone
<1> QED
  BY <1>1, <1>2, <1>3 DEF StoredRow

\* A step of the server as the tabs see it: a row stays, or it is written
\* again above everything handed out.
ServerGrows ==
  /\ rev <= rev' /\ EffMax <= EffMax'
  /\ \A i \in Id : srv'[i] = srv[i] \/ rev < srv'[i].rev
  /\ \A i \in Id : acked[i] \subseteq acked'[i]

\* The next state of the server is typed and bounded as well.
ServerKeeps == ServerTypeOK' /\ ServerStands' /\ ServerGrows

\* A step that leaves the server alone keeps it.
LEMMA ServerStill ==
  ASSUME ServerTypeOK, ServerStands, UNCHANGED serverVars
  PROVE  ServerKeeps /\ EffMax' = EffMax
<1>1. srv' = srv /\ rev' = rev /\ floor' = floor /\ acked' = acked
  BY DEF serverVars
<1>2. EffMax' = EffMax
  BY <1>1 DEF EffMax, TopOf
<1>3. ServerTypeOK'
  BY <1>1 DEF ServerTypeOK
<1>4. ServerStands'
  BY <1>1 DEF ServerStands, HistoryBounded, UnstoredIsGone, Topped
<1>5. rev \in Nat /\ EffMax \in Nat
  BY ServedBounds
<1> QED
  BY <1>1, <1>2, <1>3, <1>4, <1>5 DEF ServerKeeps, ServerGrows

\* A write of another device.
LEMMA RemoteWriteKeeps ==
  ASSUME ServerTypeOK, ServerStands, NEW i \in Id, NEW new \in Body,
         RemoteWrite(i, new)
  PROVE  ServerKeeps
<1>1. /\ srv' = [srv EXCEPT ![i] = [rev |-> rev + 1, body |-> new]]
      /\ rev' = rev + 1 /\ floor' = floor /\ acked' = acked
  BY DEF RemoteWrite
<1>2. /\ srv \in [Id -> StoredRow] /\ rev \in Nat /\ floor = 0
      /\ \A j \in Id : srv[j].rev \in Nat /\ srv[j].rev <= rev
      /\ EffMax \in Nat /\ EffMax <= rev
  <2>1. \A j \in Id : srv[j].rev \in Nat /\ srv[j].rev <= EffMax
    BY ServedBounds
  <2> QED
    BY <2>1, ServedBounds DEF ServerTypeOK, ServerStands
<1>3. /\ srv' \in [Id -> StoredRow]
      /\ srv'[i] = [rev |-> rev + 1, body |-> new]
      /\ \A j \in Id \ {i} : srv'[j] = srv[j]
  BY <1>1, <1>2 DEF StoredRow
<1>4. ServerTypeOK'
  BY <1>1, <1>2, <1>3 DEF ServerTypeOK
<1>5. \A j \in Id : srv'[j].rev <= srv'[i].rev
  BY <1>2, <1>3
<1>6. Topped(srv', floor')
  BY <1>1, <1>2, <1>3, <1>5 DEF Topped
<1>7. HistoryBounded'
  BY <1>1, <1>2, <1>3, <1>6 DEF HistoryBounded, Topped
<1>8. UnstoredIsGone'
  <2>1. floor <= rev /\ \A j \in Id : srv[j].rev = 0 => srv[j].body = Gone
    BY DEF ServerStands, UnstoredIsGone
  <2> QED
    BY <1>1, <1>2, <1>3, <2>1 DEF UnstoredIsGone
<1>9. ServerStands'
  BY <1>1, <1>2, <1>7, <1>8 DEF ServerStands
<1>10. srv'[i].rev <= EffMax' /\ EffMax' \in Nat
  BY <1>4, <1>9, NextEffMaxIsTop DEF ServerStands
<1>11. EffMax <= EffMax'
  BY <1>2, <1>3, <1>10
<1> QED
  BY <1>1, <1>2, <1>3, <1>4, <1>9, <1>11 DEF ServerKeeps, ServerGrows

\* An accepted push.
LEMMA CommitKeeps ==
  ASSUME ServerTypeOK, ServerStands, NEW request \in [Id -> LocalRow],
         NEW rejected, \A i \in Id : WellFormed(request[i]),
         CommitPush(request, rejected)
  PROVE  ServerKeeps
<1>1. ServerTypeOK' /\ HistoryBounded' /\ ServerMoves
  BY CommitPushMoves DEF ServerStands
<1>2. UnstoredIsGone'
  BY CommitPushUnstored DEF ServerStands
<1>3. floor' = 0
  BY DEF CommitPush, ServerStands
<1>4. \A i \in Id : srv'[i] = srv[i] \/ rev < srv'[i].rev
  BY StoreAfterRows DEF CommitPush
<1>5. \A i \in Id : acked[i] \subseteq acked'[i]
  BY DEF CommitPush, AckedAfter
<1> QED
  BY <1>1, <1>2, <1>3, <1>4, <1>5
     DEF ServerKeeps, ServerStands, ServerGrows, ServerMoves

(***************************************************************************)
(* What a step leaves alone.                                               *)
(***************************************************************************)
\* The run of a tab, but for being overtaken.
RunKept(t) ==
  /\ pc'[t] = pc[t] /\ from'[t] = from[t] /\ pulled'[t] = pulled[t]
  /\ delta'[t] = delta[t] /\ next'[t] = next[t]
  /\ snap'[t] = snap[t] /\ refused'[t] = refused[t]

\* The cursors of a typed run.
LEMMA RunCursors ==
  ASSUME RunsTyped, TypeOK, NEW t \in Tabs
  PROVE  /\ cursor \in Nat \cup {NoCursor}
         /\ from[t] \in Nat \cup {NoCursor}
         /\ pulled[t] \in Nat \cup {NoCursor}
         /\ next[t] \in Nat \cup {NoCursor}
         /\ delta[t] \in [Id -> Change] /\ snap[t] \in [Id -> LocalRow]
         /\ refused[t] \in SUBSET Id
BY DEF RunsTyped, TypeOK

\* A run that waits fits the server and the cursor as they move on.
LEMMA KeptRunFits ==
  ASSUME Inv, ServerKeeps, cursor' \in Nat \cup {NoCursor}, cursor <= cursor',
         NEW t \in Tabs, RunKept(t)
  PROVE  RunFits(t)'
<1>1. /\ cursor \in Nat \cup {NoCursor} /\ from[t] \in Nat \cup {NoCursor}
      /\ pulled[t] \in Nat \cup {NoCursor} /\ next[t] \in Nat \cup {NoCursor}
  BY RunCursors DEF Inv, CleanRowsAgree
<1>2. /\ EffMax \in Nat /\ rev \in Nat /\ EffMax <= rev
      /\ \A i \in Id : srv[i].rev \in Nat
  BY ServedBounds DEF Inv, CleanRowsAgree, TypeOK
<1>3. EffMax' \in Nat /\ \A i \in Id : srv'[i].rev \in Nat
  BY NextEffMaxIsTop DEF ServerKeeps, ServerStands, ServerTypeOK, StoredRow
<1>4. EffMax <= EffMax' /\ \A i \in Id : srv'[i] = srv[i] \/ rev < srv'[i].rev
  BY DEF ServerKeeps, ServerGrows
<1>5. CursorFits(t) /\ PullDelivers(t) /\ PushDelivers(t)
  BY DEF Inv, RunFits
<1>6. CursorFits(t)'
  BY <1>1, <1>2, <1>3, <1>4, <1>5 DEF CursorFits, RunKept, NoCursor, Applied, Answered
<1>7. ASSUME NEW c \in Nat \cup {NoCursor}, c <= EffMax, NEW i \in Id,
             srv'[i].rev <= c
      PROVE  srv'[i] = srv[i]
  BY <1>2, <1>3, <1>4, <1>7 DEF NoCursor
<1>8. PullDelivers(t)'
  <2> SUFFICES ASSUME pc[t] = "pulled", NEW i \in Id
               PROVE  /\ srv'[i].rev <= pulled[t] =>
                           IF delta[t][i] = Omitted
                             THEN srv'[i].rev = 0 \/ srv'[i].rev <= from[t]
                             ELSE delta[t][i] = srv'[i].body
                      /\ delta[t][i] # Omitted => from[t] < pulled[t]
    BY DEF PullDelivers, RunKept
  <2>1. pulled[t] <= EffMax
    BY <1>5 DEF CursorFits
  <2>2. srv'[i].rev <= pulled[t] => srv'[i] = srv[i]
    BY <1>1, <1>7, <2>1
  <2> QED
    BY <1>5, <2>2 DEF PullDelivers
<1>9. PushDelivers(t)'
  <2> SUFFICES ASSUME pc[t] \in Answered, NEW i \in Id
               PROVE  /\ srv'[i].rev <= next[t] =>
                           /\ IF delta[t][i] = Omitted
                                THEN i \in Named(snap[t]) \/ srv'[i].rev <= pulled[t]
                                ELSE delta[t][i] = srv'[i].body
                           /\ i \in Named(snap[t]) \ refused[t] =>
                                srv'[i].body = snap[t][i].data
                      /\ delta[t][i] # Omitted => pulled[t] < next[t]
    BY DEF PushDelivers, RunKept, Named
  <2>1. next[t] <= EffMax
    BY <1>5 DEF CursorFits
  <2>2. srv'[i].rev <= next[t] => srv'[i] = srv[i]
    BY <1>1, <1>7, <2>1
  <2> QED
    BY <1>5, <2>2 DEF PushDelivers
<1>10. PushAcked(t)'
  BY DEF Inv, RunFits, PushAcked, RunKept, Named, ServerKeeps, ServerGrows
<1> QED
  BY <1>6, <1>8, <1>9, <1>10 DEF RunFits

\* A run that is over owes nothing.
LEMMA EndedRunFits ==
  ASSUME NEW t \in Tabs, pc'[t] \in {"idle", "gone", "granted"}
  PROVE  RunFits(t)' /\ PushedStaysDirty(t)'
BY DEF RunFits, CursorFits, PullDelivers, PushDelivers, PushAcked, PushedStaysDirty,
       Applied, Answered

\* What a run pushed stays dirty under a step that changes neither the run nor
\* the cursor and leaves dirty rows dirty.
LEMMA KeptStaysDirty ==
  ASSUME NEW t \in Tabs, RunKept(t), PushedStaysDirty(t),
         t \in taken => t \in taken', stale \subseteq stale',
         pc[t] \in {"pushing"} \cup Answered /\ t \notin taken' /\ cursor' = pulled[t] =>
           /\ cursor' = cursor
           /\ \A i \in Named(snap[t]) \ stale' : IsDirty(rows[i]) => IsDirty(rows'[i])
  PROVE  PushedStaysDirty(t)'
BY DEF PushedStaysDirty, RunKept, Named

\* Runs overlap as before when none begins and only ended ones are forgotten.
LEMMA StillOverlap ==
  ASSUME RunsOverlap,
         \A t \in Tabs : pc'[t] \notin {"idle", "gone"} =>
            pc[t] \notin {"idle", "gone"} /\ (t \in taken => t \in taken')
  PROVE  RunsOverlap'
BY DEF RunsOverlap, Active

\* Inv part by part.
LEMMA InvNext ==
  ASSUME ServerKeeps, TypeOK', RunsTyped', cursor' <= EffMax', NothingBeforeCursor',
         \A i \in Id \ stale' : Agrees(i)',
         \A t \in Tabs : RunFits(t)' /\ PushedStaysDirty(t)', RunsOverlap'
  PROVE  Inv'
BY DEF Inv, CleanRowsAgree, ServerKeeps

\* The cursor stays within the served history when it stands.
LEMMA CursorStands ==
  ASSUME Inv, ServerKeeps, cursor' = cursor
  PROVE  /\ cursor \in Nat \cup {NoCursor} /\ cursor <= cursor' /\ cursor' <= EffMax'
<1>1. cursor \in Nat \cup {NoCursor} /\ EffMax \in Nat /\ cursor <= EffMax
  BY ServedBounds DEF Inv, CleanRowsAgree, TypeOK
<1>2. EffMax' \in Nat /\ EffMax <= EffMax'
  BY NextEffMaxIsTop DEF ServerKeeps, ServerStands, ServerGrows
<1> QED
  BY <1>1, <1>2 DEF NoCursor

\* A row agrees as before when it stands or is dirty.
LEMMA KeptAgrees ==
  ASSUME Inv, ServerKeeps, cursor' = cursor, NEW i \in Id, Agrees(i),
         rows'[i] = rows[i] \/ IsDirty(rows'[i])
  PROVE  Agrees(i)'
<1>1. cursor \in Nat \cup {NoCursor} /\ EffMax \in Nat /\ cursor <= EffMax
  BY ServedBounds DEF Inv, CleanRowsAgree, TypeOK
<1>2. rev \in Nat /\ EffMax <= rev
  BY ServedBounds DEF Inv, CleanRowsAgree, TypeOK
<1>3. srv'[i].rev \in Nat /\ (srv'[i] = srv[i] \/ rev < srv'[i].rev)
  BY DEF ServerKeeps, ServerGrows, ServerTypeOK, StoredRow
<1>4. srv'[i].rev <= cursor => srv'[i] = srv[i]
  BY <1>1, <1>2, <1>3 DEF NoCursor
<1> QED
  BY <1>4 DEF Agrees

\* A step of one tab that leaves the stored table and cursor alone.
LEMMA QuietStep ==
  ASSUME Inv, ServerKeeps, TypeOK', RunsTyped', UNCHANGED <<rows, cursor, stale>>,
         NEW t \in Tabs, RunFits(t)', PushedStaysDirty(t)', RunsOverlap',
         \A u \in Tabs \ {t} : RunKept(u) /\ (u \in taken => u \in taken')
  PROVE  Inv'
<1>1. cursor \in Nat \cup {NoCursor} /\ cursor <= cursor' /\ cursor' <= EffMax'
  BY CursorStands
<1>2. NothingBeforeCursor'
  BY DEF Inv, NothingBeforeCursor
<1>3. \A i \in Id \ stale' : Agrees(i)'
  BY KeptAgrees DEF Inv, CleanRowsAgree
<1>4. \A u \in Tabs \ {t} : RunFits(u)'
  BY <1>1, KeptRunFits
<1>5. \A u \in Tabs \ {t} : PushedStaysDirty(u)'
  BY KeptStaysDirty DEF Inv
<1> QED
  BY <1>1, <1>2, <1>3, <1>4, <1>5, InvNext

(***************************************************************************)
(* Writes of the application and of other devices, and the clock.          *)
(***************************************************************************)
\* A local write leaves a dirty row.
LEMMA LocalWriteKeeps ==
  ASSUME Inv, NEW i \in Id, NEW new, WellFormed(new), IsDirty(new),
         LocalWrite(i, new)
  PROVE  Inv'
<1>1. /\ rows' = [rows EXCEPT ![i] = new] /\ cursor' = cursor
      /\ taken' = taken /\ stale' = stale /\ UNCHANGED serverVars
      /\ UNCHANGED runVars /\ lease' = lease
  BY DEF LocalWrite
<1>2. TypeOK /\ RunsTyped /\ ServerTypeOK /\ ServerStands
  BY DEF Inv, CleanRowsAgree, TypeOK
<1>3. ServerKeeps
  BY <1>1, <1>2, ServerStill
<1>4. rows'[i] = new /\ \A j \in Id \ {i} : rows'[j] = rows[j]
  BY <1>1, <1>2 DEF RunsTyped
<1>5. TypeOK' /\ RunsTyped'
  <2>1. \A j \in Id : WellFormed(rows'[j])
    BY <1>2, <1>4 DEF TypeOK
  <2>2. TypeOK'
    BY <1>1, <1>2, <1>3, <2>1 DEF TypeOK, ServerKeeps, runVars
  <2>3. rows' \in [Id -> LocalRow]
    BY <1>1, <1>2 DEF RunsTyped, WellFormed
  <2>4. RunsTyped'
    BY <1>1, <1>2, <2>3 DEF RunsTyped, runVars
  <2> QED
    BY <2>2, <2>4
<1>6. cursor \in Nat \cup {NoCursor} /\ cursor <= cursor' /\ cursor' <= EffMax'
  BY <1>1, <1>3, CursorStands
<1>7. NothingBeforeCursor'
  BY <1>1, <1>4 DEF Inv, NothingBeforeCursor
<1>8. \A j \in Id : rows'[j] = rows[j] \/ IsDirty(rows'[j])
  BY <1>4
<1>9. \A j \in Id \ stale' : Agrees(j)'
  BY <1>1, <1>3, <1>8, KeptAgrees DEF Inv, CleanRowsAgree
<1>10. \A u \in Tabs : RunKept(u)
  BY <1>1 DEF RunKept, runVars
<1>11. \A u \in Tabs : RunFits(u)'
  BY <1>1, <1>3, <1>6, <1>10, KeptRunFits
<1>12. \A u \in Tabs : \A j \in Named(snap[u]) : IsDirty(rows[j]) => IsDirty(rows'[j])
  BY <1>8 DEF Named
<1>13. \A u \in Tabs : PushedStaysDirty(u)'
  BY <1>1, <1>10, <1>12, KeptStaysDirty DEF Inv
<1>14. RunsOverlap'
  BY <1>1, StillOverlap DEF Inv, runVars
<1> QED
  BY <1>3, <1>5, <1>6, <1>7, <1>9, <1>11, <1>13, <1>14, InvNext

\* Creating, editing and deleting a record.
LEMMA WritesKeep ==
  ASSUME Inv, NEW i \in Id, NEW new \in Content,
         MarkAsDeleted(i) \/ Create(i, new) \/ Update(i, new)
  PROVE  Inv'
<1>1. WellFormed(rows[i])
  BY DEF Inv, CleanRowsAgree, TypeOK
<1>2. CASE MarkAsDeleted(i)
  BY <1>2, LocalWriteKeeps, AbsentWellFormed DEF MarkAsDeleted, IsDirty, Tombstone
<1>3. CASE Create(i, new)
  BY <1>3, LocalWriteKeeps, FreshRowsWellFormed DEF Create, IsDirty, CreatedRow
<1>4. CASE Update(i, new)
  BY <1>1, <1>4, LocalWriteKeeps, EditRowWellFormed DEF Update
<1> QED
  BY <1>2, <1>3, <1>4

\* Steps that change no run: another device's write, and a lease running out.
LEMMA NoRunStep ==
  ASSUME Inv, ServerKeeps, UNCHANGED <<rows, cursor, runVars, taken, stale>>,
         lease' \in [holder : Tabs \cup {NoTab}, expired : BOOLEAN]
  PROVE  Inv'
<1>1. TypeOK /\ RunsTyped
  BY DEF Inv, CleanRowsAgree
<1>2. TypeOK' /\ RunsTyped'
  <2>1. TypeOK'
    BY <1>1 DEF TypeOK, ServerKeeps, runVars
  <2>2. RunsTyped'
    BY <1>1 DEF RunsTyped, runVars
  <2> QED
    BY <2>1, <2>2
<1>3. cursor \in Nat \cup {NoCursor} /\ cursor <= cursor' /\ cursor' <= EffMax'
  BY CursorStands
<1>4. NothingBeforeCursor'
  BY DEF Inv, NothingBeforeCursor
<1>5. \A i \in Id \ stale' : Agrees(i)'
  BY KeptAgrees DEF Inv, CleanRowsAgree
<1>6. \A u \in Tabs : RunKept(u)
  BY DEF RunKept, runVars
<1>7. \A u \in Tabs : RunFits(u)'
  BY <1>3, <1>6, KeptRunFits
<1>8. \A u \in Tabs : PushedStaysDirty(u)'
  BY <1>6, KeptStaysDirty DEF Inv
<1>9. RunsOverlap'
  BY StillOverlap DEF Inv, runVars
<1> QED
  BY <1>2, <1>3, <1>4, <1>5, <1>7, <1>8, <1>9, InvNext

\* Another device writes.
LEMMA RemoteKeeps ==
  ASSUME Inv, NEW i \in Id, NEW new \in Body, RemoteWrite(i, new)
  PROVE  Inv'
<1>1. TypeOK /\ ServerTypeOK /\ ServerStands
  BY DEF Inv, CleanRowsAgree, TypeOK
<1>2. ServerKeeps
  BY <1>1, RemoteWriteKeeps
<1>3. UNCHANGED <<rows, cursor, runVars, taken, stale>> /\ lease' = lease
  BY DEF RemoteWrite
<1>4. lease' \in [holder : Tabs \cup {NoTab}, expired : BOOLEAN]
  BY <1>1, <1>3 DEF TypeOK
<1> QED
  BY <1>2, <1>3, <1>4, NoRunStep

\* A lease runs out.
LEMMA ExpireKeeps ==
  ASSUME Inv, Expire
  PROVE  Inv'
<1>1. TypeOK /\ ServerTypeOK /\ ServerStands
  BY DEF Inv, CleanRowsAgree, TypeOK
<1>2. ServerKeeps
  BY <1>1, ServerStill DEF Expire
<1>3. UNCHANGED <<rows, cursor, runVars, taken, stale>>
  BY DEF Expire
<1>4. lease' \in [holder : Tabs \cup {NoTab}, expired : BOOLEAN]
  BY <1>1 DEF TypeOK, Expire
<1> QED
  BY <1>2, <1>3, <1>4, NoRunStep

(***************************************************************************)
(* A run: its ends.                                                        *)
(***************************************************************************)
\* A run that ends changes nothing but itself.
LEMMA EndsKeep ==
  ASSUME Inv, NEW t \in Tabs, NEW label \in {"idle", "gone"}, EndsAs(t, label)
  PROVE  /\ pc' \in [Tabs -> Labels] /\ attempt' \in [Tabs -> 0 .. Retries]
         /\ taken' \in SUBSET Tabs
         /\ rows' = rows => RunsTyped'
         /\ \A u \in Tabs \ {t} : RunKept(u) /\ (u \in taken => u \in taken')
         /\ RunFits(t)' /\ PushedStaysDirty(t)' /\ RunsOverlap'
         /\ pc'[t] = label
<1>1. TypeOK /\ RunsTyped
  BY DEF Inv, CleanRowsAgree
<1>2. /\ pc' = [pc EXCEPT ![t] = label] /\ attempt' = [attempt EXCEPT ![t] = 0]
      /\ from' = [from EXCEPT ![t] = NoCursor]
      /\ pulled' = [pulled EXCEPT ![t] = NoCursor]
      /\ delta' = [delta EXCEPT ![t] = NoChanges]
      /\ next' = [next EXCEPT ![t] = NoCursor]
      /\ snap' = [snap EXCEPT ![t] = NoRequest]
      /\ refused' = [refused EXCEPT ![t] = {}] /\ taken' = taken \ {t}
  BY DEF EndsAs, Goto
<1>3. pc' \in [Tabs -> Labels] /\ pc'[t] = label /\ taken' \in SUBSET Tabs
  BY <1>1, <1>2 DEF TypeOK, Labels
<1>4. attempt' \in [Tabs -> 0 .. Retries]
  BY <1>1, <1>2, TabConstants DEF TypeOK
<1>5. NoChanges \in [Id -> Change] /\ NoRequest \in [Id -> LocalRow]
      /\ \A i \in Id : NoRequest[i] = Absent /\ WellFormed(Absent)
  BY AbsentWellFormed DEF NoChanges, NoRequest, Change, WellFormed
<1>6. ASSUME rows' = rows PROVE RunsTyped'
  <2>1. \A u \in Tabs, i \in Id : WellFormed(snap'[u][i])
    BY <1>1, <1>2, <1>5 DEF RunsTyped
  <2> QED
    BY <1>1, <1>2, <1>5, <1>6, <2>1 DEF RunsTyped
<1>7. \A u \in Tabs \ {t} : RunKept(u) /\ (u \in taken => u \in taken')
  BY <1>1, <1>2 DEF RunsTyped, TypeOK, RunKept
<1>8. RunFits(t)' /\ PushedStaysDirty(t)'
  BY <1>3, EndedRunFits
<1>9. RunsOverlap'
  <2>1. \A u \in Tabs : pc'[u] \notin {"idle", "gone"} =>
          pc[u] \notin {"idle", "gone"} /\ (u \in taken => u \in taken')
    BY <1>3, <1>7 DEF RunKept
  <2> QED
    BY <2>1, StillOverlap DEF Inv
<1> QED
  BY <1>3, <1>4, <1>6, <1>7, <1>8, <1>9

\* A run that ends without writing.
LEMMA QuietEnd ==
  ASSUME Inv, NEW t \in Tabs, NEW label \in {"idle", "gone"}, EndsAs(t, label),
         UNCHANGED <<stale, serverVars, rows, cursor, lease>>
  PROVE  Inv'
<1>1. TypeOK /\ ServerTypeOK /\ ServerStands
  BY DEF Inv, CleanRowsAgree, TypeOK
<1>2. ServerKeeps
  BY <1>1, ServerStill
<1>3. /\ pc' \in [Tabs -> Labels] /\ attempt' \in [Tabs -> 0 .. Retries]
      /\ taken' \in SUBSET Tabs /\ RunsTyped'
      /\ \A u \in Tabs \ {t} : RunKept(u) /\ (u \in taken => u \in taken')
      /\ RunFits(t)' /\ PushedStaysDirty(t)' /\ RunsOverlap'
  BY EndsKeep
<1>4. TypeOK'
  BY <1>1, <1>2, <1>3 DEF TypeOK, ServerKeeps
<1> QED
  BY <1>2, <1>3, <1>4, QuietStep

\* The ends that write nothing: the cursor moved, nothing to push, the turn was
\* lost, a failure or a death, a conflict in the last attempt.
LEMMA EndingsKeep ==
  ASSUME Inv, NEW t \in Tabs,
         \/ AbortApply(t) \/ FetchNothing(t) \/ LoseTurn(t) \/ Fail(t)
         \/ PushConflict(t) /\ ~(attempt[t] < Retries)
  PROVE  Inv'
<1>1. \E label \in {"idle", "gone"} : EndsAs(t, label)
  BY DEF AbortApply, FetchNothing, LoseTurn, Fail, PushConflict, EndRun
<1>2. UNCHANGED <<stale, serverVars, rows, cursor, lease>>
  BY DEF AbortApply, FetchNothing, LoseTurn, Fail, PushConflict
<1> QED
  BY <1>1, <1>2, QuietEnd

(***************************************************************************)
(* A run: its steps before and between the writes.                         *)
(***************************************************************************)
\* The lease keeps its type, and only marks runs as overtaken.
LEMMA GrantedTypes ==
  ASSUME TypeOK, NEW t \in Tabs, Granted(t)
  PROVE  /\ lease' \in [holder : Tabs \cup {NoTab}, expired : BOOLEAN]
         /\ taken' \in SUBSET Tabs
         /\ \A u \in Tabs : u \in taken => u \in taken'
BY DEF TypeOK, Granted

\* A run that begins overtakes all that are under way.
LEMMA AskTurnKeeps ==
  ASSUME Inv, NEW t \in Tabs, AskTurn(t)
  PROVE  Inv'
<1>1. TypeOK /\ RunsTyped /\ ServerTypeOK /\ ServerStands
  BY DEF Inv, CleanRowsAgree, TypeOK
<1>2. /\ pc' = [pc EXCEPT ![t] = "granted"] /\ attempt' = [attempt EXCEPT ![t] = 1]
      /\ Granted(t) /\ UNCHANGED <<stale, serverVars, rows, cursor, from, pulled>>
      /\ UNCHANGED <<delta, next, snap, refused>>
  BY DEF AskTurn, Goto
<1>3. ServerKeeps
  BY <1>1, <1>2, ServerStill
<1>4. pc' \in [Tabs -> Labels] /\ pc'[t] = "granted"
  BY <1>1, <1>2 DEF TypeOK, Labels
<1>5. attempt' \in [Tabs -> 0 .. Retries]
  BY <1>1, <1>2, TabConstants DEF TypeOK
<1>6. /\ lease' \in [holder : Tabs \cup {NoTab}, expired : BOOLEAN]
      /\ taken' \in SUBSET Tabs /\ \A u \in Tabs : u \in taken => u \in taken'
  BY <1>1, <1>2, GrantedTypes
<1>7. TypeOK'
  BY <1>1, <1>2, <1>3, <1>4, <1>5, <1>6 DEF TypeOK, ServerKeeps
<1>8. RunsTyped'
  BY <1>1, <1>2 DEF RunsTyped
<1>9. \A u \in Tabs \ {t} : RunKept(u) /\ (u \in taken => u \in taken')
  BY <1>1, <1>2, <1>6 DEF TypeOK, RunKept
<1>10. RunFits(t)' /\ PushedStaysDirty(t)'
  BY <1>4, EndedRunFits
<1>11. RunsOverlap'
  <2> SUFFICES ASSUME NEW v \in Tabs, NEW w \in Tabs, v # w,
                      pc'[v] \notin {"idle", "gone"}, pc'[w] \notin {"idle", "gone"}
               PROVE  v \in taken' \/ w \in taken'
    BY DEF RunsOverlap, Active
  <2>1. taken' = taken \cup {u \in Tabs \ {t} : pc[u] \notin {"idle", "gone"}}
    BY <1>2 DEF Granted
  <2>2. CASE v = t
    BY <1>9, <2>1, <2>2 DEF RunKept
  <2>3. CASE w = t
    BY <1>9, <2>1, <2>3 DEF RunKept
  <2>4. CASE v # t /\ w # t
    BY <1>6, <1>9, <2>4 DEF RunKept, Inv, RunsOverlap, Active
  <2> QED
    BY <2>2, <2>3, <2>4
<1> QED
  BY <1>2, <1>3, <1>7, <1>8, <1>9, <1>10, <1>11, QuietStep

\* The cursor is read for the pull.
LEMMA ReadCursorKeeps ==
  ASSUME Inv, NEW t \in Tabs, ReadCursor(t)
  PROVE  Inv'
<1>1. TypeOK /\ RunsTyped /\ ServerTypeOK /\ ServerStands
  BY DEF Inv, CleanRowsAgree, TypeOK
<1>2. /\ pc[t] = "granted" /\ pc' = [pc EXCEPT ![t] = "pulling"]
      /\ from' = [from EXCEPT ![t] = cursor]
      /\ UNCHANGED <<taken, stale, serverVars, rows, cursor, lease, attempt, pulled>>
      /\ UNCHANGED <<delta, next, snap, refused>>
  BY DEF ReadCursor, Goto
<1>3. ServerKeeps
  BY <1>1, <1>2, ServerStill
<1>4. pc' \in [Tabs -> Labels] /\ pc'[t] = "pulling" /\ from'[t] = cursor
  BY <1>1, <1>2 DEF TypeOK, Labels, RunsTyped
<1>5. TypeOK'
  BY <1>1, <1>2, <1>3, <1>4 DEF TypeOK, ServerKeeps
<1>6. RunsTyped'
  BY <1>1, <1>2 DEF RunsTyped, TypeOK
<1>7. \A u \in Tabs \ {t} : RunKept(u) /\ (u \in taken => u \in taken')
  BY <1>1, <1>2 DEF TypeOK, RunsTyped, RunKept
<1>8. RunFits(t)' /\ PushedStaysDirty(t)'
  <2>1. from'[t] <= cursor'
    BY <1>1, <1>2, <1>4 DEF TypeOK, NoCursor
  <2> QED
    BY <1>4, <2>1 DEF RunFits, CursorFits, PullDelivers, PushDelivers, PushAcked,
                      PushedStaysDirty, Applied, Answered
<1>9. RunsOverlap'
  BY <1>2, <1>7, StillOverlap DEF Inv, RunKept
<1> QED
  BY <1>2, <1>3, <1>5, <1>6, <1>7, <1>8, <1>9, QuietStep

\* What a window shows of a row.
LEMMA WindowRows ==
  ASSUME NEW r \in [Id -> StoredRow], NEW since, NEW excluded
  PROVE  /\ Window(r, since, excluded) \in [Id -> Change]
         /\ \A i \in Id :
              IF Window(r, since, excluded)[i] = Omitted
                THEN i \in excluded \/ r[i].rev <= since
                ELSE Window(r, since, excluded)[i] = r[i].body /\ ~(r[i].rev <= since)
BY MarkersAreNoContent DEF Window, StoredRow, Change, Body

\* The pull is answered.
LEMMA ServePullKeeps ==
  ASSUME Inv, NEW t \in Tabs, ServePull(t)
  PROVE  Inv'
<1>1. TypeOK /\ RunsTyped /\ ServerTypeOK /\ ServerStands /\ srv \in [Id -> StoredRow]
  BY DEF Inv, CleanRowsAgree, TypeOK, ServerTypeOK
<1>2. /\ pc[t] = "pulling" /\ pc' = [pc EXCEPT ![t] = "pulled"]
      /\ delta' = [delta EXCEPT ![t] = PullChanges(from[t])]
      /\ pulled' = [pulled EXCEPT ![t] = PullCursor(from[t])]
      /\ UNCHANGED <<taken, stale, serverVars, rows, cursor, lease, attempt, from>>
      /\ UNCHANGED <<next, snap, refused>>
  BY DEF ServePull, Goto
<1>3. ServerKeeps /\ EffMax' = EffMax
  BY <1>1, <1>2, ServerStill
<1>4. /\ from[t] \in Nat \cup {NoCursor} /\ cursor \in Nat \cup {NoCursor}
      /\ from[t] <= cursor /\ cursor <= EffMax
  BY <1>1, <1>2, RunCursors DEF Inv, RunFits, CursorFits
<1>5. /\ EffMax \in Nat /\ \A i \in Id : srv[i].rev \in Nat /\ srv[i].rev <= EffMax
  BY <1>1, ServedBounds
<1>6. from[t] <= EffMax /\ PullCursor(from[t]) = EffMax
  BY <1>4, <1>5 DEF PullCursor, NoCursor
<1>7. PICK since \in Nat : /\ since = IF from[t] = NoCursor THEN 0 ELSE from[t]
                           /\ PullChanges(from[t]) = Window(srv, since, {})
  BY <1>4 DEF PullChanges
<1>8. Window(srv, since, {}) \in [Id -> Change]
  BY <1>1, WindowRows
<1>9. /\ pc' \in [Tabs -> Labels] /\ pc'[t] = "pulled" /\ from'[t] = from[t]
      /\ delta'[t] = Window(srv, since, {}) /\ pulled'[t] = EffMax
  BY <1>1, <1>2, <1>6, <1>7 DEF TypeOK, Labels, RunsTyped
<1>10. TypeOK'
  BY <1>1, <1>2, <1>3, <1>9 DEF TypeOK, ServerKeeps
<1>11. RunsTyped'
  <2>1. delta' \in [Tabs -> [Id -> Change]]
    BY <1>1, <1>2, <1>7, <1>8 DEF RunsTyped
  <2>2. pulled' \in [Tabs -> Nat \cup {NoCursor}]
    BY <1>1, <1>2, <1>5, <1>6 DEF RunsTyped
  <2> QED
    BY <1>1, <1>2, <2>1, <2>2 DEF RunsTyped
<1>12. \A u \in Tabs \ {t} : RunKept(u) /\ (u \in taken => u \in taken')
  BY <1>1, <1>2 DEF TypeOK, RunsTyped, RunKept
<1>13. PullDelivers(t)'
  <2> SUFFICES ASSUME NEW i \in Id
               PROVE  /\ IF Window(srv, since, {})[i] = Omitted
                           THEN srv[i].rev = 0 \/ srv[i].rev <= from[t]
                           ELSE Window(srv, since, {})[i] = srv[i].body
                      /\ Window(srv, since, {})[i] # Omitted => from[t] < EffMax
    <3>1. srv' = srv
      BY <1>2 DEF serverVars
    <3> QED
      BY <1>9, <3>1 DEF PullDelivers
  <2>1. IF Window(srv, since, {})[i] = Omitted THEN srv[i].rev <= since
        ELSE Window(srv, since, {})[i] = srv[i].body /\ ~(srv[i].rev <= since)
    BY <1>1, WindowRows
  <2>2. srv[i].rev \in Nat /\ srv[i].rev <= EffMax
    BY <1>5
  <2>3. srv[i].rev <= since => srv[i].rev = 0 \/ srv[i].rev <= from[t]
    BY <1>7, <2>2
  <2>4. ~(srv[i].rev <= since) => from[t] < EffMax
    BY <1>4, <1>5, <1>7, <2>2 DEF NoCursor
  <2> QED
    BY <2>1, <2>3, <2>4
<1>14. RunFits(t)' /\ PushedStaysDirty(t)'
  BY <1>2, <1>3, <1>4, <1>5, <1>6, <1>9, <1>13
     DEF RunFits, CursorFits, PushDelivers, PushAcked, PushedStaysDirty, Applied,
         Answered
<1>15. RunsOverlap'
  BY <1>2, <1>12, StillOverlap DEF Inv, RunKept
<1> QED
  BY <1>2, <1>3, <1>10, <1>11, <1>12, <1>14, <1>15, QuietStep

\* The dirty rows are frozen for the push.
LEMMA FetchLocalKeeps ==
  ASSUME Inv, NEW t \in Tabs, FetchLocal(t)
  PROVE  Inv'
<1> DEFINE frozen == [i \in Id |-> Frozen(rows[i])]
<1>1. TypeOK /\ RunsTyped /\ ServerTypeOK /\ ServerStands
  BY DEF Inv, CleanRowsAgree, TypeOK
<1>2. /\ pc[t] = "ready" /\ pc' = [pc EXCEPT ![t] = "pushing"]
      /\ snap' = [snap EXCEPT ![t] = frozen]
      /\ UNCHANGED <<taken, stale, serverVars, rows, cursor, lease, attempt, from>>
      /\ UNCHANGED <<pulled, delta, next, refused>>
  BY DEF FetchLocal, Goto
<1>3. ServerKeeps /\ EffMax' = EffMax
  BY <1>1, <1>2, ServerStill
<1>4. \A i \in Id : /\ frozen[i] = Frozen(rows[i]) /\ WellFormed(frozen[i])
                    /\ IsDirty(frozen[i]) <=> IsDirty(rows[i])
  BY <1>1, FrozenRow DEF TypeOK
<1>5. frozen \in [Id -> LocalRow]
  BY <1>4 DEF WellFormed
<1> HIDE DEF frozen
<1>6. pc' \in [Tabs -> Labels] /\ pc'[t] = "pushing" /\ snap'[t] = frozen
  BY <1>1, <1>2 DEF TypeOK, Labels, RunsTyped
<1>7. TypeOK'
  BY <1>1, <1>2, <1>3, <1>6 DEF TypeOK, ServerKeeps
<1>8. RunsTyped'
  <2>1. \A u \in Tabs, i \in Id : WellFormed(snap'[u][i])
    BY <1>1, <1>2, <1>4 DEF RunsTyped
  <2> QED
    BY <1>1, <1>2, <1>5, <2>1 DEF RunsTyped
<1>9. \A u \in Tabs \ {t} : RunKept(u) /\ (u \in taken => u \in taken')
  BY <1>1, <1>2 DEF TypeOK, RunsTyped, RunKept
<1>10. RunFits(t)'
  BY <1>2, <1>6 DEF Inv, RunFits, CursorFits, PullDelivers, PushDelivers, PushAcked,
                    Applied, Answered
<1>11. PushedStaysDirty(t)'
  BY <1>2, <1>4, <1>6 DEF PushedStaysDirty, Named
<1>12. RunsOverlap'
  BY <1>2, <1>9, StillOverlap DEF Inv, RunKept
<1> QED
  BY <1>2, <1>3, <1>7, <1>8, <1>9, <1>10, <1>11, <1>12, QuietStep

\* A conflict begins the next attempt.
LEMMA RetryKeeps ==
  ASSUME Inv, NEW t \in Tabs, PushConflict(t), attempt[t] < Retries
  PROVE  Inv'
<1>1. TypeOK /\ RunsTyped /\ ServerTypeOK /\ ServerStands
  BY DEF Inv, CleanRowsAgree, TypeOK
<1>2. /\ pc[t] = "pushing" /\ pc' = [pc EXCEPT ![t] = "granted"]
      /\ attempt' = [attempt EXCEPT ![t] = attempt[t] + 1]
      /\ snap' = [snap EXCEPT ![t] = NoRequest]
      /\ UNCHANGED <<stale, serverVars, rows, cursor, lease, from, pulled, delta>>
      /\ UNCHANGED <<next, refused, taken>>
  BY DEF PushConflict, Goto
<1>3. ServerKeeps
  BY <1>1, <1>2, ServerStill
<1>4. pc' \in [Tabs -> Labels] /\ pc'[t] = "granted"
  BY <1>1, <1>2 DEF TypeOK, Labels
<1>5. attempt' \in [Tabs -> 0 .. Retries]
  BY <1>1, <1>2, TabConstants DEF TypeOK
<1>6. TypeOK'
  BY <1>1, <1>2, <1>3, <1>4, <1>5 DEF TypeOK, ServerKeeps
<1>7. RunsTyped'
  <2>1. NoRequest \in [Id -> LocalRow]
        /\ \A i \in Id : NoRequest[i] = Absent /\ WellFormed(Absent)
    BY AbsentWellFormed DEF NoRequest, WellFormed
  <2>2. \A u \in Tabs, i \in Id : WellFormed(snap'[u][i])
    BY <1>1, <1>2, <2>1 DEF RunsTyped
  <2> QED
    BY <1>1, <1>2, <2>1, <2>2 DEF RunsTyped
<1>8. \A u \in Tabs \ {t} : RunKept(u) /\ (u \in taken => u \in taken')
  BY <1>1, <1>2 DEF TypeOK, RunsTyped, RunKept
<1>9. RunFits(t)' /\ PushedStaysDirty(t)'
  BY <1>4, EndedRunFits
<1>10. RunsOverlap'
  BY <1>2, <1>8, StillOverlap DEF Inv, RunKept
<1> QED
  BY <1>2, <1>3, <1>6, <1>7, <1>8, <1>9, <1>10, QuietStep

\* The turn is confirmed, which may overtake others.
LEMMA ConfirmKeeps ==
  ASSUME Inv, NEW t \in Tabs, Confirm(t)
  PROVE  Inv'
<1>1. TypeOK /\ RunsTyped /\ ServerTypeOK /\ ServerStands
  BY DEF Inv, CleanRowsAgree, TypeOK
<1>2. /\ pc[t] = "pushed" /\ pc' = [pc EXCEPT ![t] = "confirmed"] /\ Granted(t)
      /\ UNCHANGED <<stale, serverVars, rows, cursor, attempt, from, pulled, delta>>
      /\ UNCHANGED <<next, snap, refused>>
  BY DEF Confirm, Goto
<1>3. ServerKeeps /\ EffMax' = EffMax /\ srv' = srv
  BY <1>1, <1>2, ServerStill DEF serverVars
<1>4. pc' \in [Tabs -> Labels] /\ pc'[t] = "confirmed"
  BY <1>1, <1>2 DEF TypeOK, Labels
<1>5. /\ lease' \in [holder : Tabs \cup {NoTab}, expired : BOOLEAN]
      /\ taken' \in SUBSET Tabs /\ \A u \in Tabs : u \in taken => u \in taken'
  BY <1>1, <1>2, GrantedTypes
<1>6. TypeOK'
  BY <1>1, <1>2, <1>3, <1>4, <1>5 DEF TypeOK, ServerKeeps
<1>7. RunsTyped'
  BY <1>1, <1>2 DEF RunsTyped
<1>8. \A u \in Tabs \ {t} : RunKept(u) /\ (u \in taken => u \in taken')
  BY <1>1, <1>2, <1>5 DEF TypeOK, RunKept
<1>9. RunFits(t)'
  <2>1. CursorFits(t) /\ PushDelivers(t)
    BY DEF Inv, RunFits
  <2>2. CursorFits(t)'
    BY <1>2, <1>3, <1>4, <2>1 DEF CursorFits, Applied, Answered
  <2>3. PushDelivers(t)'
    BY <1>2, <1>3, <1>4, <2>1 DEF PushDelivers, Answered, Named
  <2>4. PushAcked(t)'
    BY <1>2, <1>4 DEF Inv, RunFits, PushAcked, Answered, Named, serverVars
  <2> QED
    BY <1>4, <2>2, <2>3, <2>4 DEF RunFits, PullDelivers
<1>10. PushedStaysDirty(t)'
  BY <1>2, <1>4, <1>5 DEF Inv, PushedStaysDirty, Answered, Named
<1>11. RunsOverlap'
  BY <1>2, <1>5, <1>8, StillOverlap DEF Inv, RunKept
<1> QED
  BY <1>2, <1>3, <1>6, <1>7, <1>8, <1>9, <1>10, <1>11, QuietStep

\* The answer of an accepted push.
LEMMA AcceptPushKeeps ==
  ASSUME Inv, NEW t \in Tabs, AcceptPush(t)
  PROVE  Inv'
<1> DEFINE no    == Refused(snap[t], {})
           store == StoreAfter(snap[t], no)
<1>1. TypeOK /\ RunsTyped /\ ServerTypeOK /\ ServerStands /\ floor = 0
  BY DEF Inv, CleanRowsAgree, TypeOK, ServerStands
<1>2. snap[t] \in [Id -> LocalRow] /\ \A i \in Id : WellFormed(snap[t][i])
  BY <1>1 DEF RunsTyped
<1>3. /\ pc[t] = "pushing" /\ CommitPush(snap[t], no)
      /\ pc' = [pc EXCEPT ![t] = "pushed"]
      /\ refused' = [refused EXCEPT ![t] = no]
      /\ delta' = [delta EXCEPT ![t] = PushChanges(snap[t], pulled[t], store)]
      /\ next' = [next EXCEPT ![t] = PushCursor(pulled[t], store)]
      /\ UNCHANGED <<taken, stale, rows, cursor, lease, attempt, from, pulled, snap>>
  BY DEF AcceptPush, Goto
<1>4. ServerKeeps
  BY <1>1, <1>2, <1>3, CommitKeeps
<1>5. srv' = store /\ store \in [Id -> StoredRow] /\ floor' = 0
  BY <1>1, <1>2, <1>3, <1>4, StoreAfterRows DEF CommitPush
<1>6. \A i \in Id : IsDirty(snap[t][i]) /\ i \notin no => store[i].body = snap[t][i].data
  BY <1>1, <1>2, AcceptedStored
<1>7. no \in SUBSET Id
  BY DEF Refused, Named, Upserts
<1> HIDE DEF no, store
<1>8. /\ pulled[t] \in Nat /\ cursor \in Nat \cup {NoCursor} /\ pulled[t] <= cursor
      /\ cursor <= EffMax
  BY <1>1, <1>3, RunCursors DEF Inv, RunFits, CursorFits, Applied, NoCursor
<1>9. /\ EffMax \in Nat /\ EffMax' \in Nat /\ EffMax <= EffMax'
      /\ \A i \in Id : store[i].rev \in Nat /\ store[i].rev <= EffMax'
  BY <1>1, <1>4, <1>5, ServedBounds, NextEffMaxIsTop
     DEF ServerKeeps, ServerGrows, ServerStands, StoredRow
<1>10. PushCursor(pulled[t], store) = EffMax'
  BY <1>1, <1>5, <1>8 DEF PushCursor, EffMax
<1>11. PushChanges(snap[t], pulled[t], store) = Window(store, pulled[t], Named(snap[t]))
  BY <1>1, <1>8 DEF PushChanges
<1> DEFINE answer == Window(store, pulled[t], Named(snap[t]))
<1>12. /\ answer \in [Id -> Change]
       /\ \A i \in Id : IF answer[i] = Omitted
                          THEN i \in Named(snap[t]) \/ store[i].rev <= pulled[t]
                          ELSE answer[i] = store[i].body /\ ~(store[i].rev <= pulled[t])
  BY <1>5, WindowRows
<1> HIDE DEF answer
<1>13. delta' = [delta EXCEPT ![t] = answer] /\ next' = [next EXCEPT ![t] = EffMax']
  BY <1>3, <1>10, <1>11 DEF answer
<1>14. /\ pc' \in [Tabs -> Labels] /\ pc'[t] = "pushed" /\ delta'[t] = answer
       /\ next'[t] = EffMax' /\ refused'[t] = no /\ pulled'[t] = pulled[t]
       /\ snap'[t] = snap[t]
  BY <1>1, <1>3, <1>13 DEF TypeOK, RunsTyped, Labels
<1>15. TypeOK'
  BY <1>1, <1>3, <1>4, <1>14 DEF TypeOK, ServerKeeps
<1>16. RunsTyped'
  BY <1>1, <1>3, <1>7, <1>9, <1>12, <1>13 DEF RunsTyped
<1>17. \A u \in Tabs \ {t} : RunKept(u) /\ (u \in taken => u \in taken')
  BY <1>1, <1>3, <1>13 DEF TypeOK, RunsTyped, RunKept
<1>18. CursorFits(t)'
  BY <1>3, <1>8, <1>9, <1>14 DEF CursorFits, Applied, Answered
<1>19. PushDelivers(t)'
  <2> SUFFICES ASSUME NEW i \in Id
               PROVE  /\ IF answer[i] = Omitted
                           THEN i \in Named(snap[t]) \/ store[i].rev <= pulled[t]
                           ELSE answer[i] = store[i].body
                      /\ i \in Named(snap[t]) \ no => store[i].body = snap[t][i].data
                      /\ answer[i] # Omitted => pulled[t] < EffMax'
    BY <1>5, <1>14 DEF PushDelivers, Named
  <2>1. i \in Named(snap[t]) \ no => store[i].body = snap[t][i].data
    BY <1>6 DEF Named
  <2>2. answer[i] # Omitted => pulled[t] < EffMax'
    BY <1>8, <1>9, <1>12
  <2> QED
    BY <1>12, <2>1, <2>2
<1>20. PushedStaysDirty(t)'
  BY <1>3, <1>14 DEF Inv, PushedStaysDirty, Answered, Named
<1>21. RunsOverlap'
  BY <1>3, <1>17, StillOverlap DEF Inv, RunKept
<1>22. PushAcked(t)'
  BY <1>3, <1>14 DEF PushAcked, CommitPush, AckedAfter, Named
<1>23. RunFits(t)'
  BY <1>14, <1>18, <1>19, <1>22 DEF RunFits, PullDelivers
<1> QED
  BY <1>3, <1>4, <1>15, <1>16, <1>17, <1>20, <1>21, <1>23, QuietStep

(***************************************************************************)
(* A run: its two writes.                                                  *)
(***************************************************************************)
\* One change that replaces nothing.
LEMMA MergedRow ==
  ASSUME NEW r, WellFormed(r), NEW change \in Change
  PROVE  /\ WellFormed(ApplyChange(r, change, FALSE))
         /\ change # Gone => (IsDirty(ApplyChange(r, change, FALSE)) <=> IsDirty(r))
         /\ change # Omitted /\ ~IsDirty(ApplyChange(r, change, FALSE)) =>
              ApplyChange(r, change, FALSE).data = change
         /\ change = Omitted => ApplyChange(r, change, FALSE) = r
<1>1. LET a == ApplyChange(r, change, FALSE)
      IN  /\ WellFormed(a)
          /\ change # Gone => (IsDirty(a) <=> IsDirty(r))
          /\ change # Omitted /\ ~IsDirty(a) => a.data = change
          /\ change = Omitted /\ ~FALSE => a = r
  BY ApplyChangeRow
<1> QED
  BY <1>1

\* The apply write: what the answer omits the cursor had reached, and nobody
\* moved the cursor since it was read.
LEMMA ApplyKeeps ==
  ASSUME Inv, NEW t \in Tabs, Apply(t)
  PROVE  Inv'
<1>1. TypeOK /\ RunsTyped /\ ServerTypeOK /\ ServerStands
  BY DEF Inv, CleanRowsAgree, TypeOK
<1>2. /\ pc[t] = "pulled" /\ cursor = from[t]
      /\ rows' = [i \in Id |-> ApplyChange(rows[i], delta[t][i], FALSE)]
      /\ cursor' = pulled[t] /\ pc' = [pc EXCEPT ![t] = "ready"]
      /\ delta' = [delta EXCEPT ![t] = NoChanges]
      /\ UNCHANGED <<taken, stale, serverVars, lease, attempt, from, pulled, next>>
      /\ UNCHANGED <<snap, refused>>
  BY DEF Apply, Goto, Merge
<1>3. ServerKeeps /\ EffMax' = EffMax /\ srv' = srv
  BY <1>1, <1>2, ServerStill DEF serverVars
<1>4. /\ from[t] \in Nat \cup {NoCursor} /\ pulled[t] \in Nat
      /\ from[t] <= pulled[t] /\ pulled[t] <= EffMax /\ cursor \in Nat \cup {NoCursor}
  BY <1>1, <1>2, RunCursors DEF Inv, RunFits, CursorFits, NoCursor
<1>5. \A i \in Id : srv[i].rev \in Nat
  BY <1>1, ServedBounds
<1>6. ASSUME NEW i \in Id
      PROVE  /\ WellFormed(rows'[i])
             /\ delta[t][i] # Gone => (IsDirty(rows'[i]) <=> IsDirty(rows[i]))
             /\ delta[t][i] # Omitted /\ ~IsDirty(rows'[i]) => rows'[i].data = delta[t][i]
             /\ delta[t][i] = Omitted => rows'[i] = rows[i]
  <2>1. rows'[i] = ApplyChange(rows[i], delta[t][i], FALSE)
    BY <1>2
  <2>2. WellFormed(rows[i]) /\ delta[t][i] \in Change
    BY <1>1 DEF TypeOK, RunsTyped
  <2> DEFINE merged == ApplyChange(rows[i], delta[t][i], FALSE)
  <2>3. /\ WellFormed(merged)
        /\ delta[t][i] # Gone => (IsDirty(merged) <=> IsDirty(rows[i]))
        /\ delta[t][i] # Omitted /\ ~IsDirty(merged) => merged.data = delta[t][i]
        /\ delta[t][i] = Omitted => merged = rows[i]
    BY <2>2, MergedRow
  <2>4. rows'[i] = merged
    BY <2>1
  <2> HIDE DEF merged
  <2> QED
    BY <2>3, <2>4
<1>7. pc' \in [Tabs -> Labels] /\ pc'[t] = "ready" /\ pulled'[t] = pulled[t]
  BY <1>1, <1>2 DEF TypeOK, Labels
<1>8. TypeOK'
  BY <1>1, <1>2, <1>3, <1>4, <1>6, <1>7 DEF TypeOK, ServerKeeps
<1>9. RunsTyped'
  <2>1. rows' \in [Id -> LocalRow]
    <3>1. \A i \in Id : rows'[i] \in LocalRow
      BY <1>6 DEF WellFormed
    <3>2. rows' = [i \in Id |-> rows'[i]]
      BY <1>2
    <3> QED
      BY <3>1, <3>2
  <2>2. NoChanges \in [Id -> Change]
    BY DEF NoChanges, Change
  <2> QED
    BY <1>1, <1>2, <2>1, <2>2 DEF RunsTyped
<1>10. cursor <= cursor' /\ cursor' \in Nat \cup {NoCursor} /\ cursor' <= EffMax'
  BY <1>2, <1>3, <1>4
<1>11. NothingBeforeCursor'
  BY <1>2, <1>4 DEF NothingBeforeCursor, NoCursor
<1>12. ASSUME NEW i \in Id \ stale'
       PROVE  Agrees(i)'
  <2> SUFFICES ASSUME srv[i].rev <= pulled[t], ~IsDirty(rows'[i])
               PROVE  rows'[i].data = srv[i].body
    BY <1>2, <1>3 DEF Agrees
  <2>1. IF delta[t][i] = Omitted THEN srv[i].rev = 0 \/ srv[i].rev <= from[t]
                                 ELSE delta[t][i] = srv[i].body
    BY <1>2 DEF Inv, RunFits, PullDelivers
  <2>2. CASE delta[t][i] # Omitted
    BY <1>6, <2>1, <2>2
  <2>3. CASE delta[t][i] = Omitted /\ srv[i].rev <= from[t]
    <3>1. rows'[i] = rows[i] /\ ~IsDirty(rows[i])
      BY <1>6, <2>3
    <3>2. Agrees(i)
      BY <1>2 DEF Inv, CleanRowsAgree
    <3> QED
      BY <1>2, <2>3, <3>1, <3>2 DEF Agrees
  <2>4. CASE delta[t][i] = Omitted /\ srv[i].rev = 0 /\ ~(srv[i].rev <= from[t])
    <3>1. from[t] = NoCursor
      BY <1>4, <2>4
    <3>2. srv[i].body = Gone
      BY <1>1, <2>4 DEF ServerStands, UnstoredIsGone
    <3>3. rows'[i] = rows[i] /\ ~IsDirty(rows[i])
      BY <1>6, <2>4
    <3>4. rows[i].data = Gone
      BY <1>2, <3>1, <3>3 DEF Inv, NothingBeforeCursor
    <3> QED
      BY <3>2, <3>3, <3>4
  <2> QED
    BY <2>1, <2>2, <2>3, <2>4
<1>13. \A u \in Tabs \ {t} : RunKept(u) /\ (u \in taken => u \in taken')
  BY <1>1, <1>2 DEF TypeOK, RunsTyped, RunKept
<1>14. \A u \in Tabs \ {t} : RunFits(u)'
  BY <1>3, <1>10, <1>13, KeptRunFits
<1>15. RunFits(t)' /\ PushedStaysDirty(t)'
  BY <1>2, <1>4, <1>7
     DEF RunFits, CursorFits, PullDelivers, PushDelivers, PushAcked, PushedStaysDirty,
         Applied, Answered
<1>16. ASSUME NEW u \in Tabs \ {t}
       PROVE  PushedStaysDirty(u)'
  <2>1. ASSUME pc[u] \in {"pushing"} \cup Answered, cursor' = pulled[u]
        PROVE  /\ cursor' = cursor
               /\ \A i \in Named(snap[u]) \ stale' : IsDirty(rows[i]) => IsDirty(rows'[i])
    <3>1. pulled[u] <= cursor
      BY <2>1 DEF Inv, RunFits, CursorFits, Applied, Answered
    <3>2. pulled[u] \in Nat \cup {NoCursor}
      BY <1>1, RunCursors
    <3>3. cursor' = cursor /\ ~(from[t] < pulled[t])
      BY <1>2, <1>4, <2>1, <3>1, <3>2 DEF NoCursor
    <3>4. \A i \in Id : delta[t][i] = Omitted
      BY <1>2, <3>3 DEF Inv, RunFits, PullDelivers
    <3> QED
      BY <1>6, <3>3, <3>4 DEF Named
  <2>2. PushedStaysDirty(u) /\ RunKept(u) /\ (u \in taken => u \in taken')
    BY <1>13 DEF Inv
  <2>3. stale \subseteq stale'
    BY <1>2
  <2> QED
    BY <2>1, <2>2, <2>3, KeptStaysDirty
<1>17. RunsOverlap'
  BY <1>2, <1>13, StillOverlap DEF Inv, RunKept
<1> QED
  BY <1>3, <1>8, <1>9, <1>10, <1>11, <1>12, <1>14, <1>15, <1>16, <1>17, InvNext

\* What the mark write does to one record: the gate, then the change behind it
\* if the cursor stood.
LEMMA MarkRow ==
  ASSUME Inv, NEW t \in Tabs, Mark(t), NEW i \in Id
  PROVE  /\ WellFormed(Marked(t)[i])
         /\ \/ Marked(t)[i] = rows[i]
            \/ /\ i \in Named(snap[t]) \ refused[t]
               /\ ~IsDirty(Marked(t)[i]) /\ Marked(t)[i].data = snap[t][i].data
         /\ cursor # pulled[t] => rows'[i] = Marked(t)[i]
         /\ cursor = pulled[t] =>
              /\ delta[t][i] = Omitted => rows'[i] = Marked(t)[i]
              /\ delta[t][i] # Omitted /\ ~IsDirty(rows'[i]) =>
                   rows'[i].data = delta[t][i]
         /\ WellFormed(rows'[i])
<1>1. WellFormed(rows[i]) /\ WellFormed(snap[t][i]) /\ delta[t][i] \in Change
  BY DEF Inv, CleanRowsAgree, TypeOK, RunsTyped
<1>2. PICK no \in BOOLEAN : no = (i \in refused[t])
  <2>1. (i \in refused[t]) \in BOOLEAN
    BY SMT
  <2> QED
    BY <2>1
<1>3. Marked(t)[i] = MarkSynced(rows[i], snap[t][i], i \in refused[t])
  BY DEF Marked
<1>4. LET m == MarkSynced(rows[i], snap[t][i], no)
      IN  /\ WellFormed(m)
          /\ \/ m = rows[i]
             \/ /\ IsDirty(snap[t][i]) /\ ~no /\ rows[i] = snap[t][i]
                /\ ~IsDirty(m) /\ m.data = snap[t][i].data
  BY <1>1, MarkSyncedRow
<1>5. Marked(t)[i] = MarkSynced(rows[i], snap[t][i], no)
  BY <1>2, <1>3
<1>6. /\ WellFormed(Marked(t)[i])
      /\ \/ Marked(t)[i] = rows[i]
         \/ /\ i \in Named(snap[t]) \ refused[t]
            /\ ~IsDirty(Marked(t)[i]) /\ Marked(t)[i].data = snap[t][i].data
  BY <1>2, <1>4, <1>5 DEF Named
<1>7. CASE cursor # pulled[t]
  <2>1. rows'[i] = Marked(t)[i]
    BY <1>7 DEF Mark
  <2> QED
    BY <1>6, <1>7, <2>1
<1>8. CASE cursor = pulled[t]
  <2> DEFINE row    == Marked(t)[i]
             merged == ApplyChange(row, delta[t][i], FALSE)
  <2>1. rows'[i] = merged
    BY <1>8 DEF Mark
  <2>2. WellFormed(row)
    BY <1>6
  <2> HIDE DEF row
  <2>3. /\ WellFormed(merged)
        /\ delta[t][i] # Omitted /\ ~IsDirty(merged) => merged.data = delta[t][i]
        /\ delta[t][i] = Omitted => merged = row
    BY <1>1, <2>2, MergedRow
  <2> HIDE DEF merged
  <2>4. row = Marked(t)[i]
    BY DEF row
  <2> QED
    BY <1>6, <1>8, <2>1, <2>3, <2>4
<1> QED
  BY <1>7, <1>8

\* The mark write.  Where the cursor stood and nobody overtook the run, what it
\* pushed was still dirty, so that what is clean now is what the server
\* stored; otherwise the ids it marks are the stale ones.
LEMMA MarkKeeps ==
  ASSUME Inv, NEW t \in Tabs, Mark(t)
  PROVE  Inv'
<1>1. TypeOK /\ RunsTyped /\ ServerTypeOK /\ ServerStands
  BY DEF Inv, CleanRowsAgree, TypeOK
<1>2. /\ pc[t] = "confirmed" /\ EndsAs(t, "idle")
      /\ cursor' = IF cursor = pulled[t] THEN next[t] ELSE cursor
      /\ stale' = IF t \in taken \/ cursor # pulled[t] THEN stale \cup Named(snap[t])
                                                       ELSE stale
      /\ UNCHANGED <<serverVars, lease>>
  BY DEF Mark, EndRun
<1>3. ServerKeeps /\ EffMax' = EffMax /\ srv' = srv
  BY <1>1, <1>2, ServerStill DEF serverVars
<1>4. /\ cursor \in Nat /\ pulled[t] \in Nat /\ next[t] \in Nat
      /\ pulled[t] <= cursor /\ pulled[t] <= next[t] /\ next[t] <= EffMax
      /\ cursor <= EffMax
  BY <1>1, <1>2, RunCursors DEF Inv, RunFits, CursorFits, Applied, Answered, NoCursor
<1>5. /\ cursor <= cursor' /\ cursor' \in Nat /\ cursor' <= EffMax'
      /\ cursor' = cursor \/ (cursor = pulled[t] /\ cursor' = next[t])
  BY <1>2, <1>3, <1>4
<1>6. /\ pc' \in [Tabs -> Labels] /\ attempt' \in [Tabs -> 0 .. Retries]
      /\ taken' \in SUBSET Tabs /\ RunsOverlap'
      /\ \A u \in Tabs \ {t} : RunKept(u) /\ (u \in taken => u \in taken')
      /\ RunFits(t)' /\ PushedStaysDirty(t)'
  BY <1>2, EndsKeep
<1>7. TypeOK'
  <2>1. \A i \in Id : WellFormed(rows'[i])
    BY MarkRow
  <2>2. stale' \in SUBSET Id
    BY <1>1, <1>2 DEF TypeOK, Named
  <2> QED
    BY <1>1, <1>2, <1>3, <1>5, <1>6, <2>1, <2>2 DEF TypeOK, ServerKeeps
<1>8. RunsTyped'
  <2>1. rows' \in [Id -> LocalRow]
    <3>1. \A i \in Id : rows'[i] \in LocalRow
      BY MarkRow DEF WellFormed
    <3>2. rows' = [i \in Id |-> rows'[i]]
      BY DEF Mark, Marked
    <3> QED
      BY <3>1, <3>2
  <2>2. NoChanges \in [Id -> Change] /\ NoRequest \in [Id -> LocalRow]
        /\ \A i \in Id : NoRequest[i] = Absent /\ WellFormed(Absent)
    BY AbsentWellFormed DEF NoChanges, NoRequest, Change, WellFormed
  <2>3. /\ from' = [from EXCEPT ![t] = NoCursor]
        /\ pulled' = [pulled EXCEPT ![t] = NoCursor]
        /\ delta' = [delta EXCEPT ![t] = NoChanges]
        /\ next' = [next EXCEPT ![t] = NoCursor]
        /\ snap' = [snap EXCEPT ![t] = NoRequest]
        /\ refused' = [refused EXCEPT ![t] = {}]
    BY <1>2 DEF EndsAs
  <2>4. \A u \in Tabs, i \in Id : WellFormed(snap'[u][i])
    BY <1>1, <2>2, <2>3 DEF RunsTyped
  <2> QED
    BY <1>1, <2>1, <2>2, <2>3, <2>4 DEF RunsTyped
<1>9. NothingBeforeCursor'
  BY <1>5 DEF NothingBeforeCursor, NoCursor
<1>10. ASSUME NEW i \in Id \ stale'
       PROVE  Agrees(i)'
  <2> SUFFICES ASSUME srv[i].rev <= cursor', ~IsDirty(rows'[i])
               PROVE  rows'[i].data = srv[i].body
    BY <1>3 DEF Agrees
  <2>1. Agrees(i) /\ i \notin stale
    BY <1>2 DEF Inv, CleanRowsAgree
  <2>2. CASE cursor # pulled[t]
    <3>1. i \notin Named(snap[t])
      BY <1>2, <2>2
    <3>2. rows'[i] = rows[i]
      BY <2>2, <3>1, MarkRow
    <3> QED
      BY <1>2, <2>1, <2>2, <3>2 DEF Agrees
  <2>3. CASE cursor = pulled[t] /\ delta[t][i] # Omitted
    <3>1. rows'[i].data = delta[t][i]
      BY <2>3, MarkRow
    <3>2. delta[t][i] = srv[i].body
      BY <1>2, <2>3 DEF Inv, RunFits, PushDelivers, Answered
    <3> QED
      BY <3>1, <3>2
  <2>4. CASE cursor = pulled[t] /\ delta[t][i] = Omitted
    <3>1. rows'[i] = Marked(t)[i]
      BY <2>4, MarkRow
    <3>2. /\ i \in Named(snap[t]) \/ srv[i].rev <= pulled[t]
          /\ i \in Named(snap[t]) \ refused[t] => srv[i].body = snap[t][i].data
      BY <1>2, <2>4 DEF Inv, RunFits, PushDelivers, Answered
    <3>3. CASE i \in Named(snap[t]) /\ rows'[i] = rows[i]
      <4>1. t \notin taken
        BY <1>2, <3>3
      <4>2. IsDirty(rows[i])
        BY <1>2, <2>1, <2>4, <3>3, <4>1 DEF Inv, PushedStaysDirty, Answered
      <4> QED
        BY <3>3, <4>2
    <3>4. CASE i \notin Named(snap[t]) /\ rows'[i] = rows[i]
      BY <2>1, <2>4, <3>2, <3>4 DEF Agrees
    <3>5. CASE rows'[i] # rows[i]
      <4>1. i \in Named(snap[t]) \ refused[t] /\ rows'[i].data = snap[t][i].data
        BY <3>1, <3>5, MarkRow
      <4> QED
        BY <3>2, <4>1
    <3> QED
      BY <3>3, <3>4, <3>5
  <2> QED
    BY <2>2, <2>3, <2>4
<1>11. \A u \in Tabs \ {t} : RunFits(u)'
  BY <1>3, <1>5, <1>6, KeptRunFits
<1>12. ASSUME NEW u \in Tabs \ {t}
       PROVE  PushedStaysDirty(u)'
  <2>1. ASSUME pc[u] \in {"pushing"} \cup Answered, cursor' = pulled[u], u \notin taken'
        PROVE  /\ cursor' = cursor
               /\ \A i \in Named(snap[u]) \ stale' : IsDirty(rows[i]) => IsDirty(rows'[i])
    <3>1. pulled[u] <= cursor /\ pulled[u] \in Nat \cup {NoCursor}
      BY <1>1, <2>1, RunCursors DEF Inv, RunFits, CursorFits, Applied, Answered
    <3>2. cursor' = cursor
      BY <1>4, <1>5, <2>1, <3>1 DEF NoCursor
    <3>3. t \in taken
      <4>1. pc[u] \notin {"idle", "gone"} /\ pc[t] \notin {"idle", "gone"}
        BY <1>2, <2>1 DEF Answered
      <4>2. u \notin taken
        BY <1>6, <2>1
      <4> QED
        BY <4>1, <4>2 DEF Inv, RunsOverlap, Active
    <3>4. ASSUME NEW i \in Id \ stale'
          PROVE  rows'[i] = rows[i]
      <4>1. i \notin Named(snap[t])
        BY <1>2, <3>3, <3>4
      <4>2. Marked(t)[i] = rows[i]
        BY <4>1, MarkRow
      <4>3. CASE cursor # pulled[t]
        BY <4>2, <4>3, MarkRow
      <4>4. CASE cursor = pulled[t]
        <5>1. ~(pulled[t] < next[t])
          BY <1>2, <1>4, <3>2, <4>4
        <5>2. delta[t][i] = Omitted
          BY <1>2, <5>1 DEF Inv, RunFits, PushDelivers, Answered
        <5> QED
          BY <4>2, <4>4, <5>2, MarkRow
      <4> QED
        BY <4>3, <4>4
    <3> QED
      BY <3>2, <3>4 DEF Named
  <2>2. PushedStaysDirty(u) /\ RunKept(u) /\ (u \in taken => u \in taken')
    BY <1>6 DEF Inv
  <2>3. stale \subseteq stale'
    BY <1>2
  <2> QED
    BY <2>1, <2>2, <2>3, KeptStaysDirty
<1> QED
  BY <1>3, <1>5, <1>6, <1>7, <1>8, <1>9, <1>10, <1>11, <1>12, InvNext

(***************************************************************************)
(* The theorem.                                                            *)
(***************************************************************************)
\* Inv holds initially.
LEMMA InitInv == Init => Inv
<1> SUFFICES ASSUME Init PROVE Inv
  OBVIOUS
<1>1. /\ srv = [i \in Id |-> Unstored] /\ rev = 0 /\ floor = 0
      /\ acked = [i \in Id |-> {}]
      /\ rows = [i \in Id |-> Absent] /\ cursor = NoCursor
      /\ lease = [holder |-> NoTab, expired |-> TRUE]
      /\ pc = [t \in Tabs |-> "idle"] /\ attempt = [t \in Tabs |-> 0]
      /\ from = [t \in Tabs |-> NoCursor] /\ pulled = [t \in Tabs |-> NoCursor]
      /\ delta = [t \in Tabs |-> NoChanges] /\ next = [t \in Tabs |-> NoCursor]
      /\ snap = [t \in Tabs |-> NoRequest] /\ refused = [t \in Tabs |-> {}]
      /\ taken = {} /\ stale = {}
  BY DEF Init, ServerInit
<1>2. ServerTypeOK /\ \A i \in Id : srv[i] = Unstored
  BY <1>1 DEF ServerTypeOK, StoredRow, Unstored, Body
<1>3. ServerStands
  <2>1. Topped(srv, floor)
    BY <1>1, <1>2, ToppedByFloor DEF Unstored
  <2> QED
    BY <1>1, <1>2, <2>1 DEF ServerStands, HistoryBounded, UnstoredIsGone, Unstored
<1>4. \A i \in Id : WellFormed(rows[i]) /\ rows[i] = Absent /\ Absent \in LocalRow
  BY <1>1, AbsentWellFormed DEF WellFormed
<1>5. TypeOK
  BY <1>1, <1>2, <1>4, TabConstants DEF TypeOK, Labels
<1>6. RunsTyped
  <2>1. NoChanges \in [Id -> Change] /\ NoRequest \in [Id -> LocalRow]
        /\ \A i \in Id : NoRequest[i] = Absent /\ WellFormed(Absent)
    BY AbsentWellFormed DEF NoChanges, NoRequest, Change, WellFormed
  <2> QED
    BY <1>1, <1>4, <2>1 DEF RunsTyped
<1>7. cursor <= EffMax
  BY <1>1, <1>2, <1>3, ServedBounds DEF NoCursor
<1>8. NothingBeforeCursor
  BY <1>4 DEF NothingBeforeCursor, Absent
<1>9. \A i \in Id \ stale : Agrees(i)
  BY <1>1, <1>2 DEF Agrees, NoCursor, Unstored
<1>10. \A t \in Tabs : RunFits(t) /\ PushedStaysDirty(t)
  BY <1>1 DEF RunFits, CursorFits, PullDelivers, PushDelivers, PushAcked,
              PushedStaysDirty, Applied, Answered
<1>11. RunsOverlap
  BY <1>1 DEF RunsOverlap, Active
<1> QED
  BY <1>3, <1>5, <1>6, <1>7, <1>8, <1>9, <1>10, <1>11 DEF Inv, CleanRowsAgree

\* Every step keeps Inv.
LEMMA NextInv == Inv /\ [Next]_vars => Inv'
<1> SUFFICES ASSUME Inv, [Next]_vars PROVE Inv'
  OBVIOUS
<1>1. ASSUME NEW i \in Id, NEW new \in Content,
             MarkAsDeleted(i) \/ Create(i, new) \/ Update(i, new)
      PROVE  Inv'
  BY <1>1, WritesKeep
<1>2. ASSUME NEW i \in Id, MarkAsDeleted(i) PROVE Inv'
  <2>1. rows[i].data \in Content
    BY <1>2 DEF MarkAsDeleted, Inv, CleanRowsAgree, TypeOK, WellFormed
  <2> QED
    BY <1>1, <1>2, <2>1
<1>3. ASSUME NEW i \in Id, NEW new \in Body, RemoteWrite(i, new) PROVE Inv'
  BY <1>3, RemoteKeeps
<1>4. ASSUME NEW t \in Tabs, RunStep(t) \/ Fail(t) PROVE Inv'
  <2>1. CASE AskTurn(t)
    BY <2>1, AskTurnKeeps
  <2>2. CASE ReadCursor(t)
    BY <2>2, ReadCursorKeeps
  <2>3. CASE ServePull(t)
    BY <2>3, ServePullKeeps
  <2>4. CASE Apply(t)
    BY <2>4, ApplyKeeps
  <2>5. CASE AbortApply(t) \/ FetchNothing(t) \/ LoseTurn(t) \/ Fail(t)
    BY <2>5, EndingsKeep
  <2>6. CASE FetchLocal(t)
    BY <2>6, FetchLocalKeeps
  <2>7. CASE AcceptPush(t)
    BY <2>7, AcceptPushKeeps
  <2>8. CASE PushConflict(t)
    BY <2>8, RetryKeeps, EndingsKeep
  <2>9. CASE Confirm(t)
    BY <2>9, ConfirmKeeps
  <2>10. CASE Mark(t)
    BY <2>10, MarkKeeps
  <2> QED
    BY <1>4, <2>1, <2>2, <2>3, <2>4, <2>5, <2>6, <2>7, <2>8, <2>9, <2>10 DEF RunStep
<1>5. CASE Expire
  BY <1>5, ExpireKeeps
<1>6. CASE UNCHANGED vars
  <2>1. UNCHANGED <<rows, cursor, runVars, taken, stale, lease, serverVars>>
    BY <1>6 DEF vars
  <2>2. ServerKeeps
    BY <2>1, ServerStill DEF Inv, CleanRowsAgree, TypeOK
  <2>3. lease' \in [holder : Tabs \cup {NoTab}, expired : BOOLEAN]
    BY <2>1 DEF Inv, CleanRowsAgree, TypeOK
  <2> QED
    BY <2>1, <2>2, <2>3, NoRunStep
<1> QED
  BY <1>1, <1>2, <1>3, <1>4, <1>5, <1>6 DEF Next

\* Whatever runs overlap, expire, fail or die, a clean record the shared cursor
\* has reached equals the server's row, but for the ids that a run marked after
\* it was overtaken or behind a cursor that moved.
THEOREM TabsAgree == Spec => []CleanRowsAgree
<1>1. Inv => CleanRowsAgree
  BY DEF Inv
<1> QED
  BY <1>1, InitInv, NextInv, PTL DEF Spec

\* A row's one way out of the dirty set is the mark or a deletion.
LEMMA RowsLeaveDirty ==
  ASSUME Inv, [Next]_vars, NEW i \in Id, IsDirty(rows[i]), ~IsDirty(rows'[i])
  PROVE  \/ rows[i].data \in acked[i]
         \/ \E t \in Tabs : pc'[t] # pc[t] /\ delta[t][i] = Gone
<1>1. TypeOK /\ RunsTyped
  BY DEF Inv, CleanRowsAgree
<1>2. rows'[i] # rows[i]
  OBVIOUS
<1>3. ASSUME NEW k \in Id, NEW new, WellFormed(new), IsDirty(new), LocalWrite(k, new)
      PROVE  FALSE
  <2>1. rows' = [rows EXCEPT ![k] = new]
    BY <1>3 DEF LocalWrite
  <2> QED
    BY <1>1, <1>3, <2>1 DEF RunsTyped
<1>4. ASSUME NEW k \in Id, NEW new \in Content,
             MarkAsDeleted(k) \/ Create(k, new) \/ Update(k, new)
      PROVE  FALSE
  <2>1. WellFormed(rows[k])
    BY <1>1 DEF TypeOK
  <2>2. CASE MarkAsDeleted(k)
    BY <1>3, <2>2, AbsentWellFormed DEF MarkAsDeleted, IsDirty, Tombstone
  <2>3. CASE Create(k, new)
    BY <1>3, <2>3, FreshRowsWellFormed DEF Create, IsDirty, CreatedRow
  <2>4. CASE Update(k, new)
    BY <1>3, <2>1, <2>4, EditRowWellFormed DEF Update
  <2> QED
    BY <1>4, <2>2, <2>3, <2>4
<1>5. ASSUME NEW k \in Id, MarkAsDeleted(k) PROVE FALSE
  BY <1>3, <1>5, AbsentWellFormed DEF MarkAsDeleted, IsDirty, Tombstone
<1>6. ASSUME NEW t \in Tabs, Apply(t)
      PROVE  pc'[t] # pc[t] /\ delta[t][i] = Gone
  <2>1. /\ pc[t] = "pulled" /\ pc' = [pc EXCEPT ![t] = "ready"]
        /\ rows'[i] = ApplyChange(rows[i], delta[t][i], FALSE)
    BY <1>6 DEF Apply, Merge, Goto
  <2>2. WellFormed(rows[i]) /\ delta[t][i] \in Change
    BY <1>1 DEF TypeOK, RunsTyped
  <2>3. delta[t][i] # Gone =>
          (IsDirty(ApplyChange(rows[i], delta[t][i], FALSE)) <=> IsDirty(rows[i]))
    BY <2>2, MergedRow
  <2> QED
    BY <1>1, <2>1, <2>3 DEF TypeOK
<1>7. ASSUME NEW t \in Tabs, Mark(t)
      PROVE  \/ rows[i].data \in acked[i]
             \/ pc'[t] # pc[t] /\ delta[t][i] = Gone
  <2>1. pc[t] = "confirmed" /\ pc'[t] = "idle"
    BY <1>1, <1>7 DEF Mark, EndRun, EndsAs, Goto, TypeOK
  <2>2. CASE Marked(t)[i] # rows[i]
    <3>1. /\ i \in Named(snap[t]) \ refused[t] /\ rows[i] = snap[t][i]
      BY <2>2 DEF Marked, MarkSynced, Named
    <3> QED
      BY <2>1, <3>1 DEF Inv, RunFits, PushAcked, Answered
  <2>3. CASE Marked(t)[i] = rows[i]
    <3>1. cursor = pulled[t] /\ rows'[i] = ApplyChange(Marked(t)[i], delta[t][i], FALSE)
      BY <1>2, <1>7, <2>3 DEF Mark
    <3>2. rows'[i] = ApplyChange(rows[i], delta[t][i], FALSE)
      BY <2>3, <3>1
    <3>3. WellFormed(rows[i]) /\ delta[t][i] \in Change
      BY <1>1 DEF TypeOK, RunsTyped
    <3>4. delta[t][i] # Gone =>
            (IsDirty(ApplyChange(rows[i], delta[t][i], FALSE)) <=> IsDirty(rows[i]))
      BY <3>3, MergedRow
    <3> QED
      BY <2>1, <3>2, <3>4
  <2> QED
    BY <2>2, <2>3
<1>8. ASSUME NEW t \in Tabs, RunStep(t) \/ Fail(t), ~Apply(t), ~Mark(t) PROVE FALSE
  <2>1. rows' = rows
    BY <1>8 DEF RunStep, AskTurn, ReadCursor, ServePull, AbortApply, FetchNothing,
                FetchLocal, AcceptPush, PushConflict, Confirm, LoseTurn, Fail
  <2> QED
    BY <1>2, <2>1
<1>9. ASSUME NEW k \in Id, NEW new \in Body, RemoteWrite(k, new) PROVE FALSE
  BY <1>2, <1>9 DEF RemoteWrite
<1>10. ASSUME Expire \/ UNCHANGED vars PROVE FALSE
  BY <1>2, <1>10 DEF Expire, vars
<1> QED
  BY <1>4, <1>5, <1>6, <1>7, <1>8, <1>9, <1>10 DEF Next

\* No local write is lost between tabs: a record leaves the dirty set only with
\* the server's acceptance of exactly its content, or because a deletion of it
\* came back, whichever tab's run does it and however runs overlap.
THEOREM TabsDropNoWrite == Spec => NoWriteDropped
<1>1. Inv /\ [Next]_vars => WritesKept
  BY RowsLeaveDirty DEF WritesKept
<1> QED
  BY <1>1, InitInv, NextInv, PTL DEF Spec, NoWriteDropped
=============================================================================
