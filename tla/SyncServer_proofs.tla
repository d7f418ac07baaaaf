-------------------------- MODULE SyncServer_proofs ---------------------------
(***************************************************************************)
(* What the record rules do to the shape and the content of a row, for any *)
(* columns and values; and what the server's handlers guarantee to         *)
(* cursors, for any scope, any request and any retention: history only     *)
(* moves up, and a row a cursor has reached does not change under it.      *)
(***************************************************************************)
EXTENDS SyncServer, TLAPS

(***************************************************************************)
(* The record rules.                                                       *)
(***************************************************************************)
\* The rows of an id without a record, and of a pending deletion.
LEMMA AbsentWellFormed == WellFormed(Absent) /\ WellFormed(Tombstone)
BY MarkersAreNoContent
   DEF WellFormed, Absent, Tombstone, LocalRow, Status, Body, IsLive

\* The rows create() and a first pull store.
LEMMA FreshRowsWellFormed ==
  ASSUME NEW new \in Content
  PROVE  WellFormed(CreatedRow(new)) /\ WellFormed(SyncedRow(new))
BY DEF WellFormed, CreatedRow, SyncedRow, LocalRow, Status, Body, IsLive

\* A well formed row has one of three shapes.
LEMMA RowShapes ==
  ASSUME NEW r, WellFormed(r)
  PROVE  /\ r.status \in Status
         /\ r.changed \in SUBSET Column
         /\ r.data \in Body
         /\ r = [status |-> r.status, changed |-> r.changed, data |-> r.data]
         /\ IsLive(r) => r.data \in Content
         /\ ~IsLive(r) => r.data = Gone /\ r.changed = {}
         /\ ~IsDirty(r) => IF r.status = "none" THEN r = Absent
                                               ELSE r = SyncedRow(r.data)
         /\ r.status = "deleted" => r = Tombstone
BY MarkersAreNoContent
   DEF WellFormed, LocalRow, Status, Body, IsLive, IsDirty, Absent, Tombstone,
       SyncedRow

\* An update that changes a value leaves a dirty row of a stored shape.
LEMMA EditRowWellFormed ==
  ASSUME NEW r, WellFormed(r), IsLive(r), NEW new \in Content, new # r.data
  PROVE  WellFormed(EditRow(r, new)) /\ IsDirty(EditRow(r, new))
<1>1. r.data \in Content
  BY DEF WellFormed
<1>2. PICK cols : cols = {c \in Column : new[c] # r.data[c]}
  OBVIOUS
<1>3. cols # {} /\ cols \subseteq Column
  BY <1>1, <1>2 DEF Content
<1>4. EditRow(r, new) =
        [status  |-> IF r.status = "created" THEN "created" ELSE "updated",
         changed |-> r.changed \cup cols,
         data    |-> new]
  BY <1>2 DEF EditRow, MarkAsChanged
<1>5. r.changed \subseteq Column
  BY RowShapes
<1> QED
  BY <1>3, <1>4, <1>5 DEF WellFormed, LocalRow, Status, Body, IsLive, IsDirty

\* A merge keeps shape and status, and a synced row takes the remote one.
LEMMA ResolveConflictRow ==
  ASSUME NEW r, WellFormed(r), IsLive(r), NEW remote \in Content
  PROVE  /\ WellFormed(ResolveConflict(r, remote))
         /\ ResolveConflict(r, remote).status = r.status
         /\ r.status = "synced" => ResolveConflict(r, remote) = SyncedRow(remote)
<1> DEFINE merged == [c \in Column |-> IF c \in r.changed THEN r.data[c]
                                                          ELSE remote[c]]
<1>1. r.data \in Content
  BY DEF WellFormed
<1>2. merged \in Content
  BY <1>1 DEF Content
<1>3. ResolveConflict(r, remote) =
        [status |-> r.status, changed |-> r.changed, data |-> merged]
  BY RowShapes DEF ResolveConflict
<1>4. ASSUME r.status = "synced" PROVE merged = remote
  <2>1. r.changed = {}
    BY <1>4 DEF WellFormed
  <2> QED
    BY <2>1 DEF Content
<1>5. WellFormed(ResolveConflict(r, remote))
  BY <1>2, <1>3, RowShapes DEF WellFormed, LocalRow, Body, IsLive
<1>6. ASSUME r.status = "synced"
      PROVE  ResolveConflict(r, remote) = SyncedRow(remote)
  BY <1>3, <1>4, <1>6 DEF WellFormed, SyncedRow
<1> QED
  BY <1>3, <1>5, <1>6

\* What one changeset entry does to a row: the shape is kept, a dirty row
\* stays dirty unless the entry is a deletion, and a clean row takes the
\* body the entry carries.
LEMMA ApplyChangeRow ==
  ASSUME NEW r, WellFormed(r), NEW change \in Change, NEW replacement \in BOOLEAN
  PROVE  LET a == ApplyChange(r, change, replacement)
         IN  /\ WellFormed(a)
             /\ change # Gone => (IsDirty(a) <=> IsDirty(r))
             /\ change # Omitted /\ ~IsDirty(a) => a.data = change
             /\ change = Omitted /\ ~replacement => a = r
             /\ change = Omitted /\ replacement /\ ~IsDirty(a) => a.data = Gone
<1> DEFINE a == ApplyChange(r, change, replacement)
<1> USE MarkersAreNoContent
<1>1. CASE change = Gone
  <2>1. a = Absent
    BY <1>1 DEF ApplyChange
  <2> QED
    BY <1>1, <2>1, AbsentWellFormed DEF IsDirty, Absent
<1>2. CASE change = Omitted
  <2>1. a = IF replacement /\ r.status = "synced" THEN Absent ELSE r
    BY <1>2 DEF ApplyChange
  <2>2. CASE replacement /\ r.status = "synced"
    BY <1>2, <2>1, <2>2, AbsentWellFormed DEF IsDirty, Absent
  <2>3. CASE ~(replacement /\ r.status = "synced")
    <3>1. a = r
      BY <2>1, <2>3
    <3>2. replacement /\ ~IsDirty(r) => r.data = Gone
      BY <2>3, RowShapes DEF Status, IsDirty, IsLive
    <3> QED
      BY <1>2, <3>1, <3>2
  <2> QED
    BY <2>2, <2>3
<1>3. CASE change \in Content
  <2>1. a = ApplyRow(r, change)
    BY <1>3 DEF ApplyChange
  <2>2. CASE IsLive(r)
    <3>1. a = ResolveConflict(r, change)
      BY <2>1, <2>2 DEF ApplyRow, IsLive
    <3>2. ~IsDirty(r) => r.status = "synced"
      BY <2>2 DEF IsDirty, IsLive
    <3> QED
      BY <1>3, <2>2, <3>1, <3>2, ResolveConflictRow DEF IsDirty, SyncedRow
  <2>3. CASE r.status = "deleted"
    <3>1. a = r
      BY <2>1, <2>3 DEF ApplyRow, IsLive
    <3> QED
      BY <1>3, <2>3, <3>1 DEF IsDirty
  <2>4. CASE r.status = "none"
    <3>1. a = SyncedRow(change)
      BY <2>1, <2>4 DEF ApplyRow, IsLive
    <3> QED
      BY <1>3, <2>4, <3>1, FreshRowsWellFormed DEF IsDirty, SyncedRow
  <2> QED
    BY <2>2, <2>3, <2>4, RowShapes DEF Status, IsLive
<1> QED
  BY <1>1, <1>2, <1>3 DEF Change, Body

\* The push snapshot freezes a dirty row as it is and nothing else.
LEMMA FrozenRow ==
  ASSUME NEW r, WellFormed(r)
  PROVE  /\ WellFormed(Frozen(r))
         /\ IsDirty(Frozen(r)) <=> IsDirty(r)
         /\ IsDirty(r) => Frozen(r) = r
BY AbsentWellFormed DEF Frozen, IsDirty, Absent

\* The gate: a row is either left alone, or it still equals its frozen copy
\* and takes the clean row of the same content.
LEMMA MarkSyncedRow ==
  ASSUME NEW r, WellFormed(r), NEW frozen, WellFormed(frozen),
         NEW no \in BOOLEAN
  PROVE  LET m == MarkSynced(r, frozen, no)
         IN  /\ WellFormed(m)
             /\ \/ m = r
                \/ /\ IsDirty(frozen) /\ ~no /\ r = frozen
                   /\ ~IsDirty(m) /\ m.data = frozen.data
<1> DEFINE m == MarkSynced(r, frozen, no)
<1>1. CASE ~IsDirty(frozen) \/ no \/ r # frozen
  <2>1. m = r
    BY <1>1 DEF MarkSynced
  <2> QED
    BY <2>1
<1>2. CASE IsDirty(frozen) /\ ~no /\ r = frozen
  <2>1. CASE frozen.status = "deleted"
    <3>1. m = Absent
      BY <1>2, <2>1 DEF MarkSynced
    <3> QED
      BY <1>2, <2>1, <3>1, AbsentWellFormed, RowShapes
         DEF IsDirty, IsLive, Absent
  <2>2. CASE frozen.status # "deleted"
    <3>1. m = SyncedRow(r.data)
      BY <1>2, <2>2 DEF MarkSynced
    <3>2. r.data \in Content
      BY <1>2, <2>2 DEF WellFormed, IsDirty, IsLive
    <3> QED
      BY <1>2, <3>1, <3>2, FreshRowsWellFormed DEF IsDirty, SyncedRow
  <2> QED
    BY <2>1, <2>2
<1> QED
  BY <1>1, <1>2

\* What a change entry may do to a record the user edited: its changed
\* columns keep their values, and a pending delete never comes back to life.
LEMMA ApplyChangeKeepsEdits ==
  ASSUME NEW r, WellFormed(r), NEW change \in Change, NEW replacement \in BOOLEAN
  PROVE  LET a == ApplyChange(r, change, replacement)
         IN  /\ IsLive(r) /\ IsLive(a) =>
                  \A c \in r.changed : a.data[c] = r.data[c]
             /\ r.status = "deleted" => ~IsLive(a)
<1> DEFINE a == ApplyChange(r, change, replacement)
<1>1. r.changed \subseteq Column
  BY RowShapes
<1>2. a \in {Absent, r} \/ (change \in Content /\ a = ApplyRow(r, change))
  BY DEF ApplyChange, Change, Body
<1>3. CASE a = Absent
  BY <1>3 DEF Absent, IsLive
<1>4. CASE a = r
  BY <1>4 DEF IsLive
<1>5. CASE change \in Content /\ a = ApplyRow(r, change)
  <2>1. CASE IsLive(r)
    <3>1. a = ResolveConflict(r, change)
      BY <1>5, <2>1 DEF ApplyRow, IsLive
    <3>2. a.data = [c \in Column |-> IF c \in r.changed THEN r.data[c]
                                                         ELSE change[c]]
      <4>1. r = [status |-> r.status, changed |-> r.changed, data |-> r.data]
        BY RowShapes
      <4> QED
        BY <3>1, <4>1 DEF ResolveConflict
    <3>3. \A c \in r.changed : a.data[c] = r.data[c]
      BY <1>1, <3>2
    <3> QED
      BY <2>1, <3>3 DEF IsLive
  <2>2. CASE r.status = "deleted"
    <3>1. a = r
      BY <1>5, <2>2 DEF ApplyRow, IsLive
    <3> QED
      BY <2>2, <3>1 DEF IsLive
  <2>3. CASE r.status = "none"
    BY <2>3 DEF IsLive
  <2> QED
    BY <2>1, <2>2, <2>3, RowShapes DEF Status, IsLive
<1> QED
  BY <1>2, <1>3, <1>4, <1>5

\* And what the gate may: it never changes the content of a live record.
LEMMA MarkSyncedKeepsEdits ==
  ASSUME NEW r, WellFormed(r), NEW frozen, NEW no \in BOOLEAN
  PROVE  LET m == MarkSynced(r, frozen, no)
         IN  /\ IsLive(r) /\ IsLive(m) => m.data = r.data
             /\ r.status = "deleted" => ~IsLive(m)
BY DEF MarkSynced, IsLive, IsDirty, Absent, SyncedRow

(***************************************************************************)
(* The server.                                                             *)
(***************************************************************************)
\* The floor is the highest revision when every row is at or below it.
LEMMA ToppedByFloor ==
  ASSUME NEW r, NEW low \in Nat, \A i \in Id : r[i].rev <= low
  PROVE  Topped(r, low)
<1>1. low \in {low} \cup {r[i].rev : i \in Id} /\ low <= low
  OBVIOUS
<1> QED
  BY <1>1 DEF Topped

\* Otherwise some row is.
LEMMA ToppedByRow ==
  ASSUME NEW r, NEW low, NEW k \in Id,
         low <= r[k].rev, \A i \in Id : r[i].rev <= r[k].rev
  PROVE  Topped(r, low)
<1>1. r[k].rev \in {low} \cup {r[i].rev : i \in Id}
  OBVIOUS
<1> QED
  BY <1>1 DEF Topped

\* The choice in TopOf is a maximum whenever there is one.
LEMMA TopOfIsTop ==
  ASSUME NEW r \in [Id -> StoredRow], NEW low \in Nat, Topped(r, low)
  PROVE  /\ TopOf(r, low) \in Nat
         /\ low <= TopOf(r, low)
         /\ \A i \in Id : r[i].rev <= TopOf(r, low)
         /\ TopOf(r, low) \in {low} \cup {r[i].rev : i \in Id}
<1> DEFINE revs == {low} \cup {r[i].rev : i \in Id}
<1>1. revs \subseteq Nat
  BY DEF StoredRow
<1>2. \E m \in revs : \A n \in revs : n <= m
  BY DEF Topped
<1>3. /\ TopOf(r, low) \in revs
      /\ \A n \in revs : n <= TopOf(r, low)
  BY <1>2 DEF TopOf
<1> QED
  BY <1>1, <1>3

\* The highest revision served is a bound of the stored rows and the floor.
LEMMA EffMaxIsTop ==
  ASSUME ServerTypeOK, HistoryBounded
  PROVE  /\ EffMax \in Nat
         /\ floor <= EffMax
         /\ \A i \in Id : srv[i].rev <= EffMax
         /\ EffMax \in {floor} \cup {srv[i].rev : i \in Id}
BY TopOfIsTop DEF ServerTypeOK, HistoryBounded, EffMax

\* The same bound after a step.
LEMMA NextEffMaxIsTop ==
  ASSUME ServerTypeOK', HistoryBounded'
  PROVE  EffMax' \in Nat /\ floor' <= EffMax' /\ \A i \in Id : srv'[i].rev <= EffMax'
<1>1. EffMax' = TopOf(srv', floor')
  BY DEF EffMax, TopOf
<1>2. srv' \in [Id -> StoredRow] /\ floor' \in Nat /\ Topped(srv', floor')
  BY DEF ServerTypeOK, HistoryBounded, Topped
<1> QED
  BY <1>1, <1>2, TopOfIsTop

\* A step of the server as its clients see it: revisions, floor and served
\* history never go down, and a row within a cursor's reach after the step
\* was within its reach, with the same body, before it.
ServerMoves ==
  /\ rev <= rev'
  /\ floor <= floor'
  /\ EffMax <= EffMax'
  /\ \A i \in Id, c \in Nat :
       c <= rev /\ floor' <= c /\ srv'[i].rev <= c =>
         floor <= c /\ srv[i].rev <= c /\ srv'[i].body = srv[i].body

\* Two revisions at most are handed out, all above what was there.
LEMMA PushRevisions ==
  ASSUME rev \in Nat, NEW upserts, NEW deletes
  PROVE  /\ UpsertRev(upserts) \in Nat /\ TombstoneRev(upserts, deletes) \in Nat
         /\ rev <= UpsertRev(upserts)
         /\ UpsertRev(upserts) <= TombstoneRev(upserts, deletes)
         /\ upserts # {} => rev < UpsertRev(upserts)
         /\ deletes # {} => UpsertRev(upserts) < TombstoneRev(upserts, deletes)
BY DEF UpsertRev, TombstoneRev

\* A pushed row is stored under a new revision, or the row is untouched.
LEMMA StoreAfterRows ==
  ASSUME ServerTypeOK, NEW request \in [Id -> LocalRow], NEW rejected,
         \A i \in Id : WellFormed(request[i])
  PROVE  /\ StoreAfter(request, rejected) \in [Id -> StoredRow]
         /\ RevAfter(request, rejected) \in Nat
         /\ rev <= RevAfter(request, rejected)
         /\ \A i \in Id :
              \/ StoreAfter(request, rejected)[i] = srv[i]
              \/ /\ rev < StoreAfter(request, rejected)[i].rev
                 /\ StoreAfter(request, rejected)[i].rev <= RevAfter(request, rejected)
                 /\ StoreAfter(request, rejected)[i].rev \in
                      {UpsertRev(Upserts(request) \ rejected),
                       RevAfter(request, rejected)}
<1> DEFINE ups   == Upserts(request) \ rejected
           dels  == Deletes(request) \ rejected
           store == StoreAfter(request, rejected)
           new(i) == IF i \in ups /\ ~IsTombstone(srv[i])
                       THEN [rev |-> UpsertRev(ups), body |-> request[i].data]
                     ELSE IF i \in dels /\ srv[i].body # Gone
                       THEN [rev |-> TombstoneRev(ups, dels), body |-> Gone]
                     ELSE srv[i]
<1>1. store = [i \in Id |-> new(i)]
  BY DEF StoreAfter
<1>2. RevAfter(request, rejected) = TombstoneRev(ups, dels)
  BY DEF RevAfter
<1> HIDE DEF store, ups, dels
<1>3. /\ UpsertRev(ups) \in Nat /\ TombstoneRev(ups, dels) \in Nat
      /\ rev <= UpsertRev(ups)
      /\ UpsertRev(ups) <= TombstoneRev(ups, dels)
      /\ ups # {} => rev < UpsertRev(ups)
      /\ dels # {} => UpsertRev(ups) < TombstoneRev(ups, dels)
  BY PushRevisions DEF ServerTypeOK
<1>4. rev \in Nat /\ srv \in [Id -> StoredRow]
  BY DEF ServerTypeOK
<1>5. ASSUME NEW i \in Id
      PROVE  /\ new(i) \in StoredRow
             /\ \/ new(i) = srv[i]
                \/ /\ rev < new(i).rev /\ new(i).rev <= TombstoneRev(ups, dels)
                   /\ new(i).rev \in {UpsertRev(ups), TombstoneRev(ups, dels)}
  <2>1. CASE i \in ups /\ ~IsTombstone(srv[i])
    <3>1. new(i) = [rev |-> UpsertRev(ups), body |-> request[i].data]
      BY <2>1
    <3>2. request[i].data \in Body
      BY DEF LocalRow
    <3> QED
      BY <1>3, <1>4, <2>1, <3>1, <3>2 DEF StoredRow
  <2>2. CASE ~(i \in ups /\ ~IsTombstone(srv[i])) /\ i \in dels /\ srv[i].body # Gone
    <3>1. new(i) = [rev |-> TombstoneRev(ups, dels), body |-> Gone]
      BY <2>2
    <3> QED
      BY <1>3, <1>4, <2>2, <3>1 DEF StoredRow, Body
  <2>3. CASE ~(i \in ups /\ ~IsTombstone(srv[i])) /\ ~(i \in dels /\ srv[i].body # Gone)
    BY <1>4, <2>3
  <2> QED
    BY <2>1, <2>2, <2>3
<1> HIDE DEF new
<1>6. store \in [Id -> StoredRow]
  BY <1>1, <1>5
<1>7. rev <= TombstoneRev(ups, dels)
  BY <1>3, <1>4
<1> QED
  BY <1>1, <1>2, <1>3, <1>5, <1>6, <1>7 DEF store, ups

\* Some row or the floor is still the highest after a push.
LEMMA StoreAfterTopped ==
  ASSUME ServerTypeOK, HistoryBounded, NEW request \in [Id -> LocalRow],
         NEW rejected, \A i \in Id : WellFormed(request[i])
  PROVE  Topped(StoreAfter(request, rejected), floor)
<1> DEFINE ups   == Upserts(request) \ rejected
           dels  == Deletes(request) \ rejected
           store == StoreAfter(request, rejected)
           low   == UpsertRev(ups)
           high  == TombstoneRev(ups, dels)
<1>1. /\ store \in [Id -> StoredRow]
      /\ low \in Nat /\ high \in Nat /\ low <= high /\ rev <= low
      /\ rev \in Nat /\ floor \in Nat /\ srv \in [Id -> StoredRow]
  BY StoreAfterRows, PushRevisions DEF ServerTypeOK
<1>2. \A i \in Id : store[i] = srv[i] \/ store[i].rev = low \/ store[i].rev = high
  BY StoreAfterRows DEF RevAfter
<1>3. \A i \in Id : srv[i].rev <= rev /\ srv[i].rev \in Nat
  BY <1>1 DEF HistoryBounded, StoredRow
<1> SUFFICES Topped(store, floor)
  OBVIOUS
<1> HIDE DEF store, low, high
<1>4. ASSUME NEW i \in Id
      PROVE  store[i].rev \in Nat /\ store[i].rev <= high
  <2>1. srv[i].rev <= rev /\ srv[i].rev \in Nat
    BY <1>3
  <2>2. store[i].rev \in {srv[i].rev, low, high}
    BY <1>2
  <2> QED
    BY <1>1, <2>1, <2>2
<1>5. CASE \E i \in Id : store[i].rev = high
  <2>1. CASE floor <= high
    BY <1>4, <1>5, <2>1, ToppedByRow
  <2>2. CASE high < floor
    <3>1. \A i \in Id : store[i].rev <= floor
      BY <1>1, <1>4, <2>2
    <3> QED
      BY <1>1, <3>1, ToppedByFloor
  <2> QED
    BY <1>1, <2>1, <2>2
<1>6. CASE ~(\E i \in Id : store[i].rev = high) /\ \E i \in Id : store[i].rev = low
  <2>1. ASSUME NEW i \in Id PROVE store[i].rev <= low
    <3>1. srv[i].rev <= rev /\ srv[i].rev \in Nat
      BY <1>3
    <3>2. store[i].rev \in {srv[i].rev, low}
      BY <1>2, <1>6
    <3> QED
      BY <1>1, <3>1, <3>2
  <2>2. CASE floor <= low
    BY <1>6, <2>1, <2>2, ToppedByRow
  <2>3. CASE low < floor
    <3>1. \A i \in Id : store[i].rev <= floor
      BY <1>1, <1>4, <2>1, <2>3
    <3> QED
      BY <1>1, <3>1, ToppedByFloor
  <2> QED
    BY <1>1, <2>2, <2>3
<1>7. CASE \A i \in Id : store[i].rev # high /\ store[i].rev # low
  <2>1. \A i \in Id : store[i] = srv[i]
    BY <1>2, <1>7
  <2>2. PICK m \in {floor} \cup {srv[i].rev : i \in Id} :
             floor <= m /\ \A i \in Id : srv[i].rev <= m
    BY DEF HistoryBounded, Topped
  <2>3. CASE m = floor
    BY <1>1, <2>1, <2>2, <2>3, ToppedByFloor
  <2>4. CASE \E k \in Id : m = srv[k].rev
    BY <2>1, <2>2, <2>4, ToppedByRow
  <2> QED
    BY <2>2, <2>3, <2>4
<1> QED
  BY <1>5, <1>6, <1>7

\* An accepted push is a move of the server.
LEMMA CommitPushMoves ==
  ASSUME ServerTypeOK, HistoryBounded, NEW request \in [Id -> LocalRow],
         NEW rejected, \A i \in Id : WellFormed(request[i]),
         CommitPush(request, rejected)
  PROVE  ServerTypeOK' /\ HistoryBounded' /\ ServerMoves
<1> DEFINE store == StoreAfter(request, rejected)
<1>1. /\ srv' = store /\ rev' = RevAfter(request, rejected) /\ floor' = floor
      /\ acked' = AckedAfter(request, rejected)
  BY DEF CommitPush
<1>2. /\ store \in [Id -> StoredRow]
      /\ rev' \in Nat /\ rev <= rev'
      /\ \A i \in Id : \/ store[i] = srv[i]
                       \/ rev < store[i].rev /\ store[i].rev <= rev'
  BY <1>1, StoreAfterRows
<1>3. acked' \in [Id -> SUBSET Body]
  BY <1>1 DEF ServerTypeOK, AckedAfter, LocalRow
<1>4. ServerTypeOK'
  BY <1>1, <1>2, <1>3 DEF ServerTypeOK
<1> HIDE DEF store
<1>5. rev \in Nat /\ floor \in Nat /\ \A i \in Id : srv[i].rev <= rev /\ srv[i].rev \in Nat
  BY DEF ServerTypeOK, HistoryBounded, StoredRow
<1>6. \A i \in Id : store[i].rev \in Nat /\ store[i].rev <= rev' /\ srv[i].rev <= store[i].rev
  BY <1>2, <1>5 DEF StoredRow
<1>7. HistoryBounded'
  BY <1>1, <1>6, StoreAfterTopped DEF HistoryBounded, Topped, store
<1>8. EffMax <= EffMax'
  <2>1. /\ EffMax' \in Nat /\ floor <= EffMax'
        /\ \A i \in Id : store[i].rev <= EffMax'
    <3>1. Topped(store, floor)
      BY StoreAfterTopped DEF store
    <3>2. EffMax' = TopOf(store, floor)
      BY <1>1 DEF EffMax, TopOf
    <3> QED
      BY <1>2, <1>5, <3>1, <3>2, TopOfIsTop
  <2>2. EffMax \in {floor} \cup {srv[i].rev : i \in Id}
    BY EffMaxIsTop
  <2> QED
    BY <1>5, <1>6, <2>1, <2>2
<1>9. ASSUME NEW i \in Id, NEW c \in Nat,
             c <= rev, floor' <= c, srv'[i].rev <= c
      PROVE  floor <= c /\ srv[i].rev <= c /\ srv'[i].body = srv[i].body
  BY <1>1, <1>2, <1>5, <1>6, <1>9
<1> QED
  BY <1>1, <1>2, <1>4, <1>5, <1>7, <1>8, <1>9 DEF ServerMoves

\* So is pruning: it takes only what every served cursor has passed.
LEMMA GcMoves ==
  ASSUME ServerTypeOK, HistoryBounded, NEW f \in Nat, Gc(f)
  PROVE  ServerTypeOK' /\ HistoryBounded' /\ ServerMoves
<1>1. PICK g \in Nat :
      /\ floor' = g /\ floor <= g /\ srv' = Pruned(srv, g)
      /\ rev' = rev /\ acked' = acked
      /\ rev \in Nat /\ floor \in Nat /\ srv \in [Id -> StoredRow]
  BY DEF Gc, ServerTypeOK
<1>2. \A i \in Id : \/ srv'[i] = srv[i]
                    \/ /\ srv'[i] = Unstored /\ srv[i].body = Gone
                       /\ srv[i].rev <= g
  BY <1>1 DEF Pruned, IsTombstone
<1>3. ServerTypeOK'
  BY <1>1 DEF ServerTypeOK, Pruned, Unstored, StoredRow, Body
<1>4. \A i \in Id : /\ srv[i].rev \in Nat /\ srv[i].rev <= rev
                    /\ srv'[i].rev \in Nat /\ srv'[i].rev <= srv[i].rev
  BY <1>1, <1>2, <1>3 DEF HistoryBounded, StoredRow, Unstored, ServerTypeOK
<1>5. Topped(srv', g) /\ EffMax <= TopOf(srv', g)
  <2>1. /\ EffMax \in Nat /\ floor <= EffMax
        /\ \A i \in Id : srv[i].rev <= EffMax
        /\ EffMax \in {floor} \cup {srv[i].rev : i \in Id}
    BY EffMaxIsTop
  <2>2. Topped(srv', g)
    <3>1. CASE EffMax <= g
      <4>1. \A i \in Id : srv'[i].rev <= g
        BY <1>1, <1>4, <2>1, <3>1
      <4> QED
        BY <4>1, ToppedByFloor
    <3>2. CASE g < EffMax
      <4>1. PICK i \in Id : srv[i].rev = EffMax
        BY <1>1, <2>1, <3>2
      <4>2. srv'[i].rev = EffMax
        BY <1>1, <1>2, <1>4, <3>2, <4>1
      <4>3. ASSUME NEW j \in Id PROVE srv'[j].rev <= EffMax
        <5>1. srv'[j].rev <= srv[j].rev /\ srv[j].rev <= EffMax
          BY <1>4, <2>1
        <5> QED
          BY <1>4, <2>1, <5>1
      <4>4. g <= srv'[i].rev /\ \A j \in Id : srv'[j].rev <= srv'[i].rev
        BY <2>1, <3>2, <4>2, <4>3
      <4> QED
        BY <4>4, ToppedByRow
    <3> QED
      BY <2>1, <3>1, <3>2
  <2>3. /\ TopOf(srv', g) \in Nat /\ g <= TopOf(srv', g)
        /\ \A i \in Id : srv'[i].rev <= TopOf(srv', g)
    BY <1>1, <1>3, <2>2, TopOfIsTop DEF ServerTypeOK
  <2>4. EffMax <= TopOf(srv', g)
    <3>1. CASE EffMax <= g
      BY <2>1, <2>3, <3>1
    <3>2. CASE g < EffMax
      <4>1. PICK i \in Id : srv[i].rev = EffMax
        BY <1>1, <2>1, <3>2
      <4>2. srv'[i].rev = EffMax
        BY <1>1, <1>2, <1>4, <3>2, <4>1
      <4> QED
        BY <2>3, <4>2
    <3> QED
      BY <2>1, <3>1, <3>2
  <2> QED
    BY <2>2, <2>4
<1>6. HistoryBounded'
  BY <1>1, <1>4, <1>5 DEF HistoryBounded, Topped
<1>7. EffMax <= EffMax'
  BY <1>1, <1>5 DEF EffMax, TopOf
<1>8. ASSUME NEW i \in Id, NEW c \in Nat,
             c <= rev, floor' <= c, srv'[i].rev <= c
      PROVE  floor <= c /\ srv[i].rev <= c /\ srv'[i].body = srv[i].body
  BY <1>1, <1>2, <1>4, <1>8 DEF Unstored
<1> QED
  BY <1>1, <1>3, <1>6, <1>7, <1>8 DEF ServerMoves

\* A step that leaves the server alone is a move too.
LEMMA StandingStillMoves ==
  ASSUME ServerTypeOK, HistoryBounded, UNCHANGED serverVars
  PROVE  ServerTypeOK' /\ HistoryBounded' /\ ServerMoves
<1>1. srv' = srv /\ rev' = rev /\ floor' = floor /\ acked' = acked
  BY DEF serverVars
<1>2. ServerTypeOK' /\ HistoryBounded'
  BY <1>1 DEF ServerTypeOK, HistoryBounded, Topped
<1>3. EffMax' = EffMax
  BY <1>1 DEF EffMax, TopOf
<1>4. EffMax \in Nat /\ rev \in Nat /\ floor \in Nat
  BY EffMaxIsTop DEF ServerTypeOK
<1> QED
  BY <1>1, <1>2, <1>3, <1>4 DEF ServerMoves

\* An accepted push gives every row it writes a positive revision.
LEMMA CommitPushUnstored ==
  ASSUME ServerTypeOK, UnstoredIsGone, NEW request \in [Id -> LocalRow],
         NEW rejected, \A i \in Id : WellFormed(request[i]),
         CommitPush(request, rejected)
  PROVE  UnstoredIsGone'
<1> DEFINE store == StoreAfter(request, rejected)
<1>1. /\ rev \in Nat /\ floor \in Nat /\ floor' = floor /\ srv' = store
      /\ rev' = RevAfter(request, rejected) /\ floor <= rev
  BY DEF CommitPush, ServerTypeOK, UnstoredIsGone
<1>2. /\ rev' \in Nat /\ rev <= rev' /\ store \in [Id -> StoredRow]
      /\ \A i \in Id : store[i] = srv[i] \/ rev < store[i].rev
  BY <1>1, StoreAfterRows
<1> HIDE DEF store
<1>3. ASSUME NEW i \in Id, store[i].rev = 0 PROVE store[i].body = Gone
  BY <1>1, <1>2, <1>3 DEF UnstoredIsGone
<1> QED
  BY <1>1, <1>2, <1>3 DEF UnstoredIsGone

\* Pruning stays at or below the last revision when its caller does.
LEMMA GcUnstored ==
  ASSUME ServerTypeOK, UnstoredIsGone, GcBeyond = 0, NEW f \in Nat, Gc(f)
  PROVE  UnstoredIsGone'
<1>0. PICK g : g = floor'
  OBVIOUS
<1>1. \A i \in Id : srv'[i] = srv[i] \/ srv'[i] = Unstored
  <2>1. srv' = Pruned(srv, g)
    BY <1>0 DEF Gc
  <2> QED
    BY <2>1 DEF Pruned
<1>2. floor' <= rev'
  <2>1. floor <= rev /\ f <= rev /\ rev' = rev
    BY DEF Gc, ServerTypeOK, UnstoredIsGone
  <2> QED
    BY <2>1 DEF Gc, ServerTypeOK
<1> QED
  BY <1>1, <1>2 DEF UnstoredIsGone, Unstored

\* The store holds what it accepted, a deletion of nothing included.
LEMMA AcceptedStored ==
  ASSUME ServerTypeOK, NEW request \in [Id -> LocalRow],
         \A i \in Id : WellFormed(request[i]), NEW hooked, NEW i \in Id,
         IsDirty(request[i]), i \notin Refused(request, hooked)
  PROVE  StoreAfter(request, Refused(request, hooked))[i].body = request[i].data
<1> DEFINE rejected == Refused(request, hooked)
           ups  == Upserts(request) \ rejected
           dels == Deletes(request) \ rejected
<1>1. CASE request[i].status \in {"created", "updated"}
  <2>1. i \in ups /\ ~IsTombstone(srv[i])
    BY <1>1 DEF Upserts, Refused
  <2>2. StoreAfter(request, rejected)[i] =
          [rev |-> UpsertRev(ups), body |-> request[i].data]
    BY <2>1 DEF StoreAfter
  <2> QED
    BY <2>2
<1>2. CASE request[i].status = "deleted"
  <2>1. request[i].data = Gone
    BY <1>2, RowShapes DEF Tombstone
  <2>2. i \in dels /\ i \notin ups
    BY <1>2 DEF Upserts, Deletes
  <2>3. CASE srv[i].body = Gone
    <3>1. StoreAfter(request, rejected)[i] = srv[i]
      BY <2>2, <2>3 DEF StoreAfter
    <3> QED
      BY <2>1, <2>3, <3>1
  <2>4. CASE srv[i].body # Gone
    <3>1. StoreAfter(request, rejected)[i] =
            [rev |-> TombstoneRev(ups, dels), body |-> Gone]
      BY <2>2, <2>4 DEF StoreAfter
    <3> QED
      BY <2>1, <3>1
  <2> QED
    BY <2>3, <2>4
<1> QED
  BY <1>1, <1>2 DEF IsDirty
=============================================================================
