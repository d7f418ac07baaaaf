----------------------------- MODULE RecordMerge -----------------------------
(***************************************************************************)
(* The record-level rules of the sync engine: how a local write marks a    *)
(* record dirty, how one remote change meets the local record, and when a  *)
(* pushed record may be flipped to synced.                                 *)
(*                                                                         *)
(* A record is a table row of the local database.  An id stands for the    *)
(* pair (table, id): every rule of the code is keyed by that pair.         *)
(*                                                                         *)
(* A tombstone keeps its columns in SQL, but nothing reads them again, so  *)
(* a deleted and an absent record both carry the body Gone here.           *)
(***************************************************************************)

CONSTANTS
  Column,   \* the synced columns of a table
  Value,    \* the values a column can hold
  Gone,     \* the body of a record that is not live
  Omitted   \* a changeset says nothing of this id

Content == [Column -> Value]

ASSUME MarkersAreNoContent ==
  /\ Gone \notin Content
  /\ Omitted \notin Content
  /\ Gone # Omitted

Body   == Content \cup {Gone}
Change == Body \cup {Omitted}

Status == {"none", "synced", "created", "updated", "deleted"}

LocalRow == [status : Status, changed : SUBSET Column, data : Body]

Absent    == [status |-> "none",    changed |-> {}, data |-> Gone]
Tombstone == [status |-> "deleted", changed |-> {}, data |-> Gone]

CreatedRow(new) == [status |-> "created", changed |-> {}, data |-> new]
SyncedRow(new)  == [status |-> "synced",  changed |-> {}, data |-> new]

IsLive(r)  == r.status \in {"synced", "created", "updated"}
IsDirty(r) == r.status \in {"created", "updated", "deleted"}

\* The shapes the code stores: only live rows hold content, a synced row
\* tracks no column, and an updated row tracks at least one.
WellFormed(r) ==
  /\ r \in LocalRow
  /\ IsLive(r) <=> r.data \in Content
  /\ ~IsLive(r) \/ r.status = "synced" => r.changed = {}
  /\ r.status = "updated" => r.changed # {}

(***************************************************************************)
(* A local update: the columns whose value really changes join _changed,   *)
(* a created record stays created, a synced one becomes updated.           *)
(***************************************************************************)
\* Mistake: the status flips without remembering which columns changed.
ForgetColumns(r, columns) ==
  [status  |-> IF r.status = "created" THEN "created" ELSE "updated",
   changed |-> r.changed]

MarkAsChanged(r, columns) ==
  [status  |-> IF r.status = "created" THEN "created" ELSE "updated",
   changed |-> r.changed \cup columns]

EditRow(r, new) ==
  LET marks == MarkAsChanged(r, {c \in Column : new[c] # r.data[c]})
  IN  [status |-> marks.status, changed |-> marks.changed, data |-> new]

(***************************************************************************)
(* A remote row meets a live local one: remote base, the locally changed   *)
(* columns on top, status and _changed kept.  The code skips the write of  *)
(* a row that would not change, which has no effect on the row.            *)
(***************************************************************************)
\* Mistake: the whole remote row wins.
TakeRemote(local, remote) == [local EXCEPT !.data = remote]

ResolveConflict(local, remote) ==
  [local EXCEPT !.data =
     [c \in Column |-> IF c \in local.changed THEN local.data[c] ELSE remote[c]]]

\* A remote row by the state of the local one.  The created and updated
\* buckets differ in what they log only; a pending local delete stands.
ApplyRow(r, remote) ==
  CASE IsLive(r)             -> ResolveConflict(r, remote)
    [] r.status = "deleted"  -> r
    [] r.status = "none"     -> SyncedRow(remote)

\* One id of a changeset.  A remote deletion destroys whatever is there; a
\* replacement also destroys a synced row the snapshot does not carry.
ApplyChange(r, change, replacement) ==
  CASE change = Gone       -> Absent
    [] change \in Content  -> ApplyRow(r, change)
    [] change = Omitted    -> IF replacement /\ r.status = "synced"
                                THEN Absent ELSE r

(***************************************************************************)
(* The push snapshot, and the gate behind it: a pushed record is flipped   *)
(* only if it still equals the copy frozen at fetch time, and a pushed     *)
(* tombstone destroyed only while it is still a tombstone.                 *)
(***************************************************************************)
Frozen(r) == IF IsDirty(r) THEN r ELSE Absent

\* Mistake: no comparison with the frozen copy.
MarkUngated(r, frozen, refused) ==
  IF ~IsDirty(frozen) \/ refused
    THEN r
    ELSE IF frozen.status = "deleted" THEN Absent ELSE SyncedRow(r.data)

MarkSynced(r, frozen, refused) ==
  IF ~IsDirty(frozen) \/ refused \/ r # frozen
    THEN r
    ELSE IF frozen.status = "deleted" THEN Absent ELSE SyncedRow(r.data)

=============================================================================
