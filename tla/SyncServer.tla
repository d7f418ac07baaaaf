----------------------------- MODULE SyncServer ------------------------------
(***************************************************************************)
(* The server half of the sync protocol: the engine's pull and push        *)
(* handlers over one scope of a store whose transactions are atomic, and   *)
(* the store's retention.  Operators here describe the state after a       *)
(* handler ran; SyncProtocol makes them actions, with requests and         *)
(* responses travelling between them.                                      *)
(*                                                                         *)
(* A stored row is [rev, body]: rev 0 is an id the store does not hold     *)
(* (never written, or pruned), a body Gone under a positive rev is a       *)
(* tombstone.                                                              *)
(***************************************************************************)
EXTENDS RecordMerge, Integers

CONSTANTS
  Id,           \* the (table, id) pairs of the scope
  Invalid,      \* the contents the table's validate() refuses
  AppendOnly,   \* the ids that live in append-only tables
  HookIds,      \* the ids a cross-validation hook or storage may refuse
  GcBeyond      \* how far above the last revision a caller's gc floor may be

ASSUME ServerConstants ==
  /\ Invalid \subseteq Content
  /\ AppendOnly \subseteq Id
  /\ HookIds \subseteq Id
  /\ GcBeyond \in Nat

VARIABLES
  srv,     \* the stored rows
  rev,     \* the last revision handed out
  floor,   \* the gc floor
  acked    \* history: the statements the server accepted for each id

serverVars == <<srv, rev, floor, acked>>

StoredRow == [rev : Nat, body : Body]
Unstored  == [rev |-> 0, body |-> Gone]

IsTombstone(s) == s.rev > 0 /\ s.body = Gone

ServerInit ==
  /\ srv = [i \in Id |-> Unstored]
  /\ rev = 0
  /\ floor = 0
  /\ acked = [i \in Id |-> {}]

(***************************************************************************)
(* Cursors.  NoCursor is the null cursor of a device that never applied a  *)
(* pull.  Served history reaches up to EffMax: the highest stored          *)
(* revision, or the gc floor when pruning took the row that held it.       *)
(***************************************************************************)
NoCursor == -1

TopOf(rows, low) ==
  LET revs == {low} \cup {rows[i].rev : i \in Id}
  IN  CHOOSE m \in revs : \A n \in revs : n <= m

\* Mistake: the highest stored revision alone, which pruning can lower.
EffMaxWithoutFloor == TopOf(srv, 0)

EffMax == TopOf(srv, floor)

\* What the store changed after a revision, minus the excluded ids.
\* Mistake: the first revision after the cursor is left out.
WindowOffByOne(rows, since, excluded) ==
  [i \in Id |-> IF i \in excluded \/ rows[i].rev <= since + 1
                  THEN Omitted ELSE rows[i].body]

Window(rows, since, excluded) ==
  [i \in Id |-> IF i \in excluded \/ rows[i].rev <= since
                  THEN Omitted ELSE rows[i].body]

NoChanges == [i \in Id |-> Omitted]

(***************************************************************************)
(* Pull.  A cursor outside [floor, EffMax] is answered resyncRequired; a   *)
(* null cursor is always answered in full.                                 *)
(***************************************************************************)
PullExpired(c) == c # NoCursor /\ (c < floor \/ c > EffMax)

PullChanges(c) == Window(srv, IF c = NoCursor THEN 0 ELSE c, {})

PullCursor(c) == IF c > EffMax THEN c ELSE EffMax

(***************************************************************************)
(* Push.  A request is a snapshot of dirty records (request[i] is Absent   *)
(* for an id it does not name) and the cursor of the pull before it.       *)
(***************************************************************************)
Named(request)   == {i \in Id : IsDirty(request[i])}
Upserts(request) == {i \in Id : request[i].status \in {"created", "updated"}}
Deletes(request) == {i \in Id : request[i].status = "deleted"}

\* A row changed after the cursor, or a cursor above everything served.
PushConflicts(request, since) ==
  \/ since > EffMax
  \/ \E i \in Named(request) : srv[i].rev > since

\* validate() and append-only look at rows; a hook may name any id of the
\* request; a row aimed at a tombstone is refused so the client sees it.
Refused(request, hooked) ==
  (hooked \cap Named(request)) \cup
  {i \in Upserts(request) :
     \/ request[i].data \in Invalid
     \/ IsTombstone(srv[i])
     \/ i \in AppendOnly /\ srv[i].rev > 0}

\* One revision for the upserted rows, the next for the tombstoned ones;
\* deleting what is absent or already dead stores nothing.
UpsertRev(upserts)             == IF upserts = {} THEN rev ELSE rev + 1
TombstoneRev(upserts, deletes) ==
  IF deletes = {} THEN UpsertRev(upserts) ELSE UpsertRev(upserts) + 1

\* Mistake: an upsert is stored over whatever the id holds.
StoreOverTombstones(request, refused) ==
  LET deletes == Deletes(request) \ refused
  IN  [i \in Id |->
        IF i \in Upserts(request) THEN [rev |-> rev + 1, body |-> request[i].data]
        ELSE IF i \in deletes /\ srv[i].body # Gone
          THEN [rev |-> TombstoneRev(Upserts(request), deletes), body |-> Gone]
        ELSE srv[i]]

StoreAfter(request, refused) ==
  LET upserts == Upserts(request) \ refused
      deletes == Deletes(request) \ refused
  IN  [i \in Id |->
        IF i \in upserts /\ ~IsTombstone(srv[i])
          THEN [rev |-> UpsertRev(upserts), body |-> request[i].data]
        ELSE IF i \in deletes /\ srv[i].body # Gone
          THEN [rev |-> TombstoneRev(upserts, deletes), body |-> Gone]
        ELSE srv[i]]

RevAfter(request, refused) ==
  TombstoneRev(Upserts(request) \ refused, Deletes(request) \ refused)

AckedAfter(request, refused) ==
  [i \in Id |-> IF i \in Named(request) \ refused
                  THEN acked[i] \cup {request[i].data} ELSE acked[i]]

\* The answer: a cursor with every change the request did not name, or
\* neither when pruning may have taken deletions out of the window.
PushCursor(since, rows) == IF since < floor THEN NoCursor ELSE TopOf(rows, floor)

PushChanges(request, since, rows) ==
  IF since < floor THEN NoChanges ELSE Window(rows, since, Named(request))

\* The transaction of an accepted push.
CommitPush(request, refused) ==
  /\ srv'   = StoreAfter(request, refused)
  /\ rev'   = RevAfter(request, refused)
  /\ acked' = AckedAfter(request, refused)
  /\ UNCHANGED floor

(***************************************************************************)
(* Retention: a floor never sinks, and pruning goes up to the floor that   *)
(* stands, whatever the caller asked for.                                  *)
(***************************************************************************)
Pruned(rows, f) ==
  [i \in Id |-> IF IsTombstone(rows[i]) /\ rows[i].rev <= f
                  THEN Unstored ELSE rows[i]]

Gc(f) ==
  /\ f <= rev + GcBeyond
  /\ floor' = IF f > floor THEN f ELSE floor
  /\ srv' = Pruned(srv, floor')
  /\ UNCHANGED <<rev, acked>>

ServerTypeOK ==
  /\ srv \in [Id -> StoredRow]
  /\ rev \in Nat
  /\ floor \in Nat
  /\ acked \in [Id -> SUBSET Body]

\* Some revision is the highest of the floor and the stored rows.
Topped(r, low) ==
  \E m \in {low} \cup {r[i].rev : i \in Id} :
    low <= m /\ \A i \in Id : r[i].rev <= m

\* And no row is newer than the last revision handed out.
HistoryBounded == Topped(srv, floor) /\ \A i \in Id : srv[i].rev <= rev

\* An id without a revision has no body, and pruning never passed the last
\* revision.
UnstoredIsGone ==
  /\ floor <= rev
  /\ \A i \in Id : srv[i].rev = 0 => srv[i].body = Gone

=============================================================================
