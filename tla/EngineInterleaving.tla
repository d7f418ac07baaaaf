-------------------------- MODULE EngineInterleaving --------------------------
(***************************************************************************)
(* The engine's handlers step by step.  SyncServer runs pull and push as   *)
(* one step each; the code is a chain of awaited store calls, and between  *)
(* two of them other handlers run and retention prunes.                    *)
(*                                                                         *)
(* Two stores stand under the engine.  store-drizzle (Isolated) gives a    *)
(* pull one snapshot and keeps a push's writes to itself until it commits, *)
(* while each of its reads sees what others committed.  memoryStore        *)
(* (not Isolated) lets every call see and change the rows at once.  Both   *)
(* let one push of the scope run at a time, and neither holds gc back.     *)
(*                                                                         *)
(* Every id is a table of its own here, as revisions are handed out and    *)
(* changes collected table by table.  Clients apply answers atomically:    *)
(* SyncProtocol is about what happens inside them.                         *)
(***************************************************************************)
EXTENDS SyncServer

CONSTANTS
  Device,
  Isolated,     \* TRUE: store-drizzle, FALSE: memoryStore
  MaxPushes,    \* bound on push requests
  MaxPrunings   \* bound on gc calls

ASSUME InterleavingConstants ==
  /\ Isolated \in BOOLEAN
  /\ MaxPushes \in Nat
  /\ MaxPrunings \in Nat

VARIABLES
  rows,      \* each device's table
  cursor,    \* each device's stored cursor
  job,       \* the request each device has at the server
  pushes, prunings   \* how much of the two budgets is used

vars == <<serverVars, rows, cursor, job, pushes, prunings>>

Unread    == -1
NoRequest == [i \in Id |-> Absent]
NoView    == [rows |-> [i \in Id |-> Unstored], floor |-> Unread]
NoWrites  == [i \in {} |-> Unstored]

\* at: how far the handler is; since: the request's cursor; low and top: the
\* floor it read and the cursor it will answer; left: the tables it has still
\* to collect; got: what it collected; view: a pull's snapshot; request,
\* refused, ups, dels: a push, its refusals and its writes still to do; mine:
\* its uncommitted rows.
NoJob ==
  [at |-> "idle", since |-> 0, low |-> Unread, top |-> NoCursor, left |-> {},
   got |-> NoChanges, view |-> NoView, request |-> NoRequest, refused |-> {},
   ups |-> {}, dels |-> {}, mine |-> NoWrites]

Init ==
  /\ ServerInit
  /\ rows   = [d \in Device |-> [i \in Id |-> Absent]]
  /\ cursor = [d \in Device |-> NoCursor]
  /\ job    = [d \in Device |-> NoJob]
  /\ pushes = 0
  /\ prunings = 0

At(d, label) == job[d].at = label

\* What the store shows a handler: a pull its snapshot if it has one, a push
\* the committed rows under its own.
SeenRows(d) ==
  IF job[d].view # NoView THEN job[d].view.rows
  ELSE [i \in Id |-> IF i \in DOMAIN job[d].mine THEN job[d].mine[i] ELSE srv[i]]

SeenFloor(d) == IF job[d].view # NoView THEN job[d].view.floor ELSE floor

Become(d, new) == job' = [job EXCEPT ![d] = new]

Reads(d, new) ==
  /\ Become(d, new)
  /\ UNCHANGED <<serverVars, rows, cursor, pushes, prunings>>

(***************************************************************************)
(* Pull: the floor, the highest revision, then table after table.          *)
(***************************************************************************)
PullJob(since) ==
  [NoJob EXCEPT !.at = "pull", !.since = since,
     !.view = IF Isolated THEN [rows |-> srv, floor |-> floor] ELSE NoView]

AskPull(d) ==
  /\ At(d, "idle")
  /\ Reads(d, PullJob(cursor[d]))

PullFloor(d) ==
  /\ At(d, "pull")
  /\ Reads(d, [job[d] EXCEPT !.at = "horizon", !.low = SeenFloor(d)])

PullHorizon(d) ==
  LET top     == TopOf(SeenRows(d), job[d].low)
      since   == job[d].since
      expired == since # NoCursor /\ (since < job[d].low \/ since > top)
  IN  /\ At(d, "horizon")
      /\ Reads(d, IF expired
                    THEN [NoJob EXCEPT !.at = "expired"]
                    ELSE [job[d] EXCEPT !.at = "gather", !.left = Id,
                                        !.top = IF since > top THEN since ELSE top])

\* One table's changedSince.
Collect(d, i) ==
  LET since == IF job[d].since = NoCursor THEN 0 ELSE job[d].since
      named == IF At(d, "write") THEN Named(job[d].request) ELSE {}
  IN  [job[d] EXCEPT !.left = @ \ {i},
                     !.got[i] = Window(SeenRows(d), since, named)[i]]

PullTable(d, i) ==
  /\ At(d, "gather")
  /\ i \in job[d].left
  /\ Reads(d, Collect(d, i))

\* The client merges the answer and stores its cursor; a null cursor's
\* answer replaces what it held.
DeliverPull(d) ==
  /\ At(d, "gather")
  /\ job[d].left = {}
  /\ rows' = [rows EXCEPT ![d] =
       [i \in Id |-> ApplyChange(rows[d][i], job[d].got[i],
                                 job[d].since = NoCursor)]]
  /\ cursor' = [cursor EXCEPT ![d] = job[d].top]
  /\ Become(d, NoJob)
  /\ UNCHANGED <<serverVars, pushes, prunings>>

RePull(d) ==
  /\ At(d, "expired")
  /\ Reads(d, PullJob(NoCursor))

(***************************************************************************)
(* Push.  A device writes one more record and pushes everything dirty.     *)
(***************************************************************************)
Statement(r, new) ==
  IF new = Gone THEN Tombstone
  ELSE IF IsLive(r) THEN EditRow(r, new) ELSE CreatedRow(new)

AskPush(d, i, new) ==
  /\ At(d, "idle")
  /\ cursor[d] # NoCursor
  /\ pushes < MaxPushes
  /\ rows[d][i].status # "deleted"
  /\ new # rows[d][i].data
  /\ pushes' = pushes + 1
  /\ rows' = [rows EXCEPT ![d][i] = Statement(rows[d][i], new)]
  /\ Become(d, [NoJob EXCEPT !.at = "lock", !.since = cursor[d],
                  !.request = [k \in Id |-> Frozen(rows'[d][k])]])
  /\ UNCHANGED <<serverVars, cursor, prunings>>

Pushing == {"scan", "refuse", "write", "top"}

\* The scope's lock: an advisory lock, or the promise chain of the scope.
LockFree(d) == \A e \in Device : job[e].at \notin Pushing

\* Once it has the lock, a cursor above everything served is a conflict.
PushHorizon(d) ==
  /\ At(d, "lock")
  /\ LockFree(d)
  /\ Reads(d, [job[d] EXCEPT !.at =
       IF job[d].since > TopOf(srv, floor) THEN "conflict" ELSE "scan"])

\* Mistake: only the deletions are scanned, not the rows to be written.
StaleDeletes(d) ==
  \E i \in Deletes(job[d].request) : srv[i].rev > job[d].since

Stale(d) == \E i \in Named(job[d].request) : srv[i].rev > job[d].since

PushScan(d) ==
  /\ At(d, "scan")
  /\ Reads(d, [job[d] EXCEPT !.at = IF Stale(d) THEN "conflict" ELSE "refuse"])

PushRefuse(d, hooked) ==
  LET request == job[d].request
      refused == Refused(request, hooked)
  IN  /\ At(d, "refuse")
      /\ Reads(d, [job[d] EXCEPT !.at = "write", !.refused = refused, !.left = Id,
                     !.ups = Upserts(request) \ refused,
                     !.dels = Deletes(request) \ refused])

\* A write takes a fresh revision whether or not it stores a row.
Store(d, new, i, row, stored) ==
  LET written == stored /\ Isolated
      ids == DOMAIN job[d].mine \cup (IF written THEN {i} ELSE {})
  IN  /\ rev' = rev + 1
      /\ srv' = IF stored /\ ~Isolated THEN [srv EXCEPT ![i] = row] ELSE srv
      /\ Become(d, [new EXCEPT !.mine =
           [k \in ids |-> IF k = i /\ written THEN row ELSE job[d].mine[k]]])
      /\ UNCHANGED <<floor, acked, rows, cursor, pushes, prunings>>

PushUpsert(d, i) ==
  /\ At(d, "write")
  /\ i \in job[d].ups
  /\ Store(d, [job[d] EXCEPT !.ups = @ \ {i}], i,
           [rev |-> rev + 1, body |-> job[d].request[i].data],
           ~IsTombstone(SeenRows(d)[i]))

PushTombstone(d, i) ==
  /\ At(d, "write")
  /\ job[d].ups = {}
  /\ i \in job[d].dels
  /\ Store(d, [job[d] EXCEPT !.dels = @ \ {i}], i,
           [rev |-> rev + 1, body |-> Gone], SeenRows(d)[i].body # Gone)

Written(d) == At(d, "write") /\ job[d].ups = {} /\ job[d].dels = {}

PushTable(d, i) ==
  /\ Written(d)
  /\ i \in job[d].left
  /\ Reads(d, Collect(d, i))

\* Mistake: the floor may be read before the changes are collected.
FloorAnyTime(d) == TRUE

\* The interleave is collected first, the floor read after it.
FloorLast(d) == job[d].left = {}

PushFloor(d) ==
  /\ Written(d)
  /\ job[d].low = Unread
  /\ FloorLast(d)
  /\ Reads(d, [job[d] EXCEPT !.low = floor])

\* Below the floor the answer is neither changes nor a cursor.
PushTop(d) ==
  /\ Written(d)
  /\ job[d].left = {}
  /\ job[d].low # Unread
  /\ Reads(d, IF job[d].since < job[d].low
                THEN [job[d] EXCEPT !.at = "top", !.got = NoChanges]
                ELSE [job[d] EXCEPT !.at = "top",
                                    !.top = TopOf(SeenRows(d), job[d].low)])

\* The commit, which lets the next push of the scope in.
PushCommit(d) ==
  /\ At(d, "top")
  /\ srv' = SeenRows(d)
  /\ acked' = AckedAfter(job[d].request, job[d].refused)
  /\ Become(d, [job[d] EXCEPT !.at = "accepted", !.mine = NoWrites])
  /\ UNCHANGED <<rev, floor, rows, cursor, pushes, prunings>>

DeliverPush(d) ==
  LET degraded == job[d].top = NoCursor
      marked   == [i \in Id |-> MarkSynced(rows[d][i], job[d].request[i],
                                           i \in job[d].refused)]
  IN  /\ At(d, "accepted")
      /\ rows' = [rows EXCEPT ![d] =
           [i \in Id |-> ApplyChange(marked[i], job[d].got[i], FALSE)]]
      /\ cursor' = IF degraded THEN cursor
                   ELSE [cursor EXCEPT ![d] = job[d].top]
      /\ Become(d, NoJob)
      /\ UNCHANGED <<serverVars, pushes, prunings>>

\* A conflict, or an answer nobody hears: the records stay dirty.
Forget(d) ==
  /\ job[d].at \in {"conflict", "accepted"}
  /\ Reads(d, NoJob)

\* The caller's floor is a revision the scope has served.
Retain(f) ==
  /\ prunings < MaxPrunings
  /\ prunings' = prunings + 1
  /\ f <= TopOf(srv, floor)
  /\ Gc(f)
  /\ UNCHANGED <<rows, cursor, job, pushes>>

-----------------------------------------------------------------------------
PullStep(d) ==
  \/ AskPull(d) \/ PullFloor(d) \/ PullHorizon(d)
  \/ \E i \in Id : PullTable(d, i)
  \/ DeliverPull(d) \/ RePull(d)

PushStep(d) ==
  \/ \E i \in Id, new \in Body : AskPush(d, i, new)
  \/ PushHorizon(d) \/ PushScan(d)
  \/ \E hooked \in SUBSET HookIds : PushRefuse(d, hooked)
  \/ \E i \in Id : PushUpsert(d, i) \/ PushTombstone(d, i) \/ PushTable(d, i)
  \/ PushFloor(d) \/ PushTop(d) \/ PushCommit(d)
  \/ DeliverPush(d) \/ Forget(d)

Next ==
  \/ \E d \in Device : PullStep(d) \/ PushStep(d)
  \/ \E f \in 1 .. rev : Retain(f)

Spec == Init /\ [][Next]_vars

-----------------------------------------------------------------------------
(***************************************************************************)
(* Properties.                                                             *)
(***************************************************************************)
Labels == {"idle", "pull", "horizon", "gather", "expired", "lock", "conflict",
           "accepted"} \cup Pushing

\* Stored rows, replicas and the handlers' places and reads keep their domains.
TypeOK ==
  /\ ServerTypeOK
  /\ \A d \in Device, i \in Id : WellFormed(rows[d][i])
  /\ cursor \in [Device -> Nat \cup {NoCursor}]
  /\ \A d \in Device :
       /\ job[d].at \in Labels
       /\ job[d].low \in Nat \cup {Unread}
       /\ job[d].top \in Nat \cup {NoCursor}
       /\ job[d].got \in [Id -> Change]

\* However the handlers' store calls interleave with each other and with
\* pruning, a clean record equals the server's row as far as the device's
\* served cursor reaches: no change is committed behind a cursor that was
\* handed out, and no pruned deletion is missing from an answer that a
\* cursor came with.
CleanRowsAgree ==
  \A d \in Device, i \in Id :
    (/\ floor <= cursor[d]
     /\ srv[i].rev <= cursor[d]
     /\ ~IsDirty(rows[d][i])) => rows[d][i].data = srv[i].body

\* A cursor a device holds is one the server can still place: never above
\* the highest revision served, so never taken for foreign.
CursorServed == \A d \in Device : cursor[d] <= EffMax

\* What a device has after any interleaving of handlers and pruning is sound:
\* its clean rows agree, its cursor is served, and all is well typed.
Consistent == TypeOK /\ CleanRowsAgree /\ CursorServed

SeenBeforeWritten ==
  \A d \in Device, i \in Id :
    At(d, "top") /\ job'[d].at = "accepted" /\ i \in Named(job[d].request)
      /\ i \notin job[d].refused =>
    \/ srv[i].rev <= job[d].since
    \/ srv[i].body = job[d].request[i].data

\* A push never overwrites or deletes a row newer than the cursor of its
\* pull, even though the rows are scanned several store calls before they
\* are written: what it commits it has seen, or it is its own statement.
NoBlindOverwrite == [][SeenBeforeWritten]_vars

=============================================================================
