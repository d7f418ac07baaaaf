---------------------------- MODULE SyncProtocol -----------------------------
(***************************************************************************)
(* Devices that edit offline and run synchronize() against one server.     *)
(*                                                                         *)
(* One device is one database used by one context, so at most one run is   *)
(* in flight on it.  Between two protocol steps the application writes     *)
(* whenever the writer slot is free, other devices push, the server        *)
(* prunes, a request or an answer is lost, the process dies.  A push whose *)
(* client stopped listening may still reach the server later.              *)
(*                                                                         *)
(* Where a run stands (pc), and the code it stands in:                     *)
(*   idle       no run                                                     *)
(*   pulling    the pull request is on its way                             *)
(*   expired    resyncRequired is on its way back                          *)
(*   pulled     the pull answer is on its way back                         *)
(*   applied    apply write: the row batch is committed, the cursor is not *)
(*   ready      apply write finished, local changes not fetched yet        *)
(*   pushing    the push request is on its way                             *)
(*   conflict   a conflict answer is on its way back                       *)
(*   pushed     an accepting answer is on its way back                     *)
(*   marked     mark write: the marks are committed, the interleave is not *)
(*   merged     mark write: the interleave is committed, the cursor is not *)
(***************************************************************************)
EXTENDS SyncServer

CONSTANTS
  Device,
  Retries,          \* attempts of one run (conflictRetries, floored at one)
  FreshIds,         \* TRUE: ids are generated, no id is created twice
  FirstApplyCrash,  \* TRUE: a device may die inside its very first apply
  MaxWrites,        \* bound on local writes
  MaxFaults         \* bound on interrupted runs

ASSUME ProtocolConstants ==
  /\ Retries \in Nat \ {0}
  /\ FreshIds \in BOOLEAN
  /\ FirstApplyCrash \in BOOLEAN
  /\ MaxWrites \in Nat
  /\ MaxFaults \in Nat

VARIABLES
  rows,      \* each device's table
  cursor,    \* each device's stored cursor
  pc,        \* where the run stands
  attempt,   \* the attempt the run is in
  replace,   \* the pull in progress is the re-pull after resyncRequired
  delta,     \* the changes of the answer being delivered or applied
  next,      \* the cursor of that answer, kept as the push cursor
  snap,      \* the push snapshot: frozen copies of the dirty records
  refused,   \* the ids the push answer names rejected
  late,      \* a push request whose client no longer listens
  born,      \* the ids that were created somewhere
  writes, faults   \* how much of the two budgets is used

runVars    == <<pc, attempt, replace, delta, next, snap, refused>>
budgetVars == <<born, writes, faults>>
vars == <<serverVars, rows, cursor, runVars, late, budgetVars>>

NoRequest == [i \in Id |-> Absent]
NoLate    == [request |-> NoRequest, since |-> 0]

Init ==
  /\ ServerInit
  /\ rows    = [d \in Device |-> [i \in Id |-> Absent]]
  /\ cursor  = [d \in Device |-> NoCursor]
  /\ pc      = [d \in Device |-> "idle"]
  /\ attempt = [d \in Device |-> 0]
  /\ replace = [d \in Device |-> FALSE]
  /\ delta   = [d \in Device |-> NoChanges]
  /\ next    = [d \in Device |-> NoCursor]
  /\ snap    = [d \in Device |-> NoRequest]
  /\ refused = [d \in Device |-> {}]
  /\ late    = [d \in Device |-> NoLate]
  /\ born    = {}
  /\ writes  = 0
  /\ faults  = 0

(***************************************************************************)
(* The application's writes.  db.write() admits one writer at a time, so   *)
(* none of them falls between the commits of a sync write.                 *)
(***************************************************************************)
InSyncWrite(d) == pc[d] \in {"applied", "marked", "merged"}

LocalWrite(d, i, new) ==
  /\ ~InSyncWrite(d)
  /\ writes < MaxWrites
  /\ writes' = writes + 1
  /\ rows' = [rows EXCEPT ![d][i] = new]
  /\ UNCHANGED <<serverVars, cursor, runVars, late, faults>>

\* create() inserts a row, so the id must not be taken, not even by a tombstone.
Create(d, i, new) ==
  /\ rows[d][i].status = "none"
  /\ FreshIds => i \notin born
  /\ born' = born \cup {i}
  /\ LocalWrite(d, i, CreatedRow(new))

Update(d, i, new) ==
  /\ IsLive(rows[d][i])
  /\ new # rows[d][i].data
  /\ LocalWrite(d, i, EditRow(rows[d][i], new))
  /\ UNCHANGED born

MarkAsDeleted(d, i) ==
  /\ IsLive(rows[d][i])
  /\ LocalWrite(d, i, Tombstone)
  /\ UNCHANGED born

(***************************************************************************)
(* The run.  Every way out of it leaves its variables as Init has them.    *)
(***************************************************************************)
Goto(d, label) == pc' = [pc EXCEPT ![d] = label]

EndRun(d) ==
  /\ Goto(d, "idle")
  /\ attempt' = [attempt EXCEPT ![d] = 0]
  /\ replace' = [replace EXCEPT ![d] = FALSE]
  /\ delta'   = [delta   EXCEPT ![d] = NoChanges]
  /\ next'    = [next    EXCEPT ![d] = NoCursor]
  /\ snap'    = [snap    EXCEPT ![d] = NoRequest]
  /\ refused' = [refused EXCEPT ![d] = {}]

\* The cursor a pull request carries: none for the re-pull of a resync.
\* Mistake: the re-pull sends the expired cursor again.
RequestSameCursor(d) == cursor[d]

RequestCursor(d) == IF replace[d] THEN NoCursor ELSE cursor[d]

StartRun(d) ==
  /\ pc[d] = "idle"
  /\ Goto(d, "pulling")
  /\ attempt' = [attempt EXCEPT ![d] = 1]
  /\ UNCHANGED <<serverVars, rows, cursor, replace, delta, next, snap, refused,
                 late, budgetVars>>

ServePull(d) ==
  /\ pc[d] = "pulling"
  /\ IF PullExpired(RequestCursor(d))
       THEN /\ Goto(d, "expired")
            /\ UNCHANGED <<delta, next>>
       ELSE /\ Goto(d, "pulled")
            /\ delta' = [delta EXCEPT ![d] = PullChanges(RequestCursor(d))]
            /\ next'  = [next  EXCEPT ![d] = PullCursor(RequestCursor(d))]
  /\ UNCHANGED <<serverVars, rows, cursor, attempt, replace, snap, refused,
                 late, budgetVars>>

RePull(d) ==
  /\ pc[d] = "expired"
  /\ Goto(d, "pulling")
  /\ replace' = [replace EXCEPT ![d] = TRUE]
  /\ UNCHANGED <<serverVars, rows, cursor, attempt, delta, next, snap, refused,
                 late, budgetVars>>

\* The apply write commits twice: the row batch, then the cursor.
MergeDelta(d) ==
  rows' = [rows EXCEPT ![d] =
             [i \in Id |-> ApplyChange(rows[d][i], delta[d][i], replace[d])]]

ApplyPull(d) ==
  /\ pc[d] = "pulled"
  /\ Goto(d, "applied")
  /\ MergeDelta(d)
  /\ UNCHANGED <<serverVars, cursor, attempt, replace, delta, next, snap,
                 refused, late, budgetVars>>

SaveCursor(d) == cursor' = [cursor EXCEPT ![d] = next[d]]

FinishApply(d) ==
  /\ pc[d] = "applied"
  /\ SaveCursor(d)
  /\ Goto(d, "ready")
  /\ replace' = [replace EXCEPT ![d] = FALSE]
  /\ delta'   = [delta EXCEPT ![d] = NoChanges]
  /\ UNCHANGED <<serverVars, rows, attempt, next, snap, refused, late,
                 budgetVars>>

DirtyIds(d) == {i \in Id : IsDirty(rows[d][i])}

\* Nothing dirty: the run is over without a push.
FetchNothing(d) ==
  /\ pc[d] = "ready"
  /\ DirtyIds(d) = {}
  /\ EndRun(d)
  /\ UNCHANGED <<serverVars, rows, cursor, late, budgetVars>>

FetchLocal(d) ==
  /\ pc[d] = "ready"
  /\ DirtyIds(d) # {}
  /\ Goto(d, "pushing")
  /\ snap' = [snap EXCEPT ![d] = [i \in Id |-> Frozen(rows[d][i])]]
  /\ UNCHANGED <<serverVars, rows, cursor, attempt, replace, delta, next,
                 refused, late, budgetVars>>

PushConflict(d) ==
  /\ pc[d] = "pushing"
  /\ PushConflicts(snap[d], next[d])
  /\ Goto(d, "conflict")
  /\ UNCHANGED <<serverVars, rows, cursor, attempt, replace, delta, next, snap,
                 refused, late, budgetVars>>

AcceptPush(d, hooked) ==
  LET rejected == Refused(snap[d], hooked)
      store    == StoreAfter(snap[d], rejected)
  IN  /\ pc[d] = "pushing"
      /\ ~PushConflicts(snap[d], next[d])
      /\ CommitPush(snap[d], rejected)
      /\ Goto(d, "pushed")
      /\ refused' = [refused EXCEPT ![d] = rejected]
      /\ delta'   = [delta EXCEPT ![d] = PushChanges(snap[d], next[d], store)]
      /\ next'    = [next EXCEPT ![d] = PushCursor(next[d], store)]
      /\ UNCHANGED <<rows, cursor, attempt, replace, snap, late, budgetVars>>

\* A conflict starts the next attempt, with the cursor stored by now.
Retry(d) ==
  /\ pc[d] = "conflict"
  /\ attempt[d] < Retries
  /\ Goto(d, "pulling")
  /\ attempt' = [attempt EXCEPT ![d] = @ + 1]
  /\ snap'    = [snap EXCEPT ![d] = NoRequest]
  /\ next'    = [next EXCEPT ![d] = NoCursor]
  /\ UNCHANGED <<serverVars, rows, cursor, replace, delta, refused, late,
                 budgetVars>>

GiveUp(d) ==
  /\ pc[d] = "conflict"
  /\ attempt[d] >= Retries
  /\ EndRun(d)
  /\ UNCHANGED <<serverVars, rows, cursor, late, budgetVars>>

MarkRows(d) ==
  rows' = [rows EXCEPT ![d] =
    [i \in Id |-> MarkSynced(rows[d][i], snap[d][i], i \in refused[d])]]

\* The mark write commits up to three times: the marks, the interleaved
\* changes, the cursor.  A degraded answer stops it after the first.
Mark(d) ==
  /\ pc[d] = "pushed"
  /\ next[d] # NoCursor
  /\ MarkRows(d)
  /\ Goto(d, "marked")
  /\ UNCHANGED <<serverVars, cursor, attempt, replace, delta, next, snap,
                 refused, late, budgetVars>>

MarkOnly(d) ==
  /\ pc[d] = "pushed"
  /\ next[d] = NoCursor
  /\ MarkRows(d)
  /\ EndRun(d)
  /\ UNCHANGED <<serverVars, cursor, late, budgetVars>>

ApplyInterleave(d) ==
  /\ pc[d] = "marked"
  /\ Goto(d, "merged")
  /\ MergeDelta(d)
  /\ UNCHANGED <<serverVars, cursor, attempt, replace, delta, next, snap,
                 refused, late, budgetVars>>

AdoptCursor(d) ==
  /\ pc[d] = "merged"
  /\ SaveCursor(d)
  /\ EndRun(d)
  /\ UNCHANGED <<serverVars, rows, late, budgetVars>>

(***************************************************************************)
(* Faults.  A run ends wherever it stands: its transport fails, it is      *)
(* aborted, a statement of the write fails, the process dies.  What was    *)
(* committed stays.  A push already sent may still arrive.                 *)
(***************************************************************************)
Interrupt(d) ==
  /\ pc[d] # "idle"
  /\ pc[d] = "applied" /\ cursor[d] = NoCursor => FirstApplyCrash
  /\ faults < MaxFaults
  /\ faults' = faults + 1
  /\ late' = IF pc[d] = "pushing"
               THEN [late EXCEPT ![d] = [request |-> snap[d], since |-> next[d]]]
               ELSE late
  /\ EndRun(d)
  /\ UNCHANGED <<serverVars, rows, cursor, born, writes>>

\* The server cannot tell a late push from any other; nobody hears the answer.
LatePush(d, hooked) ==
  LET request == late[d].request
  IN  /\ Named(request) # {}
      /\ IF PushConflicts(request, late[d].since)
           THEN UNCHANGED serverVars
           ELSE CommitPush(request, Refused(request, hooked))
      /\ late' = [late EXCEPT ![d] = NoLate]
      /\ UNCHANGED <<rows, cursor, runVars, budgetVars>>

Retain(f) ==
  /\ Gc(f)
  /\ UNCHANGED <<rows, cursor, runVars, late, budgetVars>>

-----------------------------------------------------------------------------
LocalStep(d) ==
  \E i \in Id :
    \/ \E new \in Content : Create(d, i, new) \/ Update(d, i, new)
    \/ MarkAsDeleted(d, i)

\* What a run does on its own, with the server's answers.
RunStep(d) ==
  \/ StartRun(d) \/ ServePull(d) \/ RePull(d)
  \/ ApplyPull(d) \/ FinishApply(d)
  \/ FetchNothing(d) \/ FetchLocal(d)
  \/ PushConflict(d) \/ Retry(d) \/ GiveUp(d)
  \/ \E hooked \in SUBSET HookIds : AcceptPush(d, hooked)
  \/ Mark(d) \/ MarkOnly(d) \/ ApplyInterleave(d) \/ AdoptCursor(d)

FaultStep(d) ==
  \/ Interrupt(d)
  \/ \E hooked \in SUBSET HookIds : LatePush(d, hooked)

Next ==
  \/ \E d \in Device : LocalStep(d) \/ RunStep(d) \/ FaultStep(d)
  \/ \E f \in 1 .. rev + GcBeyond : Retain(f)

Spec == Init /\ [][Next]_vars

\* Sync keeps being triggered and the transport keeps answering: the
\* controller's interval timer restarts runs, and a run that is not
\* interrupted goes on.  Local writes, faults and pruning owe nothing.
FairSpec == Spec /\ \A d \in Device : WF_vars(RunStep(d))

-----------------------------------------------------------------------------
(***************************************************************************)
(* Properties.                                                             *)
(***************************************************************************)
RunLabels == {"idle", "pulling", "expired", "pulled", "applied", "ready",
              "pushing", "conflict", "pushed", "marked", "merged"}

Request == [Id -> LocalRow]

\* Every variable stays in its domain, and every stored or frozen row has
\* one of the shapes the record layer gives rows.
TypeOK ==
  /\ ServerTypeOK
  /\ rows    \in [Device -> [Id -> LocalRow]]
  /\ cursor  \in [Device -> Nat \cup {NoCursor}]
  /\ pc      \in [Device -> RunLabels]
  /\ attempt \in [Device -> 0 .. Retries]
  /\ replace \in [Device -> BOOLEAN]
  /\ delta   \in [Device -> [Id -> Change]]
  /\ next    \in [Device -> Nat \cup {NoCursor}]
  /\ snap    \in [Device -> Request]
  /\ refused \in [Device -> SUBSET Id]
  /\ late    \in [Device -> [request : Request, since : Nat]]
  /\ born    \in SUBSET Id
  /\ writes  \in 0 .. MaxWrites
  /\ faults  \in 0 .. MaxFaults
  /\ \A d \in Device, i \in Id :
       /\ WellFormed(rows[d][i])
       /\ WellFormed(snap[d][i])
       /\ WellFormed(late[d].request[i])

\* A clean record equals the server's row whenever the device's cursor says
\* it has seen that row and the server would still serve the cursor.  This
\* is what "synced" means to the application: no committed change of
\* another device is skipped, no deletion is missed.  It must survive every
\* order of pulls, pushes, pruning, lost answers and crashes between the
\* commits of runSynchronize's two writes.
CleanRowsAgree ==
  \A d \in Device, i \in Id :
    (/\ floor <= cursor[d]
     /\ srv[i].rev <= cursor[d]
     /\ ~IsDirty(rows[d][i])) => rows[d][i].data = srv[i].body

\* No stored cursor runs ahead of the history the server serves, so the
\* engine answers resyncRequired only for pruned history and never takes a
\* cursor it issued for a foreign one.
CursorServed == \A d \in Device : cursor[d] <= EffMax

WritesKept ==
  \A d \in Device, i \in Id :
    IsDirty(rows[d][i]) /\ ~IsDirty(rows'[d][i]) =>
      \/ rows[d][i].data \in acked[i]
      \/ delta[d][i] = Gone

\* A local write leaves the dirty set only after the server accepted exactly
\* that statement, or because a deletion of the record came back: an edit
\* made while the push is in flight, a refused record and a lost answer all
\* keep the record dirty.
NoWriteDropped == [][WritesKept]_vars

EditsKept ==
  \A d \in Device, i \in Id :
    LET old == rows[d][i]
        new == rows'[d][i]
    IN  writes' = writes =>
          /\ IsLive(old) /\ IsLive(new) =>
               \A c \in old.changed : new.data[c] = old.data[c]
          /\ old.status = "deleted" => ~IsLive(new)

\* Until the application writes it again, a locally changed column keeps the
\* local value through every merge, and a pending local delete is never
\* turned back into a live record by what a pull or an interleave carries.
LocalEditsStand == [][EditsKept]_vars

TombstonesKept ==
  \A i \in Id : IsTombstone(srv[i]) => srv'[i].body = Gone

\* The server never brings a tombstone back to life: no stale, replayed or
\* late push turns a deleted row live before retention has pruned it.
TombstonesStayDead == [][TombstonesKept]_vars

\* The server refuses the row as it stands, or a hook may for ever.
Unwelcome(d, i) ==
  /\ IsDirty(rows[d][i])
  /\ i \in HookIds \cup
       Refused([k \in Id |-> IF k = i THEN rows[d][i] ELSE Absent], {})

Converged ==
  \A d \in Device, i \in Id :
    \/ ~IsDirty(rows[d][i]) /\ rows[d][i].data = srv[i].body
    \/ Unwelcome(d, i)

\* When writes, faults and pruning have ceased (their budgets are finite),
\* sync goes on until every device holds exactly the server's live rows, with
\* nothing left to push but what the server refuses, and stays so: conflict
\* retries, resyncs and replays of lost pushes all come to an end, and a
\* refused row holds nothing else back.
EventuallyConverged == <>[]Converged

-----------------------------------------------------------------------------
(***************************************************************************)
(* Why the properties hold: the inductive invariants of the proofs.        *)
(***************************************************************************)

AnswersServed ==
  \A d \in Device :
    /\ next[d] <= EffMax
    /\ pc[d] \in {"pulled", "applied", "ready", "pushing"} => next[d] # NoCursor

ServedInv == TypeOK /\ HistoryBounded /\ CursorServed /\ AnswersServed

\* r agrees with the stored row s as far as the cursor c reaches.
Reaches(c, s)   == floor <= c /\ s.rev <= c
Agrees(c, r, s) == Reaches(c, s) /\ ~IsDirty(r) => r.data = s.body

\* What an answer not yet merged will make of r: the entry is the stored
\* body, or there is none and r agrees already or falls to the replacement.
Delivers(c, change, replacement, r, s) ==
  Reaches(c, s) =>
    \/ change # Omitted /\ change = s.body
    \/ change = Omitted /\ replacement /\ s.body = Gone
    \/ change = Omitted /\ ~replacement /\ (~IsDirty(r) => r.data = s.body)

\* Before its first cursor a device holds nothing it could lose sight of.
NothingBeforeCursor ==
  \A d \in Device :
    cursor[d] = NoCursor /\ pc[d] # "applied" =>
      \A i \in Id : rows[d][i].status # "synced"

CursorBehindAnswer ==
  \A d \in Device :
    /\ pc[d] \in {"ready", "pushing"} => next[d] = cursor[d]
    /\ pc[d] \in {"conflict", "pushed", "marked", "merged"} =>
         cursor[d] # NoCursor /\ ~replace[d]
    /\ pc[d] \in {"ready", "pushing"} => ~replace[d]
    /\ pc[d] \in {"pulled", "applied", "marked", "merged"} => cursor[d] <= next[d]
    /\ pc[d] = "pushed" =>
         cursor[d] <= next[d] \/ (next[d] = NoCursor /\ cursor[d] < floor)

AnswersDeliver ==
  \A d \in Device, i \in Id :
    /\ pc[d] \in {"pulled", "pushed", "marked"} =>
         Delivers(next[d], delta[d][i], replace[d], rows[d][i], srv[i])
    /\ pc[d] \in {"applied", "merged"} => Agrees(next[d], rows[d][i], srv[i])

\* A pushed record is dirty until the mark write, and what the server
\* accepted is what the snapshot holds.
SnapshotsStand ==
  \A d \in Device, i \in Id :
    pc[d] \in {"pushing", "pushed"} /\ IsDirty(snap[d][i]) =>
      /\ IsDirty(rows[d][i])
      /\ pc[d] = "pushed" /\ i \notin refused[d] /\ Reaches(next[d], srv[i]) =>
           srv[i].body = snap[d][i].data

\* Every answer on its way, merged or marked will leave clean rows agreeing
\* at the cursor it brings: the inductive form of CleanRowsAgree.
AgreementInv ==
  /\ UnstoredIsGone
  /\ NothingBeforeCursor
  /\ CursorBehindAnswer
  /\ CleanRowsAgree
  /\ AnswersDeliver
  /\ SnapshotsStand

=============================================================================
