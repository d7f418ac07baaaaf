------------------------------ MODULE MultiTab -------------------------------
(***************************************************************************)
(* Several tabs that share one stored database and run synchronize() on    *)
(* it, under the sync lease of the shared worker.                          *)
(*                                                                         *)
(* The lease gates the start of a run and, after the push, the write that  *)
(* marks records synced; it is not held across the run, so a run that      *)
(* outlasts it overlaps another tab's.  What then protects the database    *)
(* is the cursor, compared again inside each write, and the equality gate  *)
(* of the mark.  A write holds the broker's exclusive slot, so the writes  *)
(* of two tabs do not interleave; SyncProtocol has what a crash leaves of  *)
(* one, retention and late pushes.  The other devices are RemoteWrite.     *)
(*                                                                         *)
(* Where a run stands (pc):                                                *)
(*   idle       no run                                                     *)
(*   granted    the lease was granted, or a conflict calls for a retry     *)
(*   pulling    the cursor was read, the pull request is on its way        *)
(*   pulled     the pull answer is on its way back                         *)
(*   ready      its changes are applied                                    *)
(*   pushing    the local changes were read, the push is on its way        *)
(*   pushed     its answer is on its way back                              *)
(*   confirmed  the lease was granted again                                *)
(*   gone       the tab has died                                           *)
(***************************************************************************)
EXTENDS SyncServer

CONSTANTS
  Tabs,
  Retries,      \* attempts of one run
  MaxWrites,    \* bound on the local writes
  MaxRemote,    \* bound on the writes of other devices
  MaxExpiries,  \* bound on the leases that run out on a living holder
  MaxFaults     \* bound on failed runs and dead tabs

ASSUME TabConstants ==
  /\ Retries \in Nat \ {0}
  /\ {MaxWrites, MaxRemote, MaxExpiries, MaxFaults} \subseteq Nat

VARIABLES
  rows,      \* the stored table all tabs share
  cursor,    \* the stored cursor all tabs share
  lease,     \* the tab the broker last granted the turn, and has it run out
  pc, attempt,
  from,      \* the cursor the run read before its pull
  pulled,    \* the cursor of the pull answer
  delta,     \* the changes of the answer on its way
  next,      \* the cursor of the answer on its way
  snap,      \* the frozen dirty records that were pushed
  refused,   \* those the server refused
  taken,     \* history: the runs another tab was granted a turn in the middle of
  stale,     \* history: the ids a mark write settled for such a run, or although
             \* the cursor had moved
  writes, remote, expiries, faults

runVars == <<pc, attempt, from, pulled, delta, next, snap, refused>>
budgets == <<writes, remote, expiries, faults>>
vars == <<serverVars, rows, cursor, lease, runVars, taken, stale, budgets>>

NoRequest == [i \in Id |-> Absent]
NoTab     == "none"

Init ==
  /\ ServerInit
  /\ rows = [i \in Id |-> Absent]
  /\ cursor = NoCursor
  /\ lease = [holder |-> NoTab, expired |-> TRUE]
  /\ pc        = [t \in Tabs |-> "idle"]
  /\ attempt   = [t \in Tabs |-> 0]
  /\ from      = [t \in Tabs |-> NoCursor]
  /\ pulled    = [t \in Tabs |-> NoCursor]
  /\ delta     = [t \in Tabs |-> NoChanges]
  /\ next      = [t \in Tabs |-> NoCursor]
  /\ snap      = [t \in Tabs |-> NoRequest]
  /\ refused   = [t \in Tabs |-> {}]
  /\ taken = {} /\ stale = {}
  /\ writes = 0 /\ remote = 0 /\ expiries = 0 /\ faults = 0

(***************************************************************************)
(* Writes of the application, in whichever tab, and of other devices.      *)
(***************************************************************************)
LocalWrite(i, new) ==
  /\ writes < MaxWrites
  /\ writes' = writes + 1
  /\ rows' = [rows EXCEPT ![i] = new]
  /\ UNCHANGED <<taken, stale, serverVars, cursor, lease, runVars, remote, expiries, faults>>

Update(i, new) ==
  /\ IsLive(rows[i]) /\ new # rows[i].data
  /\ LocalWrite(i, EditRow(rows[i], new))

MarkAsDeleted(i) ==
  /\ IsLive(rows[i])
  /\ LocalWrite(i, Tombstone)

\* Ids are generated: a record is created here only if no device has it yet.
Create(i, new) ==
  /\ rows[i] = Absent /\ srv[i].rev = 0
  /\ \A t \in Tabs : snap[t][i] = Absent
  /\ LocalWrite(i, CreatedRow(new))

RemoteWrite(i, new) ==
  /\ remote < MaxRemote
  /\ remote' = remote + 1
  /\ srv[i].body \in Content /\ new # srv[i].body
  /\ srv' = [srv EXCEPT ![i] = [rev |-> rev + 1, body |-> new]]
  /\ rev' = rev + 1
  /\ UNCHANGED <<taken, stale, floor, acked, rows, cursor, lease, runVars, writes, expiries, faults>>

(***************************************************************************)
(* The lease, as syncTurn grants it: to its holder, or when it ran out.    *)
(***************************************************************************)
\* Mistake: an expired lease stays with its holder.
GrantsHolderOnly(t) == lease.holder \in {t, NoTab}

Grants(t) == lease.holder = t \/ lease.expired
Granted(t) ==
  /\ lease' = [holder |-> t, expired |-> FALSE]
  /\ taken' = taken \cup {u \in Tabs \ {t} : pc[u] \notin {"idle", "gone"}}

Alive(t) == pc[t] # "gone"

\* A dead holder renews no more; on a living one this costs a unit.
Expire ==
  /\ ~lease.expired
  /\ IF Alive(lease.holder) THEN expiries < MaxExpiries /\ expiries' = expiries + 1
                            ELSE UNCHANGED expiries
  /\ lease' = [lease EXCEPT !.expired = TRUE]
  /\ UNCHANGED <<taken, stale, serverVars, rows, cursor, runVars, writes, remote, faults>>

(***************************************************************************)
(* One run.                                                                *)
(***************************************************************************)
Goto(t, label) == pc' = [pc EXCEPT ![t] = label]

\* The run is over and leaves its variables as Init has them.
EndsAs(t, label) ==
  /\ Goto(t, label)
  /\ attempt' = [attempt EXCEPT ![t] = 0]
  /\ from'    = [from    EXCEPT ![t] = NoCursor]
  /\ pulled'  = [pulled  EXCEPT ![t] = NoCursor]
  /\ delta'   = [delta   EXCEPT ![t] = NoChanges]
  /\ next'    = [next    EXCEPT ![t] = NoCursor]
  /\ snap'    = [snap    EXCEPT ![t] = NoRequest]
  /\ refused' = [refused EXCEPT ![t] = {}]
  /\ taken'   = taken \ {t}

EndRun(t) == EndsAs(t, "idle")

\* Denied, the run is over before it began.
AskTurn(t) ==
  /\ pc[t] = "idle" /\ Grants(t)
  /\ Granted(t)
  /\ Goto(t, "granted")
  /\ attempt' = [attempt EXCEPT ![t] = 1]
  /\ UNCHANGED <<stale, serverVars, rows, cursor, from, pulled, delta, next, snap,
                 refused, budgets>>

ReadCursor(t) ==
  /\ pc[t] = "granted"
  /\ Goto(t, "pulling")
  /\ from' = [from EXCEPT ![t] = cursor]
  /\ UNCHANGED <<taken, stale, serverVars, rows, cursor, lease, attempt, pulled, delta, next,
                 snap, refused, budgets>>

ServePull(t) ==
  /\ pc[t] = "pulling"
  /\ Goto(t, "pulled")
  /\ delta'  = [delta  EXCEPT ![t] = PullChanges(from[t])]
  /\ pulled' = [pulled EXCEPT ![t] = PullCursor(from[t])]
  /\ UNCHANGED <<taken, stale, serverVars, rows, cursor, lease, attempt, from, next, snap,
                 refused, budgets>>

Merge(t) == rows' = [i \in Id |-> ApplyChange(rows[i], delta[t][i], FALSE)]

\* Mistake: the cursor is not compared again inside the write.
ApplyUnchecked(t) ==
  /\ pc[t] = "pulled"
  /\ Merge(t)
  /\ cursor' = pulled[t]
  /\ Goto(t, "ready")
  /\ delta' = [delta EXCEPT ![t] = NoChanges]
  /\ UNCHANGED <<taken, stale, serverVars, lease, attempt, from, pulled, next, snap, refused, budgets>>

\* The apply write, unless another run committed during the pull.
Apply(t) ==
  /\ pc[t] = "pulled"
  /\ cursor = from[t]
  /\ Merge(t)
  /\ cursor' = pulled[t]
  /\ Goto(t, "ready")
  /\ delta' = [delta EXCEPT ![t] = NoChanges]
  /\ UNCHANGED <<taken, stale, serverVars, lease, attempt, from, pulled, next, snap, refused, budgets>>

AbortApply(t) ==
  /\ pc[t] = "pulled"
  /\ cursor # from[t]
  /\ EndRun(t)
  /\ UNCHANGED <<stale, serverVars, rows, cursor, lease, budgets>>

Dirty == {i \in Id : IsDirty(rows[i])}

FetchNothing(t) ==
  /\ pc[t] = "ready" /\ Dirty = {}
  /\ EndRun(t)
  /\ UNCHANGED <<stale, serverVars, rows, cursor, lease, budgets>>

FetchLocal(t) ==
  /\ pc[t] = "ready" /\ Dirty # {}
  /\ Goto(t, "pushing")
  /\ snap' = [snap EXCEPT ![t] = [i \in Id |-> Frozen(rows[i])]]
  /\ UNCHANGED <<serverVars, rows, cursor, lease, taken, stale, attempt, from, pulled, delta,
                 next, refused, budgets>>

AcceptPush(t) ==
  LET rejected == Refused(snap[t], {})
      store    == StoreAfter(snap[t], rejected)
  IN  /\ pc[t] = "pushing"
      /\ ~PushConflicts(snap[t], pulled[t])
      /\ CommitPush(snap[t], rejected)
      /\ Goto(t, "pushed")
      /\ refused' = [refused EXCEPT ![t] = rejected]
      /\ delta'   = [delta EXCEPT ![t] = PushChanges(snap[t], pulled[t], store)]
      /\ next'    = [next EXCEPT ![t] = PushCursor(pulled[t], store)]
      /\ UNCHANGED <<taken, stale, rows, cursor, lease, attempt, from, pulled, snap,
                     budgets>>

\* A conflict starts the next attempt, or ends the run with an error.
PushConflict(t) ==
  /\ pc[t] = "pushing"
  /\ PushConflicts(snap[t], pulled[t])
  /\ IF attempt[t] < Retries
       THEN /\ Goto(t, "granted")
            /\ attempt' = [attempt EXCEPT ![t] = @ + 1]
            /\ snap' = [snap EXCEPT ![t] = NoRequest]
            /\ UNCHANGED <<from, pulled, delta, next, refused, taken>>
       ELSE EndRun(t)
  /\ UNCHANGED <<stale, serverVars, rows, cursor, lease, budgets>>

Confirm(t) ==
  /\ pc[t] = "pushed" /\ Grants(t)
  /\ Granted(t)
  /\ Goto(t, "confirmed")
  /\ UNCHANGED <<stale, serverVars, rows, cursor, attempt, from, pulled, delta, next,
                 snap, refused, budgets>>

\* The result says lost; the local changes stay dirty.
LoseTurn(t) ==
  /\ pc[t] = "pushed" /\ ~Grants(t)
  /\ EndRun(t)
  /\ UNCHANGED <<stale, serverVars, rows, cursor, lease, budgets>>

Marked(t) == [i \in Id |-> MarkSynced(rows[i], snap[t][i], i \in refused[t])]

\* The mark write: the marks, and the interleaved changes with their cursor
\* unless the stored cursor moved since the pull.
Mark(t) ==
  /\ pc[t] = "confirmed"
  /\ IF cursor = pulled[t]
       THEN /\ rows' = [i \in Id |-> ApplyChange(Marked(t)[i], delta[t][i], FALSE)]
            /\ cursor' = next[t]
       ELSE /\ rows' = Marked(t)
            /\ UNCHANGED cursor
  /\ stale' = IF t \in taken \/ cursor # pulled[t] THEN stale \cup Named(snap[t])
              ELSE stale
  /\ EndRun(t)
  /\ UNCHANGED <<serverVars, lease, budgets>>

\* The transport fails, or the tab dies with what it was doing.
Fail(t) ==
  /\ pc[t] # "gone" /\ faults < MaxFaults
  /\ faults' = faults + 1
  /\ \/ EndsAs(t, "gone") /\ \E u \in Tabs \ {t} : Alive(u)
     \/ EndsAs(t, "idle") /\ pc[t] # "idle"
  /\ UNCHANGED <<stale, serverVars, rows, cursor, lease, writes, remote, expiries>>

RunStep(t) ==
  \/ AskTurn(t) \/ ReadCursor(t) \/ ServePull(t)
  \/ Apply(t) \/ AbortApply(t)
  \/ FetchNothing(t) \/ FetchLocal(t)
  \/ AcceptPush(t) \/ PushConflict(t)
  \/ Confirm(t) \/ LoseTurn(t) \/ Mark(t)

Next ==
  \/ \E i \in Id : \/ MarkAsDeleted(i)
                   \/ \E new \in Content : Create(i, new) \/ Update(i, new)
                   \/ \E new \in Body : RemoteWrite(i, new)
  \/ \E t \in Tabs : RunStep(t) \/ Fail(t)
  \/ Expire

Spec == Init /\ [][Next]_vars

\* Every tab that lives goes on asking and, granted, runs; time passes, so the
\* lease of a tab that died runs out.
FairSpec ==
  /\ Spec
  /\ \A t \in Tabs : WF_vars(RunStep(t))
  /\ WF_vars(lease.holder # NoTab /\ ~Alive(lease.holder) /\ Expire)

(***************************************************************************)
(* Properties.                                                             *)
(***************************************************************************)
Labels == {"idle", "granted", "pulling", "pulled", "ready", "pushing", "pushed",
           "confirmed", "gone"}

\* The types.
TypeOK ==
  /\ ServerTypeOK
  /\ \A i \in Id : WellFormed(rows[i])
  /\ cursor \in Nat \cup {NoCursor}
  /\ lease \in [holder : Tabs \cup {NoTab}, expired : BOOLEAN]
  /\ pc \in [Tabs -> Labels]
  /\ attempt \in [Tabs -> 0 .. Retries]
  /\ taken \in SUBSET Tabs /\ stale \in SUBSET Id

Agrees(i) ==
  srv[i].rev <= cursor /\ ~IsDirty(rows[i]) => rows[i].data = srv[i].body

\* A clean record the stored cursor has reached equals the server's, whatever
\* runs overlap: no apply, no skipped adoption and no lost turn makes a tab
\* lose a change of another device or of another tab.  The one thing that
\* does is a mark behind a cursor that moved, and it is excepted.
CleanRowsAgree == TypeOK /\ \A i \in Id \ stale : Agrees(i)

WritesKept ==
  \A i \in Id : IsDirty(rows[i]) /\ ~IsDirty(rows'[i]) =>
    \/ rows[i].data \in acked[i]
    \/ \E t \in Tabs : pc'[t] # pc[t] /\ delta[t][i] = Gone

\* Whatever runs overlap, expire or die, a record leaves the dirty set only
\* when the server accepted exactly its content, or when a deletion of it came
\* back: no tab marks what it did not push as it stands, and no edit made in
\* one tab while another pushes is lost.
NoWriteDropped == [][WritesKept]_vars

\* What docs/multi-tab.md says of a run that outlasts its lease: "the cost is
\* a conflict retry, not corruption".
NoCorruption == \A i \in Id : Agrees(i)

\* The lease heals itself: when the application stops writing, the tabs that
\* are left get everything synced, though the tab that held the lease died and
\* never gave it back.
SyncedInTheEnd ==
  <>[](Dirty = {} /\ \A i \in Id \ stale : rows[i].data = srv[i].body)

(***************************************************************************)
(* Why clean rows agree: MultiTab_proofs shows that Inv is inductive.      *)
(***************************************************************************)
Active(t) == pc[t] \notin {"idle", "gone"}

Applied  == {"ready", "pushing", "pushed", "confirmed"}
Answered == {"pushed", "confirmed"}

\* The types of what a run holds.
RunsTyped ==
  /\ rows \in [Id -> LocalRow]
  /\ {from, pulled, next} \subseteq [Tabs -> Nat \cup {NoCursor}]
  /\ delta \in [Tabs -> [Id -> Change]]
  /\ snap \in [Tabs -> [Id -> LocalRow]]
  /\ \A t \in Tabs, i \in Id : WellFormed(snap[t][i])
  /\ refused \in [Tabs -> SUBSET Id]

\* Nothing is pruned here, and the server's rows stay within its history.
ServerStands == floor = 0 /\ HistoryBounded /\ UnstoredIsGone

\* The stored cursor only rises, so that one compared equal says that nothing
\* was adopted in between.
CursorFits(t) ==
  /\ pc[t] \in {"pulling", "pulled"} => from[t] <= cursor
  /\ pc[t] = "pulled" =>
       0 <= pulled[t] /\ from[t] <= pulled[t] /\ pulled[t] <= EffMax
  /\ pc[t] \in Applied => 0 <= pulled[t] /\ pulled[t] <= cursor
  /\ pc[t] \in Answered => pulled[t] <= next[t] /\ next[t] <= EffMax

\* Before the first apply only local writes made records.
NothingBeforeCursor ==
  cursor = NoCursor => \A i \in Id : IsDirty(rows[i]) \/ rows[i].data = Gone

\* A pull answer carries every row that its cursor reaches beyond the cursor
\* it was asked with, unless somebody wrote the row again.
PullDelivers(t) ==
  pc[t] = "pulled" => \A i \in Id :
    /\ srv[i].rev <= pulled[t] =>
         IF delta[t][i] = Omitted THEN srv[i].rev = 0 \/ srv[i].rev <= from[t]
                                  ELSE delta[t][i] = srv[i].body
    /\ delta[t][i] # Omitted => from[t] < pulled[t]

\* So does a push answer, but for the ids of its request, which the server
\* holds as they were pushed.
PushDelivers(t) ==
  pc[t] \in Answered => \A i \in Id :
    /\ srv[i].rev <= next[t] =>
         /\ IF delta[t][i] = Omitted
              THEN i \in Named(snap[t]) \/ srv[i].rev <= pulled[t]
              ELSE delta[t][i] = srv[i].body
         /\ i \in Named(snap[t]) \ refused[t] => srv[i].body = snap[t][i].data
    /\ delta[t][i] # Omitted => pulled[t] < next[t]

\* What a push answer does not refuse was accepted.
PushAcked(t) ==
  pc[t] \in Answered =>
    \A i \in Named(snap[t]) \ refused[t] : snap[t][i].data \in acked[i]

RunFits(t) == CursorFits(t) /\ PullDelivers(t) /\ PushDelivers(t) /\ PushAcked(t)

\* Of two runs under way, one asked or was confirmed during the other.
RunsOverlap ==
  \A t, u \in Tabs : t # u /\ Active(t) /\ Active(u) => t \in taken \/ u \in taken

\* A run that nobody overtook finds what it pushed still dirty.
PushedStaysDirty(t) ==
  pc[t] \in {"pushing"} \cup Answered /\ t \notin taken /\ cursor = pulled[t] =>
    \A i \in Named(snap[t]) \ stale : IsDirty(rows[i])

Inv ==
  /\ CleanRowsAgree
  /\ RunsTyped /\ ServerStands
  /\ cursor <= EffMax /\ NothingBeforeCursor
  /\ \A t \in Tabs : RunFits(t) /\ PushedStaysDirty(t)
  /\ RunsOverlap
=============================================================================
