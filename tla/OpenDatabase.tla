---------------------------- MODULE OpenDatabase -----------------------------
(***************************************************************************)
(* Opening one stored database from several tabs: the tab lock and its     *)
(* steal, the OPFS pool only one worker at a time can hold, and the setup, *)
(* the migration or the refusal Database.open decides on.                  *)
(*                                                                         *)
(* With the dedicated owner each tab has a worker of its own, and the lock *)
(* and the pool keep the tabs apart; with the shared owner one worker      *)
(* serves all of them (Broker has how it does) and their requests          *)
(* interleave.  A request is one step, when the worker runs it; a tab that *)
(* is cut off before its answer is cut off at the next label.              *)
(*                                                                         *)
(* What is stored is the version stamp and the steps that were run: step 1 *)
(* is the first schema, step v the migration to v.  Each is taken to have  *)
(* a statement that fails when it is repeated, as create table and alter   *)
(* table do, so that its batch rolls back.                                 *)
(*                                                                         *)
(* Where a tab stands (pc):                                                *)
(*   idle       its driver is closed                                       *)
(*   opening    the open request is with the worker, or tried again        *)
(*   rejected   the driver gave up opening; it keeps the worker it started *)
(*   setup, recheck, migrate, stamp   the next request of Database.open    *)
(*   ready      Database.open resolved                                     *)
(*   failed     it rejected, and its driver was left open                  *)
(*   gone       the tab has died                                           *)
(***************************************************************************)
EXTENDS Integers, FiniteSets

CONSTANTS
  Tabs,
  Latest,     \* the newest schema version an app has
  Oldest,     \* the version its migrations start from (minVersion)
  Attempts,   \* how often the driver asks a coordinated open again
  MaxDeaths,  \* bound on the tabs that die
  MaxOpens    \* bound on the calls of Database.open

ASSUME OpenConstants ==
  /\ {Latest, Oldest, Attempts} \subseteq Nat \ {0}
  /\ {MaxDeaths, MaxOpens} \subseteq Nat

VARIABLES
  shared,    \* whether the tabs share one owner
  app,       \* the schema version of the app in each tab
  takes,     \* the tabs that open with takeover: true
  disk,      \* the database file
  lock,      \* the tab lock
  told,      \* the tabs whose lock was stolen and who have yet to hear of it
  pool,      \* the worker that holds the pool: a tab's, or a dead one's
  served,    \* the tabs whose worker has the database open
  pc, attempts,
  seen,      \* the version the driver reported to each tab
  torn,      \* history: a tab was cut off between a migration and its stamp
  deaths, openings

env  == <<shared, app, takes>>
vars == <<env, disk, lock, told, pool, served, pc, attempts, seen,
          torn, deaths, openings>>

NoTab == "none"
Ghost == "dead worker"
ASSUME OwnerNames == {NoTab, Ghost} \cap Tabs = {}

Versions == 1 .. Latest
NoFile == [version |-> 0, steps |-> {}]

Upto(v) == {s \in Versions : s <= v}

\* What a device can hold: nothing, or what some app left.
Init ==
  /\ shared \in BOOLEAN
  /\ app \in [Tabs -> Versions]
  /\ takes \in SUBSET Tabs
  /\ disk \in {[version |-> v, steps |-> Upto(v)] : v \in 0 .. Latest}
  /\ lock = NoTab /\ told = {} /\ pool = NoTab /\ served = {}
  /\ pc = [t \in Tabs |-> "idle"]
  /\ attempts = [t \in Tabs |-> 0]
  /\ seen = [t \in Tabs |-> 0]
  /\ torn = FALSE
  /\ deaths = 0 /\ openings = 0

Goto(t, label) == pc' = [pc EXCEPT ![t] = label]

(***************************************************************************)
(* The driver: the tab lock, the open request and its retries.             *)
(***************************************************************************)
\* Taken if it is free, stolen with takeover; a tab that is refused the lock
\* stays as it was.
AcquireTabLock(t) ==
  /\ lock = NoTab \/ t \in takes
  /\ lock' = t
  /\ told' = told \cup ({lock} \ {NoTab, t})

DriverOpen(t) ==
  /\ pc[t] \in {"idle", "rejected"} /\ openings < MaxOpens
  /\ openings' = openings + 1
  /\ Goto(t, "opening")
  /\ IF shared THEN UNCHANGED <<lock, told>> ELSE AcquireTabLock(t)
  /\ attempts' = [attempts EXCEPT ![t] = IF shared THEN 1 ELSE Attempts]
  /\ UNCHANGED <<env, disk, pool, served, seen, torn, deaths>>

\* Resolving the lock's promise gives it back, unless it was stolen.
LockWithout(t) == IF lock = t THEN NoTab ELSE lock

\* Mistake: the worker is left running.
PoolKept(t) == pool

\* A terminated worker leaves its handles to the browser.
PoolWithout(t) == IF pool = t THEN Ghost ELSE pool

\* The handles of the pool are another worker's.
PoolBusy(t) == pool \notin {NoTab, t}

\* What the worker is left with by an open that fails: what it had, the pool
\* without the database, or both, since the version is read last.
Leaves(t) ==
  {<<pool, served>>} \cup
    IF shared \/ t \in served \/ PoolBusy(t) THEN {}
    ELSE {<<t, served>>, <<t, served \cup {t}>>}

\* The driver asks again after any error.  In the end it gives up and gives the
\* lock back, with its worker running and what that has taken.
DriverOpenFails(t) ==
  /\ pc[t] = "opening"
  /\ \E left \in Leaves(t) : pool' = left[1] /\ served' = left[2]
  /\ attempts' = [attempts EXCEPT ![t] = @ - 1]
  /\ IF attempts[t] > 1
       THEN UNCHANGED <<lock, told, pc>>
       ELSE /\ lock' = LockWithout(t)
            /\ told' = told \ {t}
            /\ Goto(t, "rejected")
  /\ UNCHANGED <<env, disk, seen, torn, deaths, openings>>

\* A tab's driver is closed and its worker, if it has one of its own, ends.
DriverGone(t, label) ==
  /\ Goto(t, label)
  /\ pool' = PoolWithout(t)
  /\ served' = served \ {t}
  /\ attempts' = [attempts EXCEPT ![t] = 0]
  /\ seen' = [seen EXCEPT ![t] = 0]

\* Mistake: the requests in flight are not rejected.
TakenOverQuietly(t) ==
  /\ t \in told
  /\ told' = told \ {t}
  /\ pool' = PoolWithout(t)
  /\ served' = served \ {t}
  /\ UNCHANGED <<env, disk, lock, pc, attempts, seen, torn, deaths, openings>>

\* The lock was stolen: the worker is terminated and every request in flight
\* is rejected.
HandleTakenOver(t) ==
  /\ t \in told
  /\ told' = told \ {t}
  /\ DriverGone(t, "idle")
  /\ torn' = (torn \/ pc[t] = "stamp")
  /\ UNCHANGED <<env, disk, lock, deaths, openings>>

\* The browser frees the handles of a dead worker, in its own time.
FreeHandles ==
  /\ pool = Ghost
  /\ pool' = NoTab
  /\ UNCHANGED <<env, disk, lock, told, served, pc, attempts, seen, torn, deaths, openings>>

(***************************************************************************)
(* Database.open.                                                          *)
(***************************************************************************)
\* Whether the migrations cover the way from v.
HasPath(v, to) == v < to /\ v >= Oldest

\* What is next, by the version the driver reported.
Decided(v, to) ==
  CASE v = 0          -> "setup"
    [] HasPath(v, to) -> "migrate"
    [] v = to         -> "ready"
    [] OTHER          -> "failed"

\* Mistake: the pool is not waited for.
ServeOpenAtOnce(t) ==
  /\ pc[t] = "opening"
  /\ pool' = IF shared THEN pool ELSE t
  /\ served' = served \cup {t}
  /\ seen' = [seen EXCEPT ![t] = disk.version]
  /\ Goto(t, Decided(disk.version, app[t]))
  /\ attempts' = [attempts EXCEPT ![t] = 0]
  /\ UNCHANGED <<env, disk, lock, told, torn, deaths, openings>>

\* Mistake: a database no migration leads from is made anew.
ServeOpenAfresh(t) ==
  LET keep == disk.version = app[t] \/ HasPath(disk.version, app[t])
  IN  /\ pc[t] = "opening"
      /\ shared \/ ~PoolBusy(t)
      /\ pool' = IF shared THEN pool ELSE t
      /\ served' = served \cup {t}
      /\ disk' = IF keep THEN disk ELSE NoFile
      /\ seen' = [seen EXCEPT ![t] = disk'.version]
      /\ Goto(t, Decided(disk'.version, app[t]))
      /\ attempts' = [attempts EXCEPT ![t] = 0]
      /\ UNCHANGED <<env, lock, told, torn, deaths, openings>>

\* The worker opens the database, its pool first, and reports the version,
\* unless an open that failed left it open; a shared owner that has it open
\* reports the version it has now.
ServeOpen(t) ==
  /\ pc[t] = "opening" /\ t \notin served
  /\ shared \/ ~PoolBusy(t)
  /\ pool' = IF shared THEN pool ELSE t
  /\ served' = served \cup {t}
  /\ seen' = [seen EXCEPT ![t] = disk.version]
  /\ Goto(t, Decided(disk.version, app[t]))
  /\ attempts' = [attempts EXCEPT ![t] = 0]
  /\ UNCHANGED <<env, disk, lock, told, torn, deaths, openings>>

\* A statement fails if its step was run: the batch then rolls back.
Runs(steps) == disk.steps \cap steps = {}

\* The statements of the migrations from the version this tab was told of.
StepsFrom(t) == Upto(app[t]) \ Upto(seen[t])

\* The schema and its stamp are one batch.
Setup(t) ==
  /\ pc[t] = "setup" /\ t \in served
  /\ IF Runs(Upto(app[t]))
       THEN /\ disk' = [version |-> app[t], steps |-> Upto(app[t])]
            /\ Goto(t, "ready")
       ELSE /\ Goto(t, "recheck")
            /\ UNCHANGED disk
  /\ UNCHANGED <<env, lock, told, pool, served, attempts, seen, torn, deaths, openings>>

\* Another tab's setup explains the collision, or it does not.
Recheck(t) ==
  /\ pc[t] = "recheck" /\ t \in served
  /\ Goto(t, IF disk.version = app[t] THEN "ready" ELSE "failed")
  /\ UNCHANGED <<env, disk, lock, told, pool, served, attempts, seen, torn, deaths, openings>>

\* A migration that collides is an error, whoever ran it before.
Migrate(t) ==
  /\ pc[t] = "migrate" /\ t \in served
  /\ IF Runs(StepsFrom(t))
       THEN /\ disk' = [disk EXCEPT !.steps = @ \cup StepsFrom(t)]
            /\ Goto(t, "stamp")
       ELSE /\ Goto(t, "failed")
            /\ UNCHANGED disk
  /\ UNCHANGED <<env, lock, told, pool, served, attempts, seen, torn, deaths, openings>>

\* Its stamp is a request of its own.
Stamp(t) ==
  /\ pc[t] = "stamp" /\ t \in served
  /\ disk' = [disk EXCEPT !.version = app[t]]
  /\ Goto(t, "ready")
  /\ UNCHANGED <<env, lock, told, pool, served, attempts, seen, torn, deaths, openings>>

\* A statement fails for a reason of its own, such as a full disk.
StatementFails(t) ==
  /\ pc[t] \in {"setup", "recheck", "migrate", "stamp"} /\ t \in served
  /\ Goto(t, IF pc[t] = "setup" THEN "recheck" ELSE "failed")
  /\ torn' = (torn \/ pc[t] = "stamp")
  /\ UNCHANGED <<env, disk, lock, told, pool, served, attempts, seen, deaths, openings>>

(***************************************************************************)
(* The end of a driver: close, destroy, and the death of its tab.          *)
(***************************************************************************)
Opened == {"setup", "recheck", "migrate", "stamp", "ready", "failed"}

\* The driver of a failed open is the application's to close.  A driver that
\* has closed does not hear that its lock was stolen.
Close(t) ==
  /\ pc[t] \in {"ready", "failed", "rejected"}
  /\ DriverGone(t, "idle")
  /\ lock' = LockWithout(t)
  /\ told' = told \ {t}
  /\ UNCHANGED <<env, disk, torn, deaths, openings>>

\* The file goes; a shared owner tells its other holders.  One that is joining
\* at that moment is Broker's.
Destroy(t) ==
  LET others == {u \in Tabs \ {t} : shared /\ pc[u] \in Opened}
      closed == others \cup {t}
  IN  /\ pc[t] \in {"ready", "failed"}
      /\ shared => \A u \in Tabs : pc[u] # "opening"
      /\ disk' = NoFile /\ torn' = FALSE
      /\ pc' = [u \in Tabs |-> IF u \in closed THEN "idle" ELSE pc[u]]
      /\ seen' = [u \in Tabs |-> IF u \in closed THEN 0 ELSE seen[u]]
      /\ served' = served \ closed
      /\ pool' = PoolWithout(t)
      /\ lock' = LockWithout(t)
      /\ told' = told \ {t}
      /\ UNCHANGED <<env, attempts, deaths, openings>>

TabDies(t) ==
  /\ pc[t] # "gone" /\ deaths < MaxDeaths
  /\ deaths' = deaths + 1
  /\ DriverGone(t, "gone")
  /\ lock' = LockWithout(t)
  /\ told' = told \ {t}
  /\ torn' = (torn \/ pc[t] = "stamp")
  /\ UNCHANGED <<env, disk, openings>>

OpenStep(t) ==
  \/ DriverOpenFails(t) \/ ServeOpen(t)
  \/ Setup(t) \/ Recheck(t) \/ Migrate(t) \/ Stamp(t) \/ StatementFails(t)

Next ==
  \/ \E t \in Tabs : \/ DriverOpen(t) \/ OpenStep(t) \/ HandleTakenOver(t)
                    \/ Close(t) \/ Destroy(t) \/ TabDies(t)
  \/ FreeHandles

Spec == Init /\ [][Next]_vars

\* Workers answer, and the browser tells a tab of its lost lock and frees the
\* handles of a dead worker.
FairSpec ==
  /\ Spec
  /\ \A t \in Tabs : WF_vars(OpenStep(t)) /\ WF_vars(HandleTakenOver(t))
  /\ WF_vars(FreeHandles)

(***************************************************************************)
(* Properties.                                                             *)
(***************************************************************************)
\* The types.
TypeOK ==
  /\ shared \in BOOLEAN /\ app \in [Tabs -> Versions] /\ takes \subseteq Tabs
  /\ disk \in [version : 0 .. Latest, steps : SUBSET Versions]
  /\ lock \in Tabs \cup {NoTab} /\ told \subseteq Tabs
  /\ pool \in Tabs \cup {NoTab, Ghost} /\ served \subseteq Tabs
  /\ pc \in [Tabs -> Opened \cup {"idle", "opening", "rejected", "gone"}]
  /\ attempts \in [Tabs -> 0 .. Attempts] /\ seen \in [Tabs -> 0 .. Latest]

\* With a dedicated owner, storage follows the lock: a worker that holds the
\* pool belongs to the tab that holds the lock or is about to be taken over,
\* whatever opens, steals and deaths came before.  The exception is a driver
\* that gave up opening after its worker took the pool: it keeps it (see
\* LockBringsPool).
PoolFollowsLock ==
  /\ TypeOK
  /\ ~shared /\ pool \in Tabs =>
       lock = pool \/ pool \in told \/ pc[pool] = "rejected"

\* Without that exception, what worker and driver say of takeover (server.ts,
\* installPool: "open with { takeover: true } to take it over"): who has the
\* lock is not kept from the pool by a tab that is not to be told.  It fails.
LockBringsPool == ~shared /\ pool \in Tabs => lock = pool \/ pool \in told

\* What is stored can be opened again: between two opens the stamp names
\* exactly the steps that were run, whichever tabs raced to set it up or to
\* migrate it and wherever they were cut off.  The one exception is a tab cut
\* off between its migration and the stamp.
StampMatchesSteps ==
  ~torn /\ (\A t \in Tabs : pc[t] # "stamp") => disk.steps = Upto(disk.version)

\* A database the application holds has its schema on disk: nobody downgrades
\* or destroys it under an open Database, and nobody migrates it there but a
\* newer app that shares the owner (applyExternalChanges reckons with one), whose
\* steps are then on top of its own.  With a dedicated owner the version is its
\* own, though a tab with a newer app steals it and the loser hears of it late.
ReadyAtItsVersion ==
  /\ StampMatchesSteps
  /\ \A t \in Tabs : pc[t] = "ready" =>
       /\ t \in served /\ Upto(app[t]) \subseteq disk.steps
       /\ \/ disk.version = app[t]
          \/ shared /\ \E u \in Tabs : app[t] < app[u] /\ app[u] = disk.version

\* Nothing but destroy() takes away what is stored: a missing migration path,
\* a downgrade and a lost race refuse, and never reset.
NoSilentReset ==
  [][\/ disk.version <= disk'.version /\ disk.steps \subseteq disk'.steps
     \/ \E t \in Tabs : Destroy(t)]_vars

\* Every Database.open is settled: it resolves or rejects, though its lock is
\* stolen, its storage is held by a dying worker, its requests fail or it loses
\* every race.
OpenSettles ==
  \A t \in Tabs : pc[t] \in {"opening", "setup", "recheck", "migrate", "stamp"}
                    ~> pc[t] \in {"ready", "failed", "rejected", "idle", "gone"}
=============================================================================
