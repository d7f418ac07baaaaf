---------------------------- MODULE Lifecycle_proofs ---------------------------
(***************************************************************************)
(* What comes before and after the work of a database.                     *)
(*                                                                         *)
(* Opening one (OpenDatabase), for any number of tabs, versions, opens and *)
(* deaths: storage follows the lock, an open database has its version, and *)
(* nothing resets what is stored.                                          *)
(*                                                                         *)
(* When it syncs (SyncController), for any number of calls and triggers:   *)
(* every call is covered by a run that began after it, and disposal aborts *)
(* the run in flight.                                                      *)
(*                                                                         *)
(* Whose it is (Session), for any number of users, sessions, retries,      *)
(* closes and takeovers: one file at a time, and a live database.          *)
(***************************************************************************)
EXTENDS OpenDatabase, SyncController, Session, FiniteSetTheorems, TLAPS

(***************************************************************************)
(* Opening a database.                                                     *)
(***************************************************************************)

\* A tab that is told its version has the database open in its worker.  With an
\* owner of its own, that worker is the one with the pool, which is left only
\* with a driver that gave up opening; an open or opening tab has the lock or is
\* about to hear it lost it.
HolderOK(t) ==
  /\ pc[t] \in Opened => t \in served
  /\ t \in served => \/ pc[t] \in Opened
                     \/ ~shared /\ pc[t] \in {"opening", "rejected"}
  /\ ~shared /\ t \in served => pool = t
  /\ ~shared /\ pool = t => pc[t] \in Opened \cup {"opening", "rejected"}
  /\ ~shared /\ pc[t] \notin {"idle", "gone", "rejected"} => lock = t \/ t \in told
  /\ pc[t] = "opening" => attempts[t] >= 1

Holders == \A t \in Tabs : HolderOK(t)

\* The steps up to the stamp were run, and none without a stamp.
OnDisk ==
  /\ Upto(disk.version) \subseteq disk.steps
  /\ disk.version = 0 => disk.steps = {}
  /\ ~torn /\ (\A t \in Tabs : pc[t] # "stamp") => disk.steps = Upto(disk.version)

OneStamps == \A t, u \in Tabs : pc[t] = "stamp" /\ pc[u] = "stamp" => t = u

\* Who migrates is behind its own version; who is about to stamp has run every
\* step up to it, from a stamp that was behind.
TabOK(t) ==
  /\ pc[t] \in Opened => seen[t] <= disk.version
  /\ pc[t] \in {"migrate", "stamp"} => 0 < seen[t] /\ seen[t] < app[t]
  /\ pc[t] = "stamp" => /\ disk.version < app[t]
                        /\ Upto(app[t]) \subseteq disk.steps
                        /\ ~torn => disk.steps = Upto(app[t])
  /\ pc[t] = "ready" => /\ app[t] <= disk.version
                        /\ \/ disk.version = app[t]
                           \/ shared /\ \E u \in Tabs : app[u] = disk.version

Stored == OnDisk /\ OneStamps /\ \A t \in Tabs : TabOK(t)

IInv == TypeOK /\ Holders /\ Stored

LEMMA DecidedLabel ==
  ASSUME NEW v, NEW to
  PROVE  Decided(v, to) \in {"setup", "migrate", "ready", "failed"}
BY DEF Decided

\* Every step keeps the types.  A failed open counts down because an open in
\* flight has an attempt left.
LEMMA TypeStep == TypeOK /\ Holders /\ [Next]_vars => TypeOK'
<1> SUFFICES ASSUME TypeOK, Holders, [Next]_vars PROVE TypeOK'
  OBVIOUS
<1> USE OpenConstants
<1>1. ASSUME NEW t \in Tabs, DriverOpen(t) PROVE TypeOK'
  BY <1>1 DEF DriverOpen, AcquireTabLock, TypeOK, Goto, env, Opened
<1>2. ASSUME NEW t \in Tabs, DriverOpenFails(t) PROVE TypeOK'
  <2>1. attempts[t] - 1 \in 0 .. Attempts
    BY <1>2 DEF DriverOpenFails, Holders, HolderOK, TypeOK
  <2>2. pool' \in Tabs \cup {NoTab, Ghost} /\ served' \subseteq Tabs
    BY <1>2 DEF DriverOpenFails, Leaves, TypeOK
  <2>3. attempts' \in [Tabs -> 0 .. Attempts]
    BY <1>2, <2>1 DEF DriverOpenFails, TypeOK
  <2>4. /\ lock' \in Tabs \cup {NoTab} /\ told' \subseteq Tabs
        /\ pc' \in [Tabs -> Opened \cup {"idle", "opening", "rejected", "gone"}]
        /\ UNCHANGED <<env, disk, seen, torn, deaths, openings>>
    BY <1>2 DEF DriverOpenFails, LockWithout, TypeOK, Goto
  <2> QED
    BY <2>2, <2>3, <2>4 DEF TypeOK, env
<1>3. ASSUME NEW t \in Tabs, ServeOpen(t) PROVE TypeOK'
  BY <1>3, DecidedLabel DEF ServeOpen, TypeOK, Goto, env, Opened
<1>4. ASSUME NEW t \in Tabs, Setup(t) PROVE TypeOK'
  BY <1>4 DEF Setup, Upto, Versions, TypeOK, Goto, env, Opened
<1>5. ASSUME NEW t \in Tabs, Recheck(t) PROVE TypeOK'
  BY <1>5 DEF Recheck, TypeOK, Goto, env, Opened
<1>6. ASSUME NEW t \in Tabs, Migrate(t) PROVE TypeOK'
  BY <1>6 DEF Migrate, StepsFrom, Upto, Versions, TypeOK, Goto, env, Opened
<1>7. ASSUME NEW t \in Tabs, Stamp(t) PROVE TypeOK'
  BY <1>7 DEF Stamp, Versions, TypeOK, Goto, env, Opened
<1>8. ASSUME NEW t \in Tabs, StatementFails(t) PROVE TypeOK'
  BY <1>8 DEF StatementFails, TypeOK, Goto, env, Opened
<1>9. ASSUME NEW t \in Tabs, HandleTakenOver(t) PROVE TypeOK'
  BY <1>9 DEF HandleTakenOver, DriverGone, PoolWithout, TypeOK, Goto, env, Opened
<1>10. ASSUME NEW t \in Tabs, Close(t) PROVE TypeOK'
  BY <1>10 DEF Close, DriverGone, PoolWithout, LockWithout, TypeOK, Goto, env, Opened
<1>11. ASSUME NEW t \in Tabs, Destroy(t) PROVE TypeOK'
  BY <1>11 DEF Destroy, NoFile, PoolWithout, LockWithout, TypeOK, env, Opened
<1>12. ASSUME NEW t \in Tabs, TabDies(t) PROVE TypeOK'
  BY <1>12 DEF TabDies, DriverGone, PoolWithout, LockWithout, TypeOK, Goto, env, Opened
<1>13. CASE FreeHandles
  BY <1>13 DEF FreeHandles, TypeOK, env
<1>14. CASE UNCHANGED vars
  BY <1>14 DEF vars, env, TypeOK
<1> QED
  BY <1>1, <1>2, <1>3, <1>4, <1>5, <1>6, <1>7, <1>8, <1>9, <1>10, <1>11, <1>12,
     <1>13, <1>14 DEF Next, OpenStep

\* Every step keeps the tabs apart.
LEMMA HoldersStep == TypeOK /\ Holders /\ [Next]_vars => Holders'
<1> SUFFICES ASSUME TypeOK, Holders, [Next]_vars, NEW u \in Tabs PROVE HolderOK(u)'
  BY DEF Holders
<1> USE OpenConstants, OwnerNames
<1>0. \A x \in Tabs : HolderOK(x)
  BY DEF Holders
<1>1. ASSUME NEW t \in Tabs, DriverOpen(t) PROVE HolderOK(u)'
  BY <1>0, <1>1 DEF HolderOK, DriverOpen, AcquireTabLock, TypeOK, Goto, env, Opened
<1>2. ASSUME NEW t \in Tabs, DriverOpenFails(t) PROVE HolderOK(u)'
  <2>1. /\ pc[t] = "opening" /\ shared' = shared
        /\ \/ pool' = pool /\ served' = served
           \/ ~shared /\ ~PoolBusy(t) /\ pool' = t /\ served' \in {served, served \cup {t}}
    BY <1>2 DEF DriverOpenFails, Leaves, env
  <2>2. /\ attempts' = [attempts EXCEPT ![t] = @ - 1]
        /\ \/ attempts[t] > 1 /\ UNCHANGED <<lock, told, pc>>
           \/ lock' = LockWithout(t) /\ told' = told \ {t} /\ pc'[t] = "rejected"
        /\ \A x \in Tabs \ {t} : pc'[x] = pc[x]
    BY <1>2 DEF DriverOpenFails, TypeOK, Goto
  <2>3. CASE u = t
    BY <1>0, <2>1, <2>2, <2>3 DEF HolderOK, LockWithout, PoolBusy, TypeOK, Opened
  <2>4. CASE u # t
    BY <1>0, <2>1, <2>2, <2>4 DEF HolderOK, LockWithout, PoolBusy, TypeOK, Opened
  <2> QED
    BY <2>3, <2>4
<1>3. ASSUME NEW t \in Tabs, ServeOpen(t) PROVE HolderOK(u)'
  BY <1>0, <1>3, DecidedLabel DEF HolderOK, ServeOpen, PoolBusy, TypeOK, Goto, env, Opened
<1>4. ASSUME NEW t \in Tabs,
             Setup(t) \/ Recheck(t) \/ Migrate(t) \/ Stamp(t) \/ StatementFails(t)
      PROVE  HolderOK(u)'
  BY <1>0, <1>4
     DEF HolderOK, Setup, Recheck, Migrate, Stamp, StatementFails, TypeOK, Goto, env, Opened
<1>5. ASSUME NEW t \in Tabs, HandleTakenOver(t) PROVE HolderOK(u)'
  BY <1>0, <1>5 DEF HolderOK, HandleTakenOver, DriverGone, PoolWithout, TypeOK, Goto, env, Opened
<1>6. ASSUME NEW t \in Tabs, Close(t) PROVE HolderOK(u)'
  BY <1>0, <1>6 DEF HolderOK, Close, DriverGone, PoolWithout, LockWithout, TypeOK, Goto, env, Opened
<1>7. ASSUME NEW t \in Tabs, Destroy(t) PROVE HolderOK(u)'
  BY <1>0, <1>7 DEF HolderOK, Destroy, PoolWithout, LockWithout, TypeOK, env, Opened
<1>8. ASSUME NEW t \in Tabs, TabDies(t) PROVE HolderOK(u)'
  BY <1>0, <1>8 DEF HolderOK, TabDies, DriverGone, PoolWithout, LockWithout, TypeOK, Goto, env, Opened
<1>9. CASE FreeHandles
  BY <1>0, <1>9 DEF HolderOK, FreeHandles, TypeOK, env
<1>10. CASE UNCHANGED vars
  BY <1>0, <1>10 DEF HolderOK, vars, env
<1> QED
  BY <1>1, <1>2, <1>3, <1>4, <1>5, <1>6, <1>7, <1>8, <1>9, <1>10 DEF Next, OpenStep

\* What the version leads to.
LEMMA DecidedBy ==
  ASSUME NEW v \in Nat, NEW to \in Nat
  PROVE  /\ Decided(v, to) = "migrate" => v # 0 /\ v < to
         /\ Decided(v, to) = "ready" => v = to
         /\ Decided(v, to) # "stamp"
BY OpenConstants DEF Decided, HasPath

\* Two tabs that know their version at once share their owner.
LEMMA OpenTogether ==
  ASSUME Holders, NEW t \in Tabs, NEW u \in Tabs,
         pc[t] \in Opened, pc[u] \in Opened, t # u
  PROVE  shared
BY DEF Holders, HolderOK

\* A schema is set up where nothing was, and so where nobody knows of a version.
LEMMA SetupOnNothing ==
  ASSUME TypeOK, OnDisk, NEW t \in Tabs, Runs(Upto(app[t]))
  PROVE  disk.version = 0
<1>1. 1 \in Upto(app[t])
  BY OpenConstants DEF TypeOK, Versions, Upto
<1>2. 1 \notin Upto(disk.version)
  BY <1>1 DEF Runs, OnDisk
<1> QED
  BY <1>2, OpenConstants DEF TypeOK, Versions, Upto

\* A migration that does not collide starts where the stamp is, and ends with
\* every step up to its target.
LEMMA MigratesFromStamp ==
  ASSUME TypeOK, OnDisk, NEW t \in Tabs, seen[t] < app[t],
         seen[t] <= disk.version, Runs(StepsFrom(t))
  PROVE  /\ disk.version = seen[t]
         /\ Upto(disk.version) \cup StepsFrom(t) = Upto(app[t])
<1>1. seen[t] \in 0 .. Latest /\ app[t] \in Versions /\ disk.version \in 0 .. Latest
  BY DEF TypeOK
<1>2. seen[t] + 1 \in StepsFrom(t)
  BY <1>1, OpenConstants DEF StepsFrom, Upto, Versions
<1>3. seen[t] + 1 \notin Upto(disk.version)
  BY <1>2 DEF Runs, OnDisk
<1>4. disk.version = seen[t]
  BY <1>1, <1>2, <1>3, OpenConstants DEF StepsFrom, Upto, Versions
<1> QED
  BY <1>1, <1>4, OpenConstants DEF StepsFrom, Upto, Versions

\* While somebody is between its migration and its stamp, nobody else migrates,
\* whatever its own version is: the step after the stamp was run.
LEMMA NobodyElseMigrates ==
  ASSUME TypeOK, Holders, Stored, NEW t \in Tabs, NEW u \in Tabs,
         pc[t] = "migrate", pc[u] = "stamp"
  PROVE  ~Runs(StepsFrom(t))
<1>1. /\ seen[t] < app[t] /\ seen[t] <= disk.version
      /\ disk.version < app[u] /\ Upto(app[u]) \subseteq disk.steps
  BY DEF Stored, TabOK, Opened
<1>2. /\ seen[t] \in 0 .. Latest /\ disk.version \in 0 .. Latest
      /\ app[t] \in Versions /\ app[u] \in Versions
  BY DEF TypeOK
<1>3. seen[t] + 1 \in StepsFrom(t)
  BY <1>1, <1>2, OpenConstants DEF StepsFrom, Upto, Versions
<1>4. seen[t] + 1 \in Upto(app[u])
  BY <1>1, <1>2, OpenConstants DEF Upto, Versions
<1> QED
  BY <1>1, <1>3, <1>4 DEF Runs

\* A step that leaves the disk alone, and takes nobody away from its stamp
\* unless it counts as torn.
LEMMA StoredQuiet ==
  ASSUME Stored, disk' = disk, torn => torn',
         ~torn' => \A u \in Tabs : pc[u] = "stamp" => pc'[u] = "stamp",
         \A u \in Tabs : pc'[u] = "stamp" => pc[u] = "stamp",
         \A u \in Tabs : TabOK(u)'
  PROVE  Stored'
BY DEF Stored, OnDisk, OneStamps, Upto, Versions

\* A tab that such a step leaves where it is keeps what it knows.
LEMMA TabQuiet ==
  ASSUME NEW u \in Tabs, TabOK(u), disk' = disk, app' = app, shared' = shared,
         pc'[u] = pc[u], seen'[u] = seen[u], torn => torn'
  PROVE  TabOK(u)'
<1>1. Upto(app[u])' = Upto(app[u])
  BY DEF Upto, Versions
<1> QED
  BY <1>1 DEF TabOK, Opened

\* Every step keeps what is stored in order.
LEMMA StoredStep == IInv /\ [Next]_vars => Stored'
<1> SUFFICES ASSUME TypeOK, Holders, Stored, [Next]_vars PROVE Stored'
  BY DEF IInv
<1> USE OpenConstants
<1>0. /\ \A u \in Tabs : TabOK(u) /\ HolderOK(u)
      /\ OnDisk /\ OneStamps
  BY DEF Holders, Stored
<1>1. ASSUME NEW t \in Tabs, DriverOpen(t) \/ DriverOpenFails(t) PROVE Stored'
  <2>1. UNCHANGED <<disk, app, shared, seen, torn>>
    BY <1>1 DEF DriverOpen, DriverOpenFails, env
  <2>2. /\ pc[t] \notin Opened /\ pc'[t] \notin Opened
        /\ \A u \in Tabs \ {t} : pc'[u] = pc[u]
    BY <1>1 DEF DriverOpen, DriverOpenFails, TypeOK, Goto, Opened
  <2>3. ASSUME NEW u \in Tabs PROVE TabOK(u)'
    <3>1. CASE u = t
      BY <2>2, <3>1 DEF TabOK, Opened
    <3>2. CASE u # t
      BY <1>0, <2>1, <2>2, <3>2, TabQuiet
    <3> QED
      BY <3>1, <3>2
  <2> QED
    BY <2>1, <2>2, <2>3, StoredQuiet DEF Opened
<1>2. ASSUME NEW t \in Tabs, ServeOpen(t) PROVE Stored'
  <2>1. /\ UNCHANGED <<disk, app, shared, torn>>
        /\ pc[t] = "opening" /\ pc'[t] = Decided(disk.version, app[t])
        /\ seen'[t] = disk.version
        /\ \A u \in Tabs \ {t} : pc'[u] = pc[u] /\ seen'[u] = seen[u]
    BY <1>2 DEF ServeOpen, TypeOK, Goto, env
  <2>2. disk.version \in Nat /\ app[t] \in Nat
    BY DEF TypeOK, Versions
  <2>3. /\ pc'[t] = "migrate" => disk.version # 0 /\ disk.version < app[t]
        /\ pc'[t] = "ready" => disk.version = app[t]
        /\ pc'[t] # "stamp"
    BY <2>1, <2>2, DecidedBy
  <2>4. ASSUME NEW u \in Tabs PROVE TabOK(u)'
    <3>1. CASE u = t
      BY <2>1, <2>2, <2>3, <3>1 DEF TabOK
    <3>2. CASE u # t
      BY <1>0, <2>1, <3>2, TabQuiet
    <3> QED
      BY <3>1, <3>2
  <2> QED
    BY <2>1, <2>3, <2>4, StoredQuiet
<1>3. ASSUME NEW t \in Tabs, Setup(t) PROVE Stored'
  <2>1. CASE Runs(Upto(app[t]))
    <3>1. /\ disk' = [version |-> app[t], steps |-> Upto(app[t])]
          /\ pc' = [pc EXCEPT ![t] = "ready"]
          /\ UNCHANGED <<app, shared, seen, torn>>
      BY <1>3, <2>1 DEF Setup, Goto, env
    <3>2. disk.version = 0 /\ disk.steps = {}
      BY <1>0, <2>1, SetupOnNothing DEF OnDisk
    <3>3. /\ disk'.version = app[t] /\ disk'.steps = Upto(app[t])
          /\ app[t] \in Versions
      BY <3>1 DEF TypeOK
    <3>4. ASSUME NEW u \in Tabs
          PROVE  /\ pc[u] \notin {"migrate", "stamp", "ready"}
                 /\ pc[u] \in Opened => seen[u] = 0
      <4>1. seen[u] \in 0 .. Latest /\ app[u] \in Versions
        BY DEF TypeOK
      <4> QED
        BY <1>0, <3>2, <4>1 DEF TabOK, Opened, Versions
    <3>5. ASSUME NEW u \in Tabs PROVE TabOK(u)'
      <4>1. CASE u = t
        <5>1. pc'[t] = "ready" /\ pc[t] = "setup"
          BY <1>3, <3>1 DEF TypeOK, Setup
        <5>2. seen[t] = 0
          BY <3>4, <5>1 DEF Opened
        <5> QED
          BY <3>1, <3>3, <4>1, <5>1, <5>2 DEF TabOK, Versions
      <4>2. CASE u # t
        <5>1. pc'[u] = pc[u]
          BY <3>1, <4>2 DEF TypeOK
        <5> QED
          BY <3>1, <3>3, <3>4, <5>1 DEF TabOK, Versions
      <4> QED
        BY <4>1, <4>2
    <3>6. \A u \in Tabs : pc'[u] # "stamp"
      BY <3>1, <3>4 DEF TypeOK
    <3> QED
      BY <3>3, <3>5, <3>6 DEF Stored, OnDisk, OneStamps, Upto, Versions
  <2>2. CASE ~Runs(Upto(app[t]))
    <3>1. /\ UNCHANGED <<disk, app, shared, seen, torn>>
          /\ pc[t] = "setup" /\ pc'[t] = "recheck"
          /\ \A u \in Tabs \ {t} : pc'[u] = pc[u]
      BY <1>3, <2>2 DEF Setup, TypeOK, Goto, env
    <3>2. ASSUME NEW u \in Tabs PROVE TabOK(u)'
      <4>1. CASE u = t
        BY <1>0, <3>1, <4>1 DEF TabOK, Opened
      <4>2. CASE u # t
        BY <1>0, <3>1, <4>2, TabQuiet
      <4> QED
        BY <4>1, <4>2
    <3> QED
      BY <3>1, <3>2, StoredQuiet
  <2> QED
    BY <2>1, <2>2
<1>4. ASSUME NEW t \in Tabs, Recheck(t) PROVE Stored'
  <2>1. /\ UNCHANGED <<disk, app, shared, seen, torn>>
        /\ pc[t] = "recheck"
        /\ pc'[t] = IF disk.version = app[t] THEN "ready" ELSE "failed"
        /\ \A u \in Tabs \ {t} : pc'[u] = pc[u]
    BY <1>4 DEF Recheck, TypeOK, Goto, env
  <2>2. ASSUME NEW u \in Tabs PROVE TabOK(u)'
    <3>1. CASE u = t
      <4>1. app[t] \in Nat /\ seen[t] <= disk.version
        BY <1>0, <2>1 DEF TypeOK, Versions, TabOK, Opened
      <4> QED
        BY <2>1, <3>1, <4>1 DEF TabOK
    <3>2. CASE u # t
      BY <1>0, <2>1, <3>2, TabQuiet
    <3> QED
      BY <3>1, <3>2
  <2> QED
    BY <2>1, <2>2, StoredQuiet
<1>5. ASSUME NEW t \in Tabs, Migrate(t) PROVE Stored'
  <2>1. CASE Runs(StepsFrom(t))
    <3>1. /\ disk' = [disk EXCEPT !.steps = @ \cup StepsFrom(t)]
          /\ pc' = [pc EXCEPT ![t] = "stamp"]
          /\ pc[t] = "migrate"
          /\ UNCHANGED <<app, shared, seen, torn>>
      BY <1>5, <2>1 DEF Migrate, Goto, env
    <3>2. disk'.version = disk.version /\ disk'.steps = disk.steps \cup StepsFrom(t)
      BY <3>1 DEF TypeOK
    <3>3. 0 < seen[t] /\ seen[t] < app[t] /\ seen[t] <= disk.version
      BY <1>0, <3>1 DEF TabOK, Opened
    <3>4. /\ disk.version = seen[t]
          /\ Upto(disk.version) \cup StepsFrom(t) = Upto(app[t])
      BY <1>0, <2>1, <3>3, MigratesFromStamp
    <3>5. \A u \in Tabs : pc[u] # "stamp"
      BY <2>1, <3>1, NobodyElseMigrates
    <3>6. /\ Upto(app[t]) \subseteq disk'.steps
          /\ ~torn => disk'.steps = Upto(app[t])
      BY <1>0, <3>2, <3>4, <3>5 DEF OnDisk
    <3>7. ASSUME NEW u \in Tabs PROVE TabOK(u)'
      <4>1. CASE u = t
        <5>1. pc'[t] = "stamp"
          BY <3>1 DEF TypeOK
        <5>2. Upto(app'[t]) = Upto(app[t])
          BY <3>1
        <5> QED
          BY <3>1, <3>2, <3>3, <3>4, <3>6, <4>1, <5>1, <5>2 DEF TabOK, Upto, Versions
      <4>2. CASE u # t
        <5>1. pc'[u] = pc[u] /\ pc[u] # "stamp"
          BY <3>1, <3>5, <4>2 DEF TypeOK
        <5>2. TabOK(u)
          BY <1>0
        <5> QED
          BY <3>1, <3>2, <5>1, <5>2 DEF TabOK, Opened
      <4> QED
        BY <4>1, <4>2
    <3>8. \A u \in Tabs : pc'[u] = "stamp" <=> u = t
      BY <3>1, <3>5 DEF TypeOK
    <3>9. Upto(disk.version) \subseteq disk'.steps /\ disk.version # 0
      BY <1>0, <3>2, <3>3, <3>4 DEF OnDisk, TypeOK
    <3> QED
      BY <3>2, <3>7, <3>8, <3>9 DEF Stored, OnDisk, OneStamps, Upto, Versions
  <2>2. CASE ~Runs(StepsFrom(t))
    <3>1. /\ UNCHANGED <<disk, app, shared, seen, torn>>
          /\ pc[t] = "migrate" /\ pc'[t] = "failed"
          /\ \A u \in Tabs \ {t} : pc'[u] = pc[u]
      BY <1>5, <2>2 DEF Migrate, TypeOK, Goto, env
    <3>2. ASSUME NEW u \in Tabs PROVE TabOK(u)'
      <4>1. CASE u = t
        BY <1>0, <3>1, <4>1 DEF TabOK, Opened
      <4>2. CASE u # t
        BY <1>0, <3>1, <4>2, TabQuiet
      <4> QED
        BY <4>1, <4>2
    <3> QED
      BY <3>1, <3>2, StoredQuiet
  <2> QED
    BY <2>1, <2>2
<1>6. ASSUME NEW t \in Tabs, Stamp(t) PROVE Stored'
  <2>1. /\ disk' = [disk EXCEPT !.version = app[t]]
        /\ pc' = [pc EXCEPT ![t] = "ready"]
        /\ pc[t] = "stamp"
        /\ UNCHANGED <<app, shared, seen, torn>>
    BY <1>6 DEF Stamp, Goto, env
  <2>2. disk'.version = app[t] /\ disk'.steps = disk.steps
    BY <2>1 DEF TypeOK
  <2>3. /\ disk.version < app[t] /\ Upto(app[t]) \subseteq disk.steps
        /\ ~torn => disk.steps = Upto(app[t])
    BY <1>0, <2>1 DEF TabOK
  <2>4. \A u \in Tabs : pc[u] = "stamp" => u = t
    BY <1>0, <2>1 DEF OneStamps
  <2>5. ASSUME NEW u \in Tabs PROVE TabOK(u)'
    <3>1. /\ seen[u] \in 0 .. Latest /\ app[u] \in Versions /\ app[t] \in Versions
          /\ disk.version \in 0 .. Latest
      BY DEF TypeOK
    <3>2. TabOK(u)
      BY <1>0
    <3>3. CASE u = t
      <4>1. pc'[t] = "ready" /\ seen[t] < app[t]
        BY <2>1, <3>2, <3>3 DEF TypeOK, TabOK
      <4> QED
        BY <2>1, <2>2, <3>1, <3>3, <4>1 DEF TabOK, Versions
    <3>4. CASE u # t
      <4>1. pc'[u] = pc[u] /\ pc[u] # "stamp"
        BY <2>1, <2>4, <3>4 DEF TypeOK
      <4>2. pc[u] = "ready" => shared /\ app[u] < app[t]
        <5> SUFFICES ASSUME pc[u] = "ready" PROVE shared /\ app[u] < app[t]
          OBVIOUS
        <5>1. shared
          BY <2>1, <3>4, OpenTogether DEF Opened
        <5>2. app[u] <= disk.version
          BY <3>2 DEF TabOK
        <5> QED
          BY <2>3, <3>1, <5>1, <5>2 DEF Versions
      <4>3. pc[u] \in Opened => seen[u] <= app[t]
        BY <2>3, <3>1, <3>2 DEF TabOK, Versions
      <4>4. pc[u] = "migrate" => 0 < seen[u] /\ seen[u] < app[u]
        BY <3>2 DEF TabOK
      <4> QED
        BY <2>1, <2>2, <3>1, <4>1, <4>2, <4>3, <4>4 DEF TabOK, Versions
    <3> QED
      BY <3>3, <3>4
  <2>6. app[t] \in Versions /\ \A u \in Tabs : pc'[u] # "stamp"
    BY <2>1, <2>4 DEF TypeOK
  <2> QED
    BY <2>1, <2>2, <2>3, <2>5, <2>6 DEF Stored, OnDisk, OneStamps, Upto, Versions
<1>7. ASSUME NEW t \in Tabs,
             HandleTakenOver(t) \/ Close(t) \/ TabDies(t) \/ StatementFails(t)
      PROVE  Stored'
  <2>1. UNCHANGED <<disk, app, shared>>
    BY <1>7 DEF HandleTakenOver, Close, TabDies, StatementFails, env
  <2>2. \/ pc'[t] \in {"idle", "gone"}
        \/ pc[t] \in Opened /\ pc'[t] \in {"recheck", "failed"} /\ seen' = seen
    BY <1>7 DEF HandleTakenOver, Close, TabDies, StatementFails, DriverGone, TypeOK,
                Goto, Opened
  <2>3. \A u \in Tabs \ {t} : pc'[u] = pc[u] /\ seen'[u] = seen[u]
    BY <1>7 DEF HandleTakenOver, Close, TabDies, StatementFails, DriverGone, TypeOK, Goto
  <2>4. (torn => torn') /\ (~torn' => pc[t] # "stamp")
    <3>1. CASE pc[t] \in {"ready", "failed", "rejected"} /\ torn' = torn
      BY <3>1
    <3>2. CASE torn' = (torn \/ pc[t] = "stamp")
      BY <3>2, Zenon
    <3>3. \/ pc[t] \in {"ready", "failed", "rejected"} /\ torn' = torn
          \/ torn' = (torn \/ pc[t] = "stamp")
      BY <1>7, Zenon DEF HandleTakenOver, Close, TabDies, StatementFails
    <3> QED
      BY <3>1, <3>2, <3>3
  <2>5. ASSUME NEW u \in Tabs PROVE TabOK(u)'
    <3>1. CASE u = t
      <4>1. TabOK(t)
        BY <1>0
      <4> QED
        BY <2>1, <2>2, <3>1, <4>1 DEF TabOK, Opened
    <3>2. CASE u # t
      BY <1>0, <2>1, <2>3, <2>4, <3>2, TabQuiet
    <3> QED
      BY <3>1, <3>2
  <2>6. ~torn' => \A u \in Tabs : pc[u] = "stamp" => pc'[u] = "stamp"
    <3> SUFFICES ASSUME ~torn', NEW u \in Tabs, pc[u] = "stamp" PROVE pc'[u] = "stamp"
      OBVIOUS
    <3>1. u # t
      BY <2>4
    <3> QED
      BY <2>3, <3>1
  <2>7. \A u \in Tabs : pc'[u] = "stamp" => pc[u] = "stamp"
    BY <2>2, <2>3
  <2> QED
    BY <2>1, <2>4, <2>5, <2>6, <2>7, StoredQuiet
<1>8. ASSUME NEW t \in Tabs, Destroy(t) PROVE Stored'
  <2>1. pc[t] \in Opened
    BY <1>8 DEF Destroy, Opened
  <2>2. \A u \in Tabs : pc'[u] \notin Opened
    <3> SUFFICES ASSUME NEW u \in Tabs PROVE pc'[u] \notin Opened
      OBVIOUS
    <3>1. u = t \/ (shared /\ pc[u] \in Opened) \/ pc[u] \notin Opened
      BY <2>1, OpenTogether
    <3> QED
      BY <1>8, <3>1 DEF Destroy, Opened
  <2>3. disk'.version = 0 /\ disk'.steps = {}
    BY <1>8 DEF Destroy, NoFile
  <2> QED
    BY <2>2, <2>3 DEF Stored, OnDisk, OneStamps, TabOK, Opened, Upto, Versions
<1>9. CASE FreeHandles \/ UNCHANGED vars
  <2>1. UNCHANGED <<disk, app, shared, seen, torn, pc>>
    BY <1>9 DEF FreeHandles, vars, env
  <2>2. \A u \in Tabs : TabOK(u)'
    BY <1>0, <2>1, TabQuiet
  <2> QED
    BY <2>1, <2>2, StoredQuiet
<1> QED
  BY <1>1, <1>2, <1>3, <1>4, <1>5, <1>6, <1>7, <1>8, <1>9 DEF Next, OpenStep

\* The first state has nothing open and a disk some app left.
LEMMA InitIInv == Init => IInv
<1> SUFFICES ASSUME Init PROVE IInv
  OBVIOUS
<1> USE OpenConstants, OwnerNames
<1>1. PICK v \in 0 .. Latest : disk = [version |-> v, steps |-> Upto(v)]
  BY DEF Init
<1>2. TypeOK
  BY <1>1 DEF Init, TypeOK, env, Opened, Upto, Versions
<1>3. Holders
  BY DEF Init, Holders, HolderOK, Opened
<1>4. Stored
  BY <1>1 DEF Init, Stored, OnDisk, OneStamps, TabOK, Opened, Upto, Versions
<1> QED
  BY <1>2, <1>3, <1>4 DEF IInv

LEMMA IInvStep == IInv /\ [Next]_vars => IInv'
BY TypeStep, HoldersStep, StoredStep DEF IInv

LEMMA OpeningInvariant == Spec => []IInv
BY InitIInv, IInvStep, PTL DEF Spec

\* For any number of tabs, with any of them stealing and any open failing part
\* way: the pool belongs to the tab with the lock, to one about to be told that
\* it lost it, or to one whose driver gave up opening.
THEOREM StorageFollowsLock == Spec => []PoolFollowsLock
<1>1. IInv => PoolFollowsLock
  BY DEF IInv, Holders, HolderOK, PoolFollowsLock, Opened
<1> QED
  BY <1>1, OpeningInvariant, PTL

\* For any number of tabs, each with an app of any version, that set up, migrate,
\* steal, fail and die: an open database has its app's schema, under a stamp that
\* is its own or that of a newer app on the same owner, and the stamp names the
\* steps that were run, unless a tab was cut off before its stamp.
THEOREM OpenAtItsVersion == Spec => []ReadyAtItsVersion
<1>1. IInv => ReadyAtItsVersion
  <2> SUFFICES ASSUME IInv PROVE ReadyAtItsVersion
    OBVIOUS
  <2>1. StampMatchesSteps
    BY DEF IInv, Stored, OnDisk, StampMatchesSteps
  <2>2. ASSUME NEW t \in Tabs, pc[t] = "ready"
        PROVE  /\ t \in served /\ Upto(app[t]) \subseteq disk.steps
               /\ \/ disk.version = app[t]
                  \/ shared /\ \E u \in Tabs : app[t] < app[u] /\ app[u] = disk.version
    <3>1. TabOK(t) /\ HolderOK(t) /\ OnDisk
      BY DEF IInv, Holders, Stored
    <3>2. app[t] \in Versions /\ disk.version \in 0 .. Latest
      BY DEF IInv, TypeOK
    <3>3. /\ app[t] <= disk.version
          /\ \/ disk.version = app[t]
             \/ shared /\ \E u \in Tabs : app[u] = disk.version
      BY <2>2, <3>1 DEF TabOK
    <3>4. Upto(app[t]) \subseteq disk.steps
      BY <3>1, <3>2, <3>3, OpenConstants DEF OnDisk, Upto, Versions
    <3>5. t \in served
      BY <2>2, <3>1 DEF HolderOK, Opened
    <3> QED
      BY <3>2, <3>3, <3>4, <3>5, OpenConstants DEF Versions
  <2> QED
    BY <2>1, <2>2 DEF ReadyAtItsVersion
<1> QED
  BY <1>1, OpeningInvariant, PTL

\* Whatever is refused, raced, failed or cut off: only destroy() takes steps or
\* the version away.
THEOREM OnlyDestroyResets == Spec => NoSilentReset
<1>1. ASSUME IInv, [Next]_vars
      PROVE  [\/ disk.version <= disk'.version /\ disk.steps \subseteq disk'.steps
              \/ \E t \in Tabs : Destroy(t)]_vars
  <2> USE OpenConstants
  <2>0. TypeOK /\ OnDisk /\ \A t \in Tabs : TabOK(t)
    BY <1>1 DEF IInv, Stored
  <2>1. ASSUME NEW t \in Tabs, Setup(t)
        PROVE  disk.version <= disk'.version /\ disk.steps \subseteq disk'.steps
    <3>1. CASE Runs(Upto(app[t]))
      <4>1. disk.version = 0 /\ disk.steps = {}
        BY <2>0, <3>1, SetupOnNothing DEF OnDisk
      <4> QED
        BY <2>0, <2>1, <3>1, <4>1 DEF Setup, TypeOK, Versions
    <3>2. CASE ~Runs(Upto(app[t]))
      BY <2>0, <2>1, <3>2 DEF Setup, TypeOK
    <3> QED
      BY <3>1, <3>2
  <2>2. ASSUME NEW t \in Tabs, Migrate(t)
        PROVE  disk.version <= disk'.version /\ disk.steps \subseteq disk'.steps
    <3>1. disk'.version = disk.version /\ disk.steps \subseteq disk'.steps
      BY <2>0, <2>2 DEF Migrate, TypeOK
    <3> QED
      BY <2>0, <3>1 DEF TypeOK
  <2>3. ASSUME NEW t \in Tabs, Stamp(t)
        PROVE  disk.version <= disk'.version /\ disk.steps \subseteq disk'.steps
    <3>1. disk'.version = app[t] /\ disk'.steps = disk.steps
      BY <2>0, <2>3 DEF Stamp, TypeOK
    <3> QED
      <4>1. disk.version < app[t]
        BY <2>0, <2>3 DEF Stamp, TabOK
      <4>2. disk.version \in 0 .. Latest /\ app[t] \in Versions
        BY <2>0 DEF TypeOK
      <4> QED
        BY <3>1, <4>1, <4>2 DEF Versions
  <2>4. CASE disk' = disk
    BY <2>0, <2>4 DEF TypeOK
  <2>5. \/ disk' = disk
        \/ \E t \in Tabs : Setup(t) \/ Migrate(t) \/ Stamp(t) \/ Destroy(t)
    BY <1>1 DEF Next, OpenStep, DriverOpen, DriverOpenFails, ServeOpen, Recheck,
                StatementFails, HandleTakenOver, Close, TabDies, FreeHandles, vars
  <2> QED
    BY <2>1, <2>2, <2>3, <2>4, <2>5
<1> QED
  BY <1>1, OpeningInvariant, PTL DEF Spec, NoSilentReset

(***************************************************************************)
(* The sync controller.                                                    *)
(***************************************************************************)

\* Triggers and methods that begin or queue a run.
LEMMA RunTypes ==
  ASSUME Bookkeeping, ~disposed, Run
  PROVE  /\ phase' \in {"announcing", phase}
         /\ phase' # "none"
         /\ phase # "none" => phase' = phase /\ status' = status
         /\ status' \in {status, "syncing"}
         /\ queued' = (queued \/ phase # "none")
BY DEF Bookkeeping, Run, running

\* The bookkeeping survives every step.
LEMMA BookkeepingStep == Bookkeeping /\ [ControllerNext]_controllerVars => Bookkeeping'
<1> SUFFICES ASSUME Bookkeeping, [ControllerNext]_controllerVars PROVE Bookkeeping'
  OBVIOUS
<1>1. CASE Start
  BY <1>1, RunTypes DEF Start, Bookkeeping, running, timers, history
<1>2. ASSUME NEW c \in Call, SyncNow(c) PROVE Bookkeeping'
  <2>1. CASE disposed
    BY <1>2, <2>1 DEF SyncNow, Bookkeeping, running, timers, history
  <2>2. CASE ~disposed
    BY <1>2, <2>2, RunTypes DEF SyncNow, Awaited, Bookkeeping, running, timers, history
  <2> QED
    BY <2>1, <2>2
<1>3. CASE NotifyLocalWrite
  BY <1>3, ControllerConstants DEF NotifyLocalWrite, Bookkeeping, running
<1>4. CASE Dispose
  BY <1>4 DEF Dispose, AbortSignal, Bookkeeping, running, history
<1>5. CASE AutoTrigger
  <2>1. ~disposed
    BY <1>5 DEF AutoTrigger, Bookkeeping
  <2>2. triggers' \in 0 .. MaxTriggers
    BY <1>5, ControllerConstants DEF AutoTrigger, Bookkeeping
  <2> QED
    BY <1>5, <2>1, <2>2, RunTypes
       DEF AutoTrigger, Trigger, Bookkeeping, running, timers, history
<1>6. CASE DebounceFires
  <2>1. ~disposed
    BY <1>6 DEF DebounceFires, Bookkeeping
  <2> QED
    BY <1>6, <2>1, RunTypes DEF DebounceFires, Trigger, Bookkeeping, running, history
<1>7. CASE Execute
  BY <1>7 DEF Execute, Bookkeeping, running, timers
<1>8. CASE Finishes
  <2>1. PICK outcome \in Outcomes : Finish(outcome)
    BY <1>8 DEF Finishes
  <2> QED
    BY <2>1 DEF Finish, Outcomes, Bookkeeping, running, timers, history
<1>9. CASE Settle
  BY <1>9 DEF Settle, Resolved, FollowUp, Bookkeeping, running, timers, history
<1>10. CASE UNCHANGED controllerVars
  BY <1>10 DEF controllerVars, Bookkeeping, running, timers, history
<1> QED
  BY <1>1, <1>2, <1>3, <1>4, <1>5, <1>6, <1>7, <1>8, <1>9, <1>10 DEF ControllerNext

\* The controller's bookkeeping, whatever its listeners call back.
THEOREM BookkeepingCorrect == ControllerSpec => []Bookkeeping
<1>1. ASSUME ControllerInit PROVE Bookkeeping
  <2>1. call \in [Call -> {"unmade", "current", "queued", "settled"}]
    BY <1>1 DEF ControllerInit
  <2>2. \A c \in Call : call[c] = "unmade"
    BY <1>1 DEF ControllerInit
  <2>3. begun \in SUBSET Call /\ triggers \in 0 .. MaxTriggers
    BY <1>1, ControllerConstants DEF ControllerInit
  <2>4. /\ queued \in BOOLEAN /\ authBlocked \in BOOLEAN /\ disposed \in BOOLEAN
        /\ started \in BOOLEAN /\ debounce \in BOOLEAN /\ unsynced \in BOOLEAN
        /\ ~queued /\ ~disposed
    BY <1>1 DEF ControllerInit
  <2> QED
    BY <1>1, <2>1, <2>2, <2>3, <2>4 DEF ControllerInit, Bookkeeping
<1> QED
  BY <1>1, BookkeepingStep, PTL DEF ControllerSpec

\* Callers only ever join a run whose runSync is still to begin.
LEMMA CoverageStep ==
  Bookkeeping /\ CoverageInv /\ [ControllerNext]_controllerVars => CoverageInv'
<1> SUFFICES ASSUME Bookkeeping, CoverageInv, [ControllerNext]_controllerVars
             PROVE  CoverageInv'
  OBVIOUS
<1>0. \A c \in Call :
        /\ call[c] = "settled" /\ ~disposed => c \in begun
        /\ call[c] = "current" /\ phase \in {"executing", "finishing"} => c \in begun
  BY DEF CoverageInv, CallsCovered
<1>1. CASE Start \/ AutoTrigger \/ DebounceFires
  BY <1>0, <1>1, RunTypes
     DEF Start, AutoTrigger, DebounceFires, Trigger, CoverageInv, CallsCovered,
         Bookkeeping, running, timers, history
<1>2. ASSUME NEW c \in Call, SyncNow(c) PROVE CoverageInv'
  <2>1. CASE disposed
    BY <1>0, <1>2, <2>1 DEF SyncNow, CoverageInv, CallsCovered, Bookkeeping, history
  <2>2. CASE ~disposed
    <3>1. /\ call' = [call EXCEPT ![c] = Awaited] /\ begun' = begun
          /\ phase # "none" => phase' = phase
          /\ phase = "none" => phase' = "announcing"
      BY <1>2, <2>2 DEF SyncNow, Run, running, history
    <3>2. Awaited = IF phase # "none" THEN "queued" ELSE "current"
      BY DEF Awaited, running
    <3> QED
      BY <1>0, <1>2, <2>2, <3>1, <3>2
         DEF SyncNow, CoverageInv, CallsCovered, Bookkeeping
  <2> QED
    BY <2>1, <2>2
<1>3. CASE NotifyLocalWrite
  BY <1>0, <1>3 DEF NotifyLocalWrite, CoverageInv, CallsCovered
<1>4. CASE Dispose
  BY <1>0, <1>4 DEF Dispose, CoverageInv, CallsCovered, Bookkeeping, history
<1>5. CASE Execute
  BY <1>0, <1>5 DEF Execute, CoverageInv, CallsCovered, Bookkeeping
<1>6. CASE Finishes
  <2>1. PICK outcome \in Outcomes : Finish(outcome)
    BY <1>6 DEF Finishes
  <2> QED
    BY <1>0, <2>1 DEF Finish, CoverageInv, CallsCovered, history
<1>7. CASE Settle
  <2>1. /\ call' = [c \in Call |-> Resolved(c)] /\ begun' = begun
        /\ phase = "finishing" /\ phase' \in {"none", "announcing"}
        /\ disposed' = disposed
    BY <1>7 DEF Settle, history
  <2>2. \A c \in Call : call'[c] = Resolved(c)
    BY <2>1
  <2>3. \A c \in Call : Resolved(c) = "settled" => call[c] \in {"current", "settled"}
    BY DEF Resolved
  <2> QED
    BY <1>0, <2>1, <2>2, <2>3 DEF CoverageInv, CallsCovered
<1>8. CASE UNCHANGED controllerVars
  BY <1>0, <1>8 DEF controllerVars, CoverageInv, CallsCovered, history
<1> QED
  BY <1>1, <1>2, <1>3, <1>4, <1>5, <1>6, <1>7, <1>8 DEF ControllerNext

\* Whatever coalesces, a call of syncNow() that is answered while the
\* controller lives was answered by a runSync that began after it.
THEOREM CallsAlwaysCovered == ControllerSpec => []CallsCovered
<1>1. ControllerInit => CoverageInv
  BY DEF ControllerInit, CoverageInv, CallsCovered
<1>2. CoverageInv => CallsCovered
  BY DEF CoverageInv
<1> QED
  BY <1>1, <1>2, CoverageStep, BookkeepingCorrect, PTL DEF ControllerSpec

\* A controller that is gone begins nothing, unless a listener took it down
\* in the middle of run().
LEMMA DisposalStep ==
  ASSUME "dispose" \notin ListenerCalls
  PROVE  Bookkeeping /\ DisposalInv /\ [ControllerNext]_controllerVars => DisposalInv'
<1> SUFFICES ASSUME Bookkeeping, DisposalInv, [ControllerNext]_controllerVars
             PROVE  DisposalInv'
  OBVIOUS
<1>1. CASE Start \/ AutoTrigger \/ DebounceFires
  BY <1>1, RunTypes
     DEF Start, AutoTrigger, DebounceFires, Trigger, DisposalInv, DisposedAborts,
         Bookkeeping, running, timers
<1>2. ASSUME NEW c \in Call, SyncNow(c) PROVE DisposalInv'
  BY <1>2 DEF SyncNow, DisposalInv, DisposedAborts
<1>3. CASE NotifyLocalWrite
  BY <1>3 DEF NotifyLocalWrite, DisposalInv, DisposedAborts
<1>4. CASE Dispose
  BY <1>4 DEF Dispose, Callable, AbortSignal, DisposalInv, DisposedAborts, Bookkeeping
<1>5. CASE Execute
  BY <1>5 DEF Execute, DisposalInv, DisposedAborts
<1>6. CASE Finishes
  <2>1. PICK outcome \in Outcomes : Finish(outcome)
    BY <1>6 DEF Finishes
  <2> QED
    BY <2>1 DEF Finish, DisposalInv, DisposedAborts
<1>7. CASE Settle
  BY <1>7 DEF Settle, FollowUp, DisposalInv, DisposedAborts
<1>8. CASE UNCHANGED controllerVars
  BY <1>8 DEF controllerVars, DisposalInv, DisposedAborts
<1> QED
  BY <1>1, <1>2, <1>3, <1>4, <1>5, <1>6, <1>7, <1>8 DEF ControllerNext

\* Disposal reaches the run in flight, if no listener disposes while
\* "syncing" is being announced (one that does leaves the run that follows
\* the announcement without the signal).
THEOREM DisposalAlwaysAborts ==
  ASSUME "dispose" \notin ListenerCalls
  PROVE  ControllerSpec => []DisposedAborts
<1>1. ControllerInit => DisposalInv
  BY DEF ControllerInit, DisposalInv, DisposedAborts
<1>2. DisposalInv => DisposedAborts
  BY DEF DisposalInv
<1>3. Bookkeeping /\ DisposalInv /\ [ControllerNext]_controllerVars => DisposalInv'
  BY DisposalStep
<1> QED
  BY <1>1, <1>2, <1>3, BookkeepingCorrect, PTL DEF ControllerSpec

(***************************************************************************)
(* The sessions of an application.                                         *)
(***************************************************************************)
Attempt == Nat \ {0}
Phases == {"opening", "late closing", "lost"}
Manager ==
    [status : Statuses, epoch : Nat, database : Nat, init : Nat,
     close : {"none", "closing", "failed"}, current : Nat, pending : Nat,
     lateError : BOOLEAN]

Typed ==
    /\ effect \in Nat /\ made \subseteq Sessions
    /\ {live, tail, owned} \subseteq Sessions \cup {None}
    /\ user \in Users \cup {Nobody} /\ owner \in [Sessions -> Users \cup {Nobody}]
    /\ mgr \in [Sessions -> Manager]
    /\ opens \subseteq Sessions \X Attempt \X Phases
    /\ held \subseteq Sessions \X Attempt

\* The attempt a of session s counts against the file.
Holds(s, a) ==
    \/ <<s, a>> \in held \ leaked
    \/ <<s, a, "opening">> \in opens \/ <<s, a, "late closing">> \in opens

\* An open in flight is the one callers share, or the one a close waits for.
InFlightOK(s, a, stage) ==
    LET m == mgr[s] IN
    /\ a <= m.epoch
    /\ m.close # "none" => a < m.epoch
    /\ m.close = "none" => a = m.init /\ a = m.epoch /\ stage # "late closing"
    /\ m.close = "closing" => a = m.pending
    /\ \A p \in Phases : <<s, a, p>> \in opens => p = stage
    /\ stage # "late closing" => <<s, a>> \notin held

OpensOK(s) ==
    \A a \in Attempt : \A stage \in Phases :
        <<s, a, stage>> \in opens => InFlightOK(s, a, stage)

\* At most one attempt of a session counts, and the manager knows it.
HoldsOK(s) ==
    LET m == mgr[s] IN
    \A a \in Attempt :
       /\ <<s, a>> \in held => a <= m.epoch
       /\ Holds(s, a) =>
             /\ \A b \in Attempt : Holds(s, b) => a = b
             /\ m.close = "none" => a \in {m.database, m.init}
             /\ m.close = "closing" => a \in {m.current, m.pending} \/ m.lateError

\* A manager has a database, or an open, or a close.
ManagerOK(s) ==
    LET m == mgr[s] IN
    /\ m.database # None => m.init = None /\ m.database = m.epoch
    /\ m.close # "none" => m.init = None /\ m.database = None
    /\ m.close = "closing" /\ m.current # None => m.pending = None

SessionOK(s) == OpensOK(s) /\ HoldsOK(s) /\ ManagerOK(s)

\* What has not made its manager has nothing.
Unmade(s) ==
    /\ mgr[s] = NewManager
    /\ \A a \in Attempt : <<s, a>> \notin held /\ \A p \in Phases : <<s, a, p>> \notin opens

\* What is cleaned up opens nothing any more, and holds the file only as the
\* tail that the live session waits for.
CleanedUp(s) ==
    /\ mgr[s].init = None /\ mgr[s].database = None
    /\ \A a \in Attempt : Holds(s, a) =>
          s = tail /\ mgr[s].close # "none" /\ live \notin made

Hook ==
    /\ live \in {None, effect} /\ \A s \in made : s <= effect
    /\ owned # None => owned = live /\ owned \in made
    /\ \A s \in Sessions : /\ s \notin made => Unmade(s)
                           /\ s \in made /\ s # live => CleanedUp(s)

\* A render that is to bring a session in has an effect to give it.
RenderOK == user # Nobody /\ EffectsPending => effect + 1 \in Sessions

SessionIInv == Typed /\ Hook /\ RenderOK /\ \A s \in Sessions : SessionOK(s)

\* Nothing but session s is touched.
Elsewhere(s) ==
    \A u \in Sessions \ {s} :
        /\ mgr'[u] = mgr[u]
        /\ \A a \in Attempt :
              /\ <<u, a>> \in held' <=> <<u, a>> \in held
              /\ <<u, a>> \in leaked' <=> <<u, a>> \in leaked
              /\ \A p \in Phases : <<u, a, p>> \in opens' <=> <<u, a, p>> \in opens

\* A session that is not touched stays as it was.
LEMMA Untouched ==
    ASSUME NEW s \in Sessions, NEW u \in Sessions \ {s}, Elsewhere(s)
    PROVE  /\ mgr'[u] = mgr[u]
           /\ \A a \in Attempt : Holds(u, a)' <=> Holds(u, a)
           /\ SessionOK(u) => SessionOK(u)'
           /\ Unmade(u) => Unmade(u)'
<1>1. mgr'[u] = mgr[u]
    BY DEF Elsewhere
<1>2. \A a \in Attempt :
          /\ <<u, a>> \in held' <=> <<u, a>> \in held
          /\ <<u, a>> \in leaked' <=> <<u, a>> \in leaked
          /\ \A p \in Phases : <<u, a, p>> \in opens' <=> <<u, a, p>> \in opens
    BY DEF Elsewhere
<1>3. \A a \in Attempt : Holds(u, a)' <=> Holds(u, a)
    BY <1>2 DEF Holds, Phases
<1>4. ASSUME OpensOK(u) PROVE OpensOK(u)'
    BY <1>1, <1>2, <1>4 DEF OpensOK, InFlightOK
<1>5. HoldsOK(u) => HoldsOK(u)'
    BY <1>1, <1>2, <1>3 DEF HoldsOK
<1>6. ManagerOK(u) => ManagerOK(u)'
    BY <1>1 DEF ManagerOK
<1> QED
    BY <1>1, <1>2, <1>3, <1>4, <1>5, <1>6 DEF SessionOK, Unmade, NewManager

\* A step of one manager, under a hook that stands still.
LEMMA ManagerStep ==
    ASSUME SessionIInv, Typed', NEW s \in made, Elsewhere(s), SessionOK(s)',
           UNCHANGED <<effect, live, made, tail, owned, user, owner>>,
           s # live => /\ mgr'[s].init = None /\ mgr'[s].database = None
                       /\ \A a \in Attempt : Holds(s, a)' =>
                             Holds(s, a) /\ mgr'[s].close # "none"
    PROVE  SessionIInv'
<1>1. s \in Sessions
    BY DEF SessionIInv, Typed
<1>2. \A u \in Sessions : SessionOK(u)'
    BY <1>1, Untouched DEF SessionIInv
<1>3. ASSUME NEW u \in Sessions, u \notin made PROVE Unmade(u)'
    BY <1>1, <1>3, Untouched DEF SessionIInv, Hook
<1>4. ASSUME NEW u \in made, u # live PROVE CleanedUp(u)'
    <2>1. u \in Sessions /\ CleanedUp(u)
        BY <1>4 DEF SessionIInv, Typed, Hook
    <2>2. CASE u = s
        BY <1>4, <2>1, <2>2 DEF CleanedUp
    <2>3. CASE u # s
        <3>1. mgr'[u] = mgr[u] /\ \A a \in Attempt : Holds(u, a)' <=> Holds(u, a)
            BY <1>1, <2>1, <2>3, Untouched
        <3> QED
            BY <2>1, <3>1 DEF CleanedUp
    <2> QED
        BY <2>2, <2>3
<1>5. Hook'
    BY <1>3, <1>4 DEF SessionIInv, Hook
<1>6. RenderOK'
    BY DEF SessionIInv, RenderOK, EffectsPending
<1> QED
    BY <1>2, <1>5, <1>6 DEF SessionIInv

\* A session with something in flight or held has made its manager.
LEMMA MadeFirst ==
    ASSUME SessionIInv, NEW s \in Sessions,
           \/ \E a \in Attempt : \/ <<s, a>> \in held
                                 \/ \E p \in Phases : <<s, a, p>> \in opens
           \/ mgr[s].close # "none"
    PROVE  s \in made
<1>1. s \notin made => Unmade(s)
    BY DEF SessionIInv, Hook
<1>2. NewManager.close = "none"
    BY DEF NewManager
<1>3. ~Unmade(s)
    BY <1>2 DEF Unmade
<1> QED
    BY <1>1, <1>3

LEMMA SettleFields ==
    ASSUME NEW m \in Manager, NEW a
    PROVE  /\ SettleInit(m, a) \in Manager
           /\ SettleInit(m, a).init = IF m.init = a THEN None ELSE m.init
           /\ SettleInit(m, a).pending = IF m.pending = a THEN None ELSE m.pending
           /\ SettleInit(m, a).status = m.status /\ SettleInit(m, a).epoch = m.epoch
           /\ SettleInit(m, a).database = m.database /\ SettleInit(m, a).close = m.close
           /\ SettleInit(m, a).current = m.current /\ SettleInit(m, a).lateError = m.lateError
BY DEF SettleInit, Manager, None

LEMMA ClosingFields ==
    ASSUME NEW m \in Manager
    PROVE  /\ Closing(m) \in Manager
           /\ m.close # "none" => Closing(m) = m
           /\ m.close = "none" =>
                 /\ Closing(m).epoch = m.epoch + 1 /\ Closing(m).pending = m.init
                 /\ Closing(m).init = None /\ Closing(m).current = m.database
                 /\ Closing(m).database = None /\ Closing(m).close = "closing"
                 /\ Closing(m).lateError = m.lateError
<1>1. CASE m.close # "none"
    BY <1>1 DEF Closing
<1>2. CASE m.close = "none"
    <2>1. Closing(m) = [m EXCEPT !.epoch = @ + 1, !.pending = m.init, !.init = None,
                                 !.current = m.database, !.database = None,
                                 !.close = "closing", !.status = "idle"]
        BY <1>2 DEF Closing
    <2>2. Closing(m) \in Manager
        <3>1. Closing(m) =
                 [status |-> "idle", epoch |-> m.epoch + 1, database |-> None,
                  init |-> None, close |-> "closing", current |-> m.database,
                  pending |-> m.init, lateError |-> m.lateError]
            BY <2>1 DEF Manager
        <3> QED
            BY <3>1 DEF Manager, None, Statuses
    <2> QED
        BY <1>2, <2>1, <2>2 DEF Manager
<1> QED
    BY <1>1, <1>2

LEMMA LoadingFields ==
    ASSUME NEW m \in Manager
    PROVE  /\ Loading(m) \in Manager
           /\ Loading(m).epoch = m.epoch + 1 /\ Loading(m).init = m.epoch + 1
           /\ Loading(m).database = m.database /\ Loading(m).close = m.close
           /\ Loading(m).current = m.current /\ Loading(m).pending = m.pending
           /\ Loading(m).lateError = m.lateError
<1>1. /\ Loading(m).epoch = m.epoch + 1 /\ Loading(m).init = m.epoch + 1
      /\ Loading(m).database = m.database /\ Loading(m).close = m.close
      /\ Loading(m).current = m.current /\ Loading(m).pending = m.pending
      /\ Loading(m).lateError = m.lateError
    BY DEF Loading, Manager
<1>2. Loading(m) \in Manager
    <2>0. Loading(m) = [m EXCEPT !.epoch = m.epoch + 1, !.init = m.epoch + 1,
                                 !.status = "loading"]
        BY DEF Loading
    <2>1. Loading(m) =
             [status |-> "loading", epoch |-> m.epoch + 1, database |-> m.database,
              init |-> m.epoch + 1, close |-> m.close, current |-> m.current,
              pending |-> m.pending, lateError |-> m.lateError]
        BY <2>0 DEF Manager
    <2> QED
        BY <2>1 DEF Manager, Statuses
<1> QED
    BY <1>1, <1>2

\* A close, of a manager that is then nobody's to open with.
LEMMA ClosingKeeps ==
    ASSUME NEW s \in Sessions, mgr[s] \in Manager, SessionOK(s),
           mgr'[s] = Closing(mgr[s]), UNCHANGED <<opens, held, leaked>>
    PROVE  /\ SessionOK(s)'
           /\ \A a \in Attempt : Holds(s, a)' <=> Holds(s, a)
           /\ mgr'[s].init = None /\ mgr'[s].database = None /\ mgr'[s].close # "none"
<1>0. opens' = opens /\ held' = held
    OBVIOUS
<1>1. \A a \in Attempt : Holds(s, a)' <=> Holds(s, a)
    BY DEF Holds
<1>2. CASE mgr[s].close # "none"
    <2>1. mgr'[s] = mgr[s]
        BY <1>2, ClosingFields
    <2>2. OpensOK(s)'
        BY <1>0, <2>1 DEF SessionOK, OpensOK, InFlightOK
    <2>3. HoldsOK(s)'
        BY <1>0, <1>1, <2>1 DEF SessionOK, HoldsOK
    <2>4. ManagerOK(s)'
        BY <2>1 DEF SessionOK, ManagerOK
    <2> QED
        BY <1>1, <1>2, <2>1, <2>2, <2>3, <2>4 DEF SessionOK, ManagerOK
<1>3. CASE mgr[s].close = "none"
    <2>1. /\ mgr'[s].epoch = mgr[s].epoch + 1 /\ mgr'[s].pending = mgr[s].init
          /\ mgr'[s].init = None /\ mgr'[s].current = mgr[s].database
          /\ mgr'[s].database = None /\ mgr'[s].close = "closing"
        BY <1>3, ClosingFields
    <2>2. mgr[s].epoch \in Nat
        BY DEF Manager
    <2>3. OpensOK(s)'
        <3> SUFFICES ASSUME NEW a \in Attempt, NEW stage \in Phases,
                            <<s, a, stage>> \in opens
                     PROVE  InFlightOK(s, a, stage)'
            BY DEF OpensOK
        <3>1. InFlightOK(s, a, stage)
            BY DEF SessionOK, OpensOK
        <3> QED
            <4>1. a <= mgr[s].epoch /\ a = mgr[s].init
                BY <1>3, <3>1 DEF InFlightOK
            <4>2. /\ a <= mgr'[s].epoch /\ a < mgr'[s].epoch
                  /\ a = mgr'[s].pending /\ mgr'[s].close = "closing"
                BY <2>1, <2>2, <4>1 DEF Attempt
            <4>3. /\ \A p \in Phases : <<s, a, p>> \in opens' => p = stage
                  /\ stage # "late closing" => <<s, a>> \notin held'
                BY <1>0, <3>1 DEF InFlightOK
            <4> QED
                BY <4>2, <4>3 DEF InFlightOK
    <2>4. HoldsOK(s)'
        BY <1>1, <1>3, <2>1, <2>2 DEF SessionOK, HoldsOK, Attempt
    <2>5. ManagerOK(s)'
        BY <1>3, <2>1 DEF SessionOK, ManagerOK
    <2> QED
        BY <1>1, <2>1, <2>3, <2>4, <2>5 DEF SessionOK
<1> QED
    BY <1>2, <1>3 DEF Manager

LEMMA SetManager ==
    ASSUME mgr \in [Sessions -> Manager], NEW s \in Sessions, NEW m \in Manager,
           mgr' = [mgr EXCEPT ![s] = m]
    PROVE  /\ mgr' \in [Sessions -> Manager] /\ mgr'[s] = m
           /\ \A u \in Sessions \ {s} : mgr'[u] = mgr[u]
OBVIOUS

\* What is known of an open in flight.
LEMMA InFlight ==
    ASSUME SessionIInv, NEW s \in Sessions, NEW a \in Attempt, NEW p \in Phases,
           <<s, a, p>> \in opens
    PROVE  /\ mgr[s] \in Manager /\ s \in made /\ SessionOK(s)
           /\ InFlightOK(s, a, p)
           /\ s # live => mgr[s].close # "none"
<1>1. mgr[s] \in Manager /\ s \in made /\ SessionOK(s)
    BY MadeFirst DEF SessionIInv, Typed
<1>2. InFlightOK(s, a, p)
    BY <1>1 DEF SessionOK, OpensOK
<1>3. s # live => mgr[s].init = None
    BY <1>1 DEF SessionIInv, Hook, CleanedUp
<1> QED
    BY <1>1, <1>2, <1>3 DEF InFlightOK, Attempt, None

\* An open that ends, its handles gone or out of count: the promise settles.
LEMMA OpenEnds ==
    ASSUME SessionIInv, Typed', NEW s \in Sessions, NEW attempt \in Attempt, NEW stage \in Phases,
           <<s, attempt, stage>> \in opens,
           opens' = opens \ {<<s, attempt, stage>>},
           Elsewhere(s), UNCHANGED <<effect, live, made, tail, owned, user, owner>>,
           mgr'[s].init = IF mgr[s].init = attempt THEN None ELSE mgr[s].init,
           mgr'[s].pending = IF mgr[s].pending = attempt THEN None ELSE mgr[s].pending,
           mgr'[s].epoch = mgr[s].epoch, mgr'[s].database = mgr[s].database,
           mgr'[s].close = mgr[s].close, mgr'[s].current = mgr[s].current,
           mgr[s].lateError => mgr'[s].lateError,
           \A a \in Attempt : a # attempt =>
              (<<s, a>> \in held' <=> <<s, a>> \in held) /\ (<<s, a>> \in leaked' <=> <<s, a>> \in leaked),
           <<s, attempt>> \in held' \ leaked' =>
              <<s, attempt>> \in held \ leaked /\ mgr'[s].lateError /\ mgr[s].close # "none"
    PROVE  SessionIInv'
<1>1. /\ mgr[s] \in Manager /\ s \in made /\ SessionOK(s)
      /\ InFlightOK(s, attempt, stage)
      /\ s # live => mgr[s].close # "none"
    BY InFlight
<1>2. \A p \in Phases : <<s, attempt, p>> \notin opens'
    BY <1>1 DEF InFlightOK
<1>3. \A a \in Attempt : Holds(s, a)' => Holds(s, a)
    BY <1>2 DEF Holds, Phases
<1>4. OpensOK(s)'
    <2> SUFFICES ASSUME NEW a \in Attempt, NEW p \in Phases, <<s, a, p>> \in opens'
                 PROVE  InFlightOK(s, a, p)'
        BY DEF OpensOK
    <2>1. a # attempt /\ InFlightOK(s, a, p)
        BY <1>1, <1>2 DEF SessionOK, OpensOK
    <2> QED
        BY <2>1 DEF InFlightOK
<1>5. HoldsOK(s)'
    <2> SUFFICES ASSUME NEW a \in Attempt
                 PROVE  /\ <<s, a>> \in held' => a <= mgr'[s].epoch
                        /\ Holds(s, a)' =>
                           /\ \A b \in Attempt : Holds(s, b)' => a = b
                           /\ mgr'[s].close = "none" => a \in {mgr'[s].database, mgr'[s].init}
                           /\ mgr'[s].close = "closing" =>
                                a \in {mgr'[s].current, mgr'[s].pending} \/ mgr'[s].lateError
        BY DEF HoldsOK
    <2>1. <<s, a>> \in held' => a <= mgr'[s].epoch
        BY <1>1 DEF SessionOK, HoldsOK, InFlightOK
    <2>2. ASSUME Holds(s, a)'
          PROVE  /\ \A b \in Attempt : Holds(s, b)' => a = b
                 /\ mgr[s].close = "none" => a \in {mgr[s].database, mgr[s].init}
                 /\ mgr[s].close = "closing" =>
                       a \in {mgr[s].current, mgr[s].pending} \/ mgr[s].lateError
        BY <1>1, <1>3, <2>2 DEF SessionOK, HoldsOK
    <2>3. Holds(s, a)' /\ a = attempt => mgr'[s].lateError /\ mgr[s].close # "none"
        BY <1>2 DEF Holds, Phases
    <2> QED
        BY <2>1, <2>2, <2>3
<1>6. ManagerOK(s)'
    BY <1>1 DEF SessionOK, ManagerOK, None
<1>7. s # live => mgr'[s].init = None /\ mgr'[s].database = None /\ mgr'[s].close # "none"
    BY <1>1 DEF SessionIInv, Hook, CleanedUp
<1> QED
    BY <1>1, <1>3, <1>4, <1>5, <1>6, <1>7, ManagerStep DEF SessionOK

\* Database.open rejects, whoever still waits for it.
LEMMA OpenFailsStep ==
    ASSUME SessionIInv, NEW s \in Sessions, NEW attempt \in Attempt, NEW leaves \in BOOLEAN,
           OpenFails(s, attempt, leaves)
    PROVE  SessionIInv'
<1>1. PICK stage \in {"opening", "lost"} :
          /\ <<s, attempt, stage>> \in opens
          /\ opens' = opens \ {<<s, attempt, stage>>}
    BY DEF OpenFails
<1>2. /\ mgr[s] \in Manager /\ InFlightOK(s, attempt, stage)
    BY <1>1, InFlight DEF Phases
<1>3. /\ held' = IF leaves THEN held \cup {<<s, attempt>>} ELSE held
      /\ leaked' = IF leaves THEN leaked \cup {<<s, attempt>>} ELSE leaked
      /\ UNCHANGED <<effect, live, made, tail, owned, user, owner>>
    BY DEF OpenFails
<1>4. PICK m \in {SettleInit(mgr[s], attempt), [SettleInit(mgr[s], attempt) EXCEPT !.status = "error"]} :
          mgr' = [mgr EXCEPT ![s] = m]
    BY DEF OpenFails, Becomes
<1>5. /\ m \in Manager
      /\ m.init = IF mgr[s].init = attempt THEN None ELSE mgr[s].init
      /\ m.pending = IF mgr[s].pending = attempt THEN None ELSE mgr[s].pending
      /\ m.epoch = mgr[s].epoch /\ m.database = mgr[s].database
      /\ m.close = mgr[s].close /\ m.current = mgr[s].current
      /\ m.lateError = mgr[s].lateError
    BY <1>2, <1>4, SettleFields DEF Manager, Statuses
<1>6. /\ mgr' \in [Sessions -> Manager] /\ mgr'[s] = m
      /\ \A u \in Sessions \ {s} : mgr'[u] = mgr[u]
    BY <1>4, <1>5, SetManager DEF SessionIInv, Typed
<1>7. Typed'
    BY <1>1, <1>3, <1>6 DEF SessionIInv, Typed
<1>8. Elsewhere(s)
    BY <1>1, <1>3, <1>6 DEF Elsewhere
<1>9. <<s, attempt>> \notin held' \ leaked'
    BY <1>2, <1>3, <1>1 DEF InFlightOK
<1>10. \A a \in Attempt : a # attempt =>
          (<<s, a>> \in held' <=> <<s, a>> \in held) /\ (<<s, a>> \in leaked' <=> <<s, a>> \in leaked)
    BY <1>3
<1> QED
    BY <1>1, <1>3, <1>5, <1>6, <1>7, <1>8, <1>9, <1>10, OpenEnds DEF Phases

\* The close of a late arrival settles; a failure is kept for close().
LEMMA LateClosedStep ==
    ASSUME SessionIInv, NEW s \in Sessions, NEW attempt \in Attempt, NEW ok \in BOOLEAN,
           LateClosed(s, attempt, ok)
    PROVE  SessionIInv'
<1>1. /\ <<s, attempt, "late closing">> \in opens
      /\ opens' = opens \ {<<s, attempt, "late closing">>}
      /\ held' = IF ok THEN held \ {<<s, attempt>>} ELSE held
      /\ UNCHANGED <<leaked, effect, live, made, tail, owned, user, owner>>
    BY DEF LateClosed, Closes
<1>2. /\ mgr[s] \in Manager /\ InFlightOK(s, attempt, "late closing")
    BY <1>1, InFlight DEF Phases
<1>11. PICK r \in Manager :
          /\ r = SettleInit(mgr[s], attempt)
          /\ r.init = IF mgr[s].init = attempt THEN None ELSE mgr[s].init
          /\ r.pending = IF mgr[s].pending = attempt THEN None ELSE mgr[s].pending
          /\ r.epoch = mgr[s].epoch /\ r.database = mgr[s].database
          /\ r.close = mgr[s].close /\ r.current = mgr[s].current
    <2>1. mgr[s] \in Manager
        BY <1>2
    <2>2. SettleInit(mgr[s], attempt) \in Manager
        BY <2>1, SettleFields
    <2>3. SettleInit(mgr[s], attempt).init = IF mgr[s].init = attempt THEN None ELSE mgr[s].init
        BY <2>1, SettleFields
    <2>4. SettleInit(mgr[s], attempt).pending = IF mgr[s].pending = attempt THEN None ELSE mgr[s].pending
        BY <2>1, SettleFields
    <2>5. SettleInit(mgr[s], attempt).epoch = mgr[s].epoch
        BY <2>1, SettleFields
    <2> QED
        BY <2>1, <2>2, <2>3, <2>4, <2>5, SettleFields
<1> DEFINE m == [r EXCEPT !.lateError = mgr[s].lateError \/ ~ok]
<1>3. mgr' = [mgr EXCEPT ![s] = m]
    BY <1>11 DEF LateClosed
<1>4. /\ m \in Manager
      /\ m.init = IF mgr[s].init = attempt THEN None ELSE mgr[s].init
      /\ m.pending = IF mgr[s].pending = attempt THEN None ELSE mgr[s].pending
      /\ m.epoch = mgr[s].epoch /\ m.database = mgr[s].database
      /\ m.close = mgr[s].close /\ m.current = mgr[s].current
      /\ m.lateError = (mgr[s].lateError \/ ~ok)
    <2>1. (mgr[s].lateError \/ ~ok) \in BOOLEAN
        OBVIOUS
    <2>2. /\ m.init = r.init /\ m.pending = r.pending /\ m.epoch = r.epoch
          /\ m.database = r.database /\ m.close = r.close /\ m.current = r.current
          /\ m.lateError = (mgr[s].lateError \/ ~ok)
        BY DEF Manager
    <2>3. m \in Manager
        BY <2>1 DEF Manager
    <2> HIDE DEF m
    <2> QED
        BY <1>11, <2>2, <2>3
<1> HIDE DEF m
<1>5. /\ mgr' \in [Sessions -> Manager] /\ mgr'[s] = m
      /\ \A u \in Sessions \ {s} : mgr'[u] = mgr[u]
    BY <1>3, <1>4, SetManager DEF SessionIInv, Typed
<1>6. Typed'
    BY <1>1, <1>5 DEF SessionIInv, Typed
<1>7. Elsewhere(s)
    BY <1>1, <1>5 DEF Elsewhere
<1>8. <<s, attempt>> \in held' \ leaked' =>
         <<s, attempt>> \in held \ leaked /\ mgr'[s].lateError /\ mgr[s].close # "none"
    BY <1>1, <1>2, <1>4, <1>5 DEF InFlightOK
<1>9. \A a \in Attempt : a # attempt =>
          (<<s, a>> \in held' <=> <<s, a>> \in held) /\ (<<s, a>> \in leaked' <=> <<s, a>> \in leaked)
    BY <1>1
<1>10. mgr[s].lateError => mgr'[s].lateError
    BY <1>4, <1>5
<1> QED
    BY <1>1, <1>4, <1>5, <1>6, <1>7, <1>8, <1>9, <1>10, OpenEnds DEF Phases

\* Database.open resolves: the manager has its database, or a close has begun
\* and the late arrival is closed.
LEMMA OpenedStep ==
    ASSUME SessionIInv, NEW s \in Sessions, NEW attempt \in Attempt, OpenSucceeds(s, attempt)
    PROVE  SessionIInv'
<1>1. /\ <<s, attempt, "opening">> \in opens
      /\ held' = held \cup {<<s, attempt>>}
      /\ UNCHANGED <<leaked, effect, live, made, tail, owned, user, owner>>
    BY DEF OpenSucceeds
<1>2. /\ mgr[s] \in Manager /\ s \in made /\ SessionOK(s)
      /\ InFlightOK(s, attempt, "opening")
      /\ s # live => mgr[s].close # "none"
    BY <1>1, InFlight DEF Phases
<1>3. Holds(s, attempt)
    BY <1>1 DEF Holds
<1>4. CASE attempt = mgr[s].epoch
    <2> DEFINE m == [SettleInit(mgr[s], attempt) EXCEPT !.database = attempt, !.status = "ready"]
    <2>1. /\ opens' = opens \ {<<s, attempt, "opening">>}
          /\ mgr' = [mgr EXCEPT ![s] = m]
        BY <1>4 DEF OpenSucceeds, Becomes
    <2>2. mgr[s].close = "none" /\ mgr[s].init = attempt
        BY <1>2, <1>4 DEF InFlightOK, Attempt, Manager
    <2>3. /\ m \in Manager /\ m.init = None /\ m.database = attempt
          /\ m.epoch = attempt /\ m.close = "none"
        <3> DEFINE r == SettleInit(mgr[s], attempt)
        <3>1. /\ r \in Manager /\ r.init = None
              /\ r.epoch = attempt /\ r.close = "none"
            BY <1>2, <1>4, <2>2, SettleFields
        <3>2. m = [r EXCEPT !.database = attempt, !.status = "ready"]
            OBVIOUS
        <3> HIDE DEF m, r
        <3>3. m \in Manager
            BY <3>1, <3>2 DEF Manager, Statuses, Attempt
        <3> QED
            BY <3>1, <3>2, <3>3 DEF Manager
    <2> HIDE DEF m
    <2>4. /\ mgr' \in [Sessions -> Manager] /\ mgr'[s] = m
          /\ \A u \in Sessions \ {s} : mgr'[u] = mgr[u]
        BY <2>1, <2>3, SetManager DEF SessionIInv, Typed
    <2>5. \A a \in Attempt, p \in Phases : <<s, a, p>> \notin opens'
        BY <1>2, <2>1, <2>2 DEF SessionOK, OpensOK, InFlightOK
    <2>6. \A a \in Attempt : Holds(s, a)' => a = attempt
        BY <1>1, <1>2, <1>3, <2>5 DEF Holds, Phases, SessionOK, HoldsOK
    <2>7. OpensOK(s)'
        BY <2>5 DEF OpensOK
    <2>8. \A a \in Attempt : <<s, a>> \in held' => a <= attempt
        BY <1>1, <1>2, <1>4 DEF SessionOK, HoldsOK, Attempt
    <2>9. HoldsOK(s)'
        BY <2>3, <2>4, <2>6, <2>8 DEF HoldsOK
    <2>10. ManagerOK(s)'
        BY <2>3, <2>4 DEF ManagerOK
    <2>11. Typed'
        BY <1>1, <2>1, <2>4 DEF SessionIInv, Typed
    <2>12. Elsewhere(s)
        BY <1>1, <2>1, <2>4 DEF Elsewhere
    <2> QED
        BY <1>1, <1>2, <2>2, <2>7, <2>9, <2>10, <2>11, <2>12, ManagerStep DEF SessionOK
<1>5. CASE attempt # mgr[s].epoch
    <2>1. /\ opens' = (opens \ {<<s, attempt, "opening">>}) \cup {<<s, attempt, "late closing">>}
          /\ mgr' = mgr
        BY <1>5 DEF OpenSucceeds
    <2>2. mgr[s].close # "none"
        BY <1>2, <1>5 DEF InFlightOK
    <2>3. \A a \in Attempt : Holds(s, a)' => Holds(s, a)
        BY <1>1, <1>3, <2>1 DEF Holds
    <2>4. OpensOK(s)'
        <3> SUFFICES ASSUME NEW a \in Attempt, NEW p \in Phases, <<s, a, p>> \in opens'
                     PROVE  InFlightOK(s, a, p)'
            BY DEF OpensOK
        <3>1. CASE a = attempt
            <4>1. p = "late closing" /\ \A q \in Phases : <<s, a, q>> \in opens' => q = p
                BY <1>2, <2>1, <3>1 DEF InFlightOK
            <4> QED
                BY <1>2, <2>1, <2>2, <3>1, <4>1 DEF InFlightOK
        <3>2. CASE a # attempt
            <4>1. InFlightOK(s, a, p)
                BY <1>2, <2>1, <3>2 DEF SessionOK, OpensOK
            <4>2. /\ \A q \in Phases : <<s, a, q>> \in opens' <=> <<s, a, q>> \in opens
                  /\ <<s, a>> \in held' <=> <<s, a>> \in held
                BY <1>1, <2>1, <3>2
            <4> QED
                BY <2>1, <4>1, <4>2 DEF InFlightOK
        <3> QED
            BY <3>1, <3>2
    <2>5. \A a \in Attempt : <<s, a>> \in held' => a <= mgr[s].epoch
        BY <1>1, <1>2 DEF SessionOK, HoldsOK, InFlightOK
    <2>6. HoldsOK(s)'
        BY <1>2, <2>1, <2>3, <2>5 DEF SessionOK, HoldsOK
    <2>7. ManagerOK(s)'
        BY <1>2, <2>1 DEF SessionOK, ManagerOK
    <2>8. Typed'
        <3>1. <<s, attempt, "late closing">> \in Sessions \X Attempt \X Phases
            BY DEF Phases
        <3>2. opens' \subseteq Sessions \X Attempt \X Phases
            BY <2>1, <3>1 DEF SessionIInv, Typed
        <3>3. held' \subseteq Sessions \X Attempt
            BY <1>1 DEF SessionIInv, Typed
        <3> QED
            BY <1>1, <2>1, <3>2, <3>3 DEF SessionIInv, Typed
    <2>9. Elsewhere(s)
        BY <1>1, <2>1 DEF Elsewhere
    <2>10. s # live => mgr'[s].init = None /\ mgr'[s].database = None
        BY <1>2, <2>1 DEF SessionIInv, Hook, CleanedUp
    <2> QED
        BY <1>1, <1>2, <2>1, <2>2, <2>3, <2>4, <2>6, <2>7, <2>8, <2>9, <2>10, ManagerStep
           DEF SessionOK
<1> QED
    BY <1>4, <1>5

\* A step of a manager that leaves its opens alone and takes nothing new.
LEMMA QuietStep ==
    ASSUME SessionIInv, Typed', NEW s \in made, Elsewhere(s),
           \A a \in Attempt, p \in Phases : <<s, a, p>> \in opens' <=> <<s, a, p>> \in opens,
           \A a \in Attempt : <<s, a>> \in held' => <<s, a>> \in held,
           \A a \in Attempt : Holds(s, a)' => Holds(s, a),
           UNCHANGED <<effect, live, made, tail, owned, user, owner>>,
           mgr'[s].epoch = mgr[s].epoch, mgr'[s].init = mgr[s].init,
           mgr'[s].pending = mgr[s].pending,
           mgr'[s].database \in {None, mgr[s].database},
           mgr'[s].current \in {None, mgr[s].current},
           mgr'[s].close \in {mgr[s].close, "failed"} /\ (mgr'[s].close # "none" => mgr[s].close # "none"),
           \A a \in Attempt : Holds(s, a)' =>
              /\ mgr'[s].close = "none" => a \in {mgr'[s].database, mgr'[s].init}
              /\ mgr'[s].close = "closing" =>
                    a \in {mgr'[s].current, mgr'[s].pending} \/ mgr'[s].lateError
    PROVE  SessionIInv'
<1>1. s \in Sessions /\ mgr[s] \in Manager /\ SessionOK(s)
    BY DEF SessionIInv, Typed
<1>2. OpensOK(s)'
    <2> SUFFICES ASSUME NEW a \in Attempt, NEW p \in Phases, <<s, a, p>> \in opens'
                 PROVE  InFlightOK(s, a, p)'
        BY DEF OpensOK
    <2>1. InFlightOK(s, a, p)
        BY <1>1 DEF SessionOK, OpensOK
    <2> QED
        BY <2>1 DEF InFlightOK
<1>3. HoldsOK(s)'
    BY <1>1 DEF SessionOK, HoldsOK
<1>4. ManagerOK(s)'
    BY <1>1 DEF SessionOK, ManagerOK, Manager
<1>5. s # live => /\ mgr'[s].init = None /\ mgr'[s].database = None
                  /\ \A a \in Attempt : Holds(s, a)' => Holds(s, a) /\ mgr'[s].close # "none"
    BY <1>1 DEF SessionIInv, Hook, CleanedUp
<1> QED
    BY <1>1, <1>2, <1>3, <1>4, <1>5, ManagerStep DEF SessionOK

\* The close of the database works, or fails and its promise is the answer.
LEMMA CurrentClosedStep ==
    ASSUME SessionIInv, NEW s \in Sessions, NEW ok \in BOOLEAN, CurrentClosed(s, ok)
    PROVE  SessionIInv'
<1>1. /\ mgr[s].close = "closing" /\ mgr[s].current # None
      /\ held' = IF ok THEN held \ {<<s, mgr[s].current>>} ELSE held
      /\ UNCHANGED <<opens, leaked, effect, live, made, tail, owned, user, owner>>
    BY DEF CurrentClosed, Closes
<1>2. mgr[s] \in Manager /\ SessionOK(s)
    BY DEF SessionIInv, Typed
<1>3. s \in made
    BY <1>1, MadeFirst
<1> DEFINE m == [mgr[s] EXCEPT !.current = None,
                               !.close = IF ok THEN mgr[s].close ELSE "failed"]
<1>4. mgr' = [mgr EXCEPT ![s] = m]
    BY DEF CurrentClosed, SessionIInv, Typed
<1>5. /\ m \in Manager /\ m.epoch = mgr[s].epoch /\ m.init = mgr[s].init
      /\ m.pending = mgr[s].pending /\ m.database = mgr[s].database
      /\ m.current = None /\ m.close = IF ok THEN "closing" ELSE "failed"
      /\ m.lateError = mgr[s].lateError
    BY <1>1, <1>2 DEF Manager, None
<1> HIDE DEF m
<1>6. /\ mgr' \in [Sessions -> Manager] /\ mgr'[s] = m
      /\ \A u \in Sessions \ {s} : mgr'[u] = mgr[u]
    BY <1>4, <1>5, SetManager DEF SessionIInv, Typed
<1>7. Typed'
    BY <1>1, <1>6 DEF SessionIInv, Typed
<1>8. Elsewhere(s)
    BY <1>1, <1>6 DEF Elsewhere
<1>9. \A a \in Attempt : Holds(s, a)' => Holds(s, a) /\ (ok => a # mgr[s].current)
    <2> SUFFICES ASSUME NEW a \in Attempt, Holds(s, a)'
                 PROVE  Holds(s, a) /\ (ok => a # mgr[s].current)
        OBVIOUS
    <2>1. Holds(s, a)
        BY <1>1 DEF Holds
    <2>2. \A p \in Phases : <<s, a, p>> \notin opens
        BY <1>1, <1>2 DEF SessionOK, OpensOK, InFlightOK, ManagerOK, Attempt, None
    <2> QED
        BY <1>1, <2>1, <2>2 DEF Holds, Phases
<1>10. mgr[s].pending = None
    BY <1>1, <1>2 DEF SessionOK, ManagerOK
<1>11. ASSUME NEW a \in Attempt, Holds(s, a)', ok
       PROVE  a \in {m.current, m.pending} \/ m.lateError
    BY <1>1, <1>2, <1>5, <1>9, <1>10, <1>11 DEF SessionOK, HoldsOK, Attempt, None
<1> QED
    BY <1>1, <1>3, <1>5, <1>6, <1>7, <1>8, <1>9, <1>11, QuietStep

\* The teardown ends: what is closed is free, or the failure is the answer.
LEMMA CloseSettlesStep ==
    ASSUME SessionIInv, NEW s \in Sessions, CloseSettles(s)
    PROVE  SessionIInv'
<1>1. /\ mgr[s].close = "closing" /\ mgr[s].current = None /\ mgr[s].pending = None
      /\ UNCHANGED <<opens, held, leaked, effect, live, made, tail, owned, user, owner>>
    BY DEF CloseSettles
<1>2. mgr[s] \in Manager /\ SessionOK(s)
    BY DEF SessionIInv, Typed
<1>3. s \in made
    BY <1>1, MadeFirst
<1> DEFINE m == [mgr[s] EXCEPT !.close = IF mgr[s].lateError THEN "failed" ELSE "none",
                               !.lateError = FALSE]
<1>4. mgr' = [mgr EXCEPT ![s] = m]
    BY DEF CloseSettles, SessionIInv, Typed
<1>5. /\ m \in Manager /\ m.epoch = mgr[s].epoch /\ m.init = mgr[s].init
      /\ m.database = mgr[s].database
      /\ m.close = IF mgr[s].lateError THEN "failed" ELSE "none"
    BY <1>2 DEF Manager
<1> HIDE DEF m
<1>6. /\ mgr' \in [Sessions -> Manager] /\ mgr'[s] = m
      /\ \A u \in Sessions \ {s} : mgr'[u] = mgr[u]
    BY <1>4, <1>5, SetManager DEF SessionIInv, Typed
<1>7. Typed'
    BY <1>1, <1>6 DEF SessionIInv, Typed
<1>8. Elsewhere(s)
    BY <1>1, <1>6 DEF Elsewhere
<1>9. \A a \in Attempt, p \in Phases : <<s, a, p>> \notin opens'
    BY <1>1, <1>2 DEF SessionOK, OpensOK, InFlightOK, Attempt, None
<1>10. \A a \in Attempt : Holds(s, a)' => Holds(s, a) /\ mgr[s].lateError
    <2>1. \A a \in Attempt : Holds(s, a)' => Holds(s, a)
        BY <1>1 DEF Holds
    <2> QED
        BY <1>1, <1>2, <2>1 DEF SessionOK, HoldsOK, Attempt, None
<1>11. OpensOK(s)'
    BY <1>9 DEF OpensOK
<1>12. HoldsOK(s)'
    BY <1>1, <1>2, <1>5, <1>6, <1>10 DEF SessionOK, HoldsOK
<1>13. mgr[s].init = None /\ mgr[s].database = None
    BY <1>1, <1>2 DEF SessionOK, ManagerOK
<1>14. ManagerOK(s)'
    BY <1>5, <1>6, <1>13 DEF ManagerOK
<1> QED
    BY <1>1, <1>3, <1>5, <1>6, <1>7, <1>8, <1>10, <1>11, <1>12, <1>13, <1>14, ManagerStep
       DEF SessionOK

\* Another tab takes the file, or an open that had yet to get it.
LEMMA TakenOverStep ==
    ASSUME SessionIInv, NEW s \in Sessions, NEW attempt \in Attempt, TakenOver(s, attempt)
    PROVE  SessionIInv'
<1>1. UNCHANGED <<effect, live, made, tail, owned, user, owner>>
    BY DEF TakenOver
<1>2. mgr[s] \in Manager /\ SessionOK(s)
    BY DEF SessionIInv, Typed
<1>3. s \in made
    BY MadeFirst DEF TakenOver, Phases
<1>4. PICK m \in Manager :
         /\ mgr' = [mgr EXCEPT ![s] = m]
         /\ m.epoch = mgr[s].epoch /\ m.init = mgr[s].init /\ m.pending = mgr[s].pending
         /\ m.database = IF attempt = mgr[s].epoch THEN None ELSE mgr[s].database
         /\ m.current = mgr[s].current /\ m.close = mgr[s].close
         /\ m.lateError = mgr[s].lateError
    <2>1. CASE attempt = mgr[s].epoch
        <3> DEFINE m == [mgr[s] EXCEPT !.database = None, !.status = "taken-over"]
        <3>1. mgr' = [mgr EXCEPT ![s] = m]
            BY <2>1 DEF TakenOver, Becomes
        <3>2. /\ m.epoch = mgr[s].epoch /\ m.init = mgr[s].init
              /\ m.pending = mgr[s].pending /\ m.database = None
              /\ m.current = mgr[s].current /\ m.close = mgr[s].close
              /\ m.lateError = mgr[s].lateError
            BY <1>2 DEF Manager
        <3>3. m \in Manager
            BY <1>2 DEF Manager, Statuses, None
        <3> QED
            BY <2>1, <3>1, <3>2, <3>3
    <2>2. CASE attempt # mgr[s].epoch
        <3>1. mgr' = [mgr EXCEPT ![s] = mgr[s]]
            BY <2>2 DEF TakenOver, SessionIInv, Typed
        <3> QED
            BY <1>2, <2>2, <3>1
    <2> QED
        BY <2>1, <2>2
<1>5. /\ mgr' \in [Sessions -> Manager] /\ mgr'[s] = m
      /\ \A u \in Sessions \ {s} : mgr'[u] = mgr[u]
    BY <1>4, SetManager DEF SessionIInv, Typed
<1>6. CASE /\ <<s, attempt>> \in held /\ held' = held \ {<<s, attempt>>}
           /\ leaked' = leaked \ {<<s, attempt>>} /\ opens' = opens
    <2>1. Typed'
        BY <1>1, <1>5, <1>6 DEF SessionIInv, Typed
    <2>2. Elsewhere(s)
        BY <1>5, <1>6 DEF Elsewhere
    <2>3. \A a \in Attempt : Holds(s, a)' => Holds(s, a)
        BY <1>6 DEF Holds
    <2>4. ASSUME NEW a \in Attempt, Holds(s, a)', mgr[s].close = "none"
          PROVE  a \in {m.database, m.init}
        <3>1. a \in {mgr[s].database, mgr[s].init}
            BY <1>2, <2>3, <2>4 DEF SessionOK, HoldsOK
        <3>2. CASE a = mgr[s].database /\ attempt = mgr[s].epoch
            <4>1. a = attempt /\ mgr[s].init = None
                BY <1>2, <3>2 DEF SessionOK, ManagerOK, Attempt, None
            <4>2. <<s, a>> \notin held' /\ \A p \in Phases : <<s, a, p>> \notin opens
                BY <1>2, <1>6, <2>4, <4>1
                   DEF SessionOK, OpensOK, InFlightOK, Attempt, None
            <4> QED
                BY <1>6, <2>4, <4>2 DEF Holds, Phases
        <3> QED
            BY <1>4, <3>1, <3>2
    <2>5. ASSUME NEW a \in Attempt, Holds(s, a)', mgr[s].close = "closing"
          PROVE  a \in {m.current, m.pending} \/ m.lateError
        BY <1>2, <1>4, <2>3, <2>5 DEF SessionOK, HoldsOK
    <2> QED
        BY <1>1, <1>3, <1>4, <1>5, <1>6, <2>1, <2>2, <2>3, <2>4, <2>5, QuietStep
<1>7. CASE /\ <<s, attempt, "opening">> \in opens
           /\ opens' = (opens \ {<<s, attempt, "opening">>}) \cup {<<s, attempt, "lost">>}
           /\ UNCHANGED <<held, leaked>>
    <2>1. Typed'
        <3>1. <<s, attempt, "lost">> \in Sessions \X Attempt \X Phases
            BY DEF Phases
        <3>2. opens' \subseteq Sessions \X Attempt \X Phases
            BY <1>7, <3>1 DEF SessionIInv, Typed
        <3> QED
            BY <1>1, <1>5, <1>7, <3>2 DEF SessionIInv, Typed
    <2>2. Elsewhere(s)
        BY <1>5, <1>7 DEF Elsewhere
    <2>3. InFlightOK(s, attempt, "opening") /\ (s # live => mgr[s].close # "none")
        BY <1>7, InFlight DEF Phases
    <2>4. \A a \in Attempt : Holds(s, a)' => Holds(s, a)
        BY <1>7 DEF Holds
    <2>5. mgr[s].close = "none" => mgr[s].database = None
        BY <1>2, <2>3 DEF InFlightOK, SessionOK, ManagerOK, Attempt, None
    <2>6. m.database = mgr[s].database
        BY <1>2, <1>4, <2>5 DEF SessionOK, ManagerOK
    <2>7. OpensOK(s)'
        <3> SUFFICES ASSUME NEW a \in Attempt, NEW p \in Phases, <<s, a, p>> \in opens'
                     PROVE  InFlightOK(s, a, p)'
            BY DEF OpensOK
        <3>1. CASE a = attempt
            <4>1. p = "lost" /\ \A q \in Phases : <<s, a, q>> \in opens' => q = p
                BY <1>7, <2>3, <3>1 DEF InFlightOK
            <4> QED
                BY <1>4, <1>5, <1>7, <2>3, <3>1, <4>1 DEF InFlightOK
        <3>2. CASE a # attempt
            <4>1. InFlightOK(s, a, p)
                BY <1>2, <1>7, <3>2 DEF SessionOK, OpensOK
            <4>2. \A q \in Phases : <<s, a, q>> \in opens' <=> <<s, a, q>> \in opens
                BY <1>7, <3>2
            <4> QED
                BY <1>4, <1>5, <1>7, <4>1, <4>2 DEF InFlightOK
        <3> QED
            BY <3>1, <3>2
    <2>8. HoldsOK(s)'
        BY <1>2, <1>4, <1>5, <1>7, <2>4, <2>6 DEF SessionOK, HoldsOK
    <2>9. ManagerOK(s)'
        BY <1>2, <1>4, <1>5, <2>6 DEF SessionOK, ManagerOK
    <2>10. s # live => mgr'[s].init = None /\ mgr'[s].database = None /\ mgr'[s].close # "none"
        BY <1>3, <1>4, <1>5, <2>3, <2>6 DEF SessionIInv, Hook, CleanedUp, Typed
    <2> QED
        BY <1>1, <1>3, <2>1, <2>2, <2>4, <2>7, <2>8, <2>9, <2>10, ManagerStep DEF SessionOK
<1> QED
    BY <1>6, <1>7 DEF TakenOver

\* A manager with nothing open and nothing in flight opens.
LEMMA LoadingKeeps ==
    ASSUME NEW s \in Sessions, mgr[s] \in Manager, SessionOK(s),
           mgr[s].close = "none", mgr[s].database = None, mgr[s].init = None,
           mgr'[s] = Loading(mgr[s]),
           opens' = opens \cup {<<s, mgr[s].epoch + 1, "opening">>},
           held' = held, leaked' = leaked
    PROVE  SessionOK(s)'
<1> DEFINE e == mgr[s].epoch + 1
<1>1. /\ e \in Attempt /\ mgr[s].epoch < e
      /\ mgr'[s].epoch = e /\ mgr'[s].init = e /\ mgr'[s].close = "none"
      /\ mgr'[s].database = None
    BY LoadingFields DEF Manager, Attempt
<1>2. \A a \in Attempt, p \in Phases : <<s, a, p>> \notin opens
    BY DEF SessionOK, OpensOK, InFlightOK, Attempt, None
<1>3. \A a \in Attempt : ~Holds(s, a)
    BY DEF SessionOK, HoldsOK, Attempt, None
<1>4. \A a \in Attempt : <<s, a>> \in held => a <= mgr[s].epoch
    BY DEF SessionOK, HoldsOK
<1>5. mgr[s].epoch \in Nat
    BY DEF Manager
<1>6. <<s, e>> \notin held
    BY <1>1, <1>4, <1>5
<1>7. opens' = opens \cup {<<s, e, "opening">>}
    OBVIOUS
<1> HIDE DEF e
<1>8. OpensOK(s)'
    <2> SUFFICES ASSUME NEW a \in Attempt, NEW p \in Phases, <<s, a, p>> \in opens'
                 PROVE  InFlightOK(s, a, p)'
        BY DEF OpensOK
    <2>1. a = e /\ p = "opening"
        BY <1>2, <1>7
    <2>2. \A q \in Phases : <<s, a, q>> \in opens' => q = p
        BY <1>2, <1>7, <2>1
    <2>3. a <= mgr'[s].epoch
        BY <1>1, <2>1 DEF Attempt
    <2> QED
        BY <1>1, <1>6, <2>1, <2>2, <2>3 DEF InFlightOK
<1>9. \A a \in Attempt : Holds(s, a)' => a = e
    BY <1>3, <1>7 DEF Holds
<1>10. \A a \in Attempt : <<s, a>> \in held' => a <= mgr'[s].epoch
    BY <1>1, <1>4, <1>5 DEF Attempt
<1>11. HoldsOK(s)'
    BY <1>1, <1>9, <1>10 DEF HoldsOK
<1>12. ManagerOK(s)'
    BY <1>1 DEF ManagerOK
<1> QED
    BY <1>8, <1>11, <1>12 DEF SessionOK

\* The manager the hook hands out is that of the live session.
LEMMA ReturnedIsLive ==
    ASSUME SessionIInv, Returned # None
    PROVE  /\ Returned = live /\ live \in made /\ live \in Sessions
           /\ mgr[live] \in Manager /\ SessionOK(live)
<1>1. Returned = live /\ live \in made
    BY DEF Returned, SessionIInv, Hook
<1> QED
    BY <1>1 DEF SessionIInv, Typed

LEMMA RetryStep == SessionIInv /\ Retry => SessionIInv'
<1> SUFFICES ASSUME SessionIInv, Retry PROVE SessionIInv'
    OBVIOUS
<1>1. PICK s \in made : /\ s = live /\ Returned = s /\ s \in Sessions
                        /\ mgr[s] \in Manager /\ SessionOK(s)
    BY ReturnedIsLive DEF Retry
<1>2. /\ mgr' = [mgr EXCEPT ![s] = Loading(mgr[s])]
      /\ opens' = opens \cup {<<s, mgr[s].epoch + 1, "opening">>}
      /\ held' = held /\ leaked' = leaked
      /\ UNCHANGED <<effect, live, made, tail, owned, user, owner>>
      /\ mgr[s].close = "none" /\ mgr[s].database = None /\ mgr[s].init = None
    BY <1>1 DEF Retry, Becomes, MayOpen
<1>3. /\ mgr' \in [Sessions -> Manager] /\ mgr'[s] = Loading(mgr[s])
      /\ \A u \in Sessions \ {s} : mgr'[u] = mgr[u]
    BY <1>1, <1>2, LoadingFields, SetManager DEF SessionIInv, Typed
<1>4. SessionOK(s)'
    BY <1>1, <1>2, <1>3, LoadingKeeps
<1>5. <<s, mgr[s].epoch + 1, "opening">> \in Sessions \X Attempt \X Phases
    <2>1. mgr[s].epoch + 1 \in Attempt
        BY <1>1 DEF Manager, Attempt
    <2> QED
        BY <1>1, <2>1 DEF Phases
<1>6. opens' \subseteq Sessions \X Attempt \X Phases
    BY <1>2, <1>5 DEF SessionIInv, Typed
<1>7. Typed'
    BY <1>2, <1>3, <1>6 DEF SessionIInv, Typed
<1>8. Elsewhere(s)
    BY <1>2, <1>3 DEF Elsewhere
<1> QED
    BY <1>1, <1>2, <1>4, <1>7, <1>8, ManagerStep

LEMMA AppCloseStep == SessionIInv /\ AppClose => SessionIInv'
<1> SUFFICES ASSUME SessionIInv, AppClose PROVE SessionIInv'
    OBVIOUS
<1>1. PICK s \in made : /\ s = live /\ Returned = s /\ s \in Sessions
                        /\ mgr[s] \in Manager /\ SessionOK(s)
    BY ReturnedIsLive DEF AppClose
<1>2. /\ mgr' = [mgr EXCEPT ![s] = Closing(mgr[s])]
      /\ UNCHANGED <<opens, held, leaked>>
      /\ UNCHANGED <<effect, live, made, tail, owned, user, owner>>
    BY <1>1 DEF AppClose, Becomes
<1>3. /\ mgr' \in [Sessions -> Manager] /\ mgr'[s] = Closing(mgr[s])
      /\ \A u \in Sessions \ {s} : mgr'[u] = mgr[u]
    BY <1>1, <1>2, ClosingFields, SetManager DEF SessionIInv, Typed
<1>4. SessionOK(s)'
    BY <1>1, <1>2, <1>3, ClosingKeeps
<1>5. Typed'
    BY <1>2, <1>3 DEF SessionIInv, Typed
<1>6. Elsewhere(s)
    BY <1>2, <1>3 DEF Elsewhere
<1> QED
    BY <1>1, <1>2, <1>4, <1>5, <1>6, ManagerStep

\* The live session starts when the tail has let go of the file.
LEMMA StartStep == SessionIInv /\ StartSession => SessionIInv'
<1> SUFFICES ASSUME SessionIInv, StartSession PROVE SessionIInv'
    OBVIOUS
<1>0. PICK s \in Sessions : s = live
    BY DEF StartSession, SessionIInv, Typed
<1>1. /\ live = s /\ live # None /\ live \notin made /\ live = effect
      /\ tail # None => mgr[tail].close = "none"
      /\ mgr \in [Sessions -> Manager] /\ mgr[s] \in Manager
      /\ SessionOK(s) /\ Unmade(s)
    BY <1>0 DEF StartSession, TailResolved, SessionIInv, Typed, Hook
<1>2. /\ mgr[s] = NewManager /\ NewManager.epoch = 0
      /\ mgr[s].close = "none" /\ mgr[s].database = None /\ mgr[s].init = None
      /\ 1 = mgr[s].epoch + 1
    BY <1>1 DEF Unmade, NewManager
<1>3. /\ mgr' = [mgr EXCEPT ![s] = Loading(mgr[s])]
      /\ opens' = opens \cup {<<s, mgr[s].epoch + 1, "opening">>}
      /\ held' = held /\ leaked' = leaked /\ made' = made \cup {s} /\ owned' = s
      /\ effect' = effect /\ live' = s /\ tail' = tail
      /\ user' = user /\ owner' = owner
    <2>1. Loading(NewManager) = Loading(mgr[s])
        BY <1>2
    <2>2. <<live, 1, "opening">> = <<s, mgr[s].epoch + 1, "opening">>
        BY <1>1, <1>2
    <2> QED
        BY <1>1, <2>1, <2>2 DEF StartSession
<1>4. /\ mgr' \in [Sessions -> Manager] /\ mgr'[s] = Loading(mgr[s])
      /\ \A u \in Sessions \ {s} : mgr'[u] = mgr[u]
    BY <1>1, <1>3, LoadingFields, SetManager
<1>5. SessionOK(s)'
    BY <1>1, <1>2, <1>3, <1>4, LoadingKeeps
<1>6. <<s, 1, "opening">> \in Sessions \X Attempt \X Phases
    <2>1. 1 \in Attempt
        BY DEF Attempt
    <2> QED
        BY <1>1, <2>1 DEF Phases
<1>7. opens' \subseteq Sessions \X Attempt \X Phases
    BY <1>2, <1>3, <1>6 DEF SessionIInv, Typed
<1>8. Typed'
    BY <1>1, <1>3, <1>4, <1>7 DEF SessionIInv, Typed
<1>9. Elsewhere(s)
    BY <1>3, <1>4 DEF Elsewhere
<1>10. \A u \in Sessions : SessionOK(u)'
    BY <1>1, <1>5, <1>9, Untouched DEF SessionIInv
<1>11. ASSUME NEW u \in Sessions, u \notin made' PROVE Unmade(u)'
    <2>1. u # s /\ Unmade(u)
        BY <1>1, <1>3, <1>11 DEF SessionIInv, Hook
    <2> QED
        BY <1>1, <1>9, <2>1, Untouched
<1>12. ASSUME NEW u \in Sessions, u \in made', u # s PROVE CleanedUp(u)'
    <2>1. CleanedUp(u) /\ u \in made
        BY <1>1, <1>3, <1>12 DEF SessionIInv, Hook
    <2>2. \A a \in Attempt : ~Holds(u, a)
        BY <1>1, <2>1, SessionAssumption DEF CleanedUp, SessionIInv, Typed, None
    <2>3. mgr'[u] = mgr[u] /\ \A a \in Attempt : Holds(u, a)' <=> Holds(u, a)
        BY <1>1, <1>9, <1>12, Untouched
    <2> QED
        BY <2>1, <2>2, <2>3 DEF CleanedUp
<1>13. Hook'
    <2>1. \A u \in made : u <= effect
        BY DEF SessionIInv, Hook
    <2>2. effect \in Nat /\ s <= effect
        BY <1>1 DEF SessionIInv, Typed
    <2> QED
        BY <1>1, <1>3, <1>11, <1>12, <2>1, <2>2 DEF Hook
<1>14. RenderOK'
    BY <1>1, <1>3 DEF SessionIInv, RenderOK, EffectsPending
<1> QED
    BY <1>8, <1>10, <1>13, <1>14 DEF SessionIInv

\* The effects of a render: the live session's manager, if it made one, closes
\* and is the tail, and the next session has yet to make its own.
LEMMA RunEffectsStep == SessionIInv /\ RunEffects => SessionIInv'
<1> SUFFICES ASSUME SessionIInv, RunEffects PROVE SessionIInv'
    OBVIOUS
<1>1. /\ owned' = IF owned = live THEN None ELSE owned
      /\ made' = made /\ opens' = opens /\ held' = held /\ leaked' = leaked
      /\ user' = user
      /\ \/ live' = None /\ effect' = effect /\ owner' = owner /\ user = Nobody
         \/ /\ live' = effect + 1 /\ effect' = effect + 1 /\ effect + 1 \in Sessions
            /\ owner' = [owner EXCEPT ![effect + 1] = user]
    BY DEF RunEffects, SessionIInv, RenderOK
<1>2. effect \in Nat /\ None \notin Sessions /\ None \notin made /\ made \subseteq Sessions
    BY SessionAssumption DEF SessionIInv, Typed, None
<1>3. owned' = None /\ live' \notin made
    <2>1. \A s \in made : s <= effect
        BY DEF SessionIInv, Hook
    <2>2. effect + 1 \notin made
        BY <1>2, <2>1
    <2>3. owned # None => owned = live
        BY DEF SessionIInv, Hook
    <2> QED
        BY <1>1, <1>2, <2>2, <2>3
<1>4. \A u \in made : u <= effect'
    BY <1>1, <1>2, SessionAssumption DEF SessionIInv, Hook
<1>5. RenderOK'
    <2>1. user # Nobody => owner'[live'] = user /\ live' # None
        BY <1>1, <1>2 DEF SessionIInv, Typed
    <2> QED
        BY <1>1, <2>1 DEF RenderOK, EffectsPending
<1>6. \A u \in Sessions : \A a \in Attempt : Holds(u, a)' <=> Holds(u, a)
    BY <1>1 DEF Holds
<1>7. owner' \in [Sessions -> Users \cup {Nobody}]
    <2>1. user \in Users \cup {Nobody}
        BY DEF SessionIInv, Typed
    <2> QED
        BY <1>1, <2>1 DEF SessionIInv, Typed
<1>8. CASE live \in made
    <2>1. PICK s \in made : s = live
        BY <1>8
    <2>2. /\ s \in Sessions /\ mgr[s] \in Manager /\ SessionOK(s)
          /\ tail' = s /\ mgr' = [mgr EXCEPT ![s] = Closing(mgr[s])]
        BY <1>2, <2>1 DEF RunEffects, SessionIInv, Typed
    <2>3. /\ mgr' \in [Sessions -> Manager] /\ mgr'[s] = Closing(mgr[s])
          /\ \A u \in Sessions \ {s} : mgr'[u] = mgr[u]
        BY <2>2, ClosingFields, SetManager DEF SessionIInv, Typed
    <2>4. Typed'
        BY <1>1, <1>2, <1>3, <1>7, <2>2, <2>3 DEF SessionIInv, Typed
    <2>5. Elsewhere(s)
        BY <1>1, <2>3 DEF Elsewhere
    <2>6. /\ SessionOK(s)'
          /\ mgr'[s].init = None /\ mgr'[s].database = None /\ mgr'[s].close # "none"
        BY <1>1, <2>2, <2>3, ClosingKeeps
    <2>7. \A u \in Sessions : SessionOK(u)'
        BY <2>2, <2>5, <2>6, Untouched DEF SessionIInv
    <2>8. ASSUME NEW u \in Sessions, u \notin made PROVE Unmade(u)'
        BY <2>2, <2>5, <2>8, Untouched DEF SessionIInv, Hook
    <2>9. ASSUME NEW u \in made PROVE CleanedUp(u)'
        <3>1. CASE u = s
            BY <1>1, <1>3, <2>2, <2>6, <3>1 DEF CleanedUp
        <3>2. CASE u # s
            <4>1. u \in Sessions /\ CleanedUp(u)
                BY <1>2, <2>1, <3>2 DEF SessionIInv, Hook
            <4>2. \A a \in Attempt : ~Holds(u, a)
                BY <1>8, <4>1 DEF CleanedUp
            <4>3. mgr'[u] = mgr[u]
                BY <2>3, <3>2, <4>1
            <4> QED
                BY <1>6, <4>1, <4>2, <4>3 DEF CleanedUp
        <3> QED
            BY <3>1, <3>2
    <2>10. Hook'
        BY <1>1, <1>3, <1>4, <2>8, <2>9 DEF Hook
    <2> QED
        BY <1>5, <2>4, <2>7, <2>10 DEF SessionIInv
<1>9. CASE live \notin made
    <2>1. mgr' = mgr /\ tail' = tail
        BY <1>9 DEF RunEffects
    <2>2. Typed'
        BY <1>1, <1>2, <1>3, <1>7, <2>1 DEF SessionIInv, Typed
    <2>3. ASSUME NEW u \in Sessions PROVE SessionOK(u)'
        <3>1. SessionOK(u)
            BY DEF SessionIInv
        <3>2. OpensOK(u)'
            BY <1>1, <2>1, <3>1 DEF SessionOK, OpensOK, InFlightOK
        <3>3. HoldsOK(u)'
            BY <1>1, <1>6, <2>1, <3>1 DEF SessionOK, HoldsOK
        <3>4. ManagerOK(u)'
            BY <2>1, <3>1 DEF SessionOK, ManagerOK
        <3> QED
            BY <3>2, <3>3, <3>4 DEF SessionOK
    <2>4. ASSUME NEW u \in Sessions, u \notin made PROVE Unmade(u)'
        BY <1>1, <2>1, <2>4 DEF SessionIInv, Hook, Unmade, NewManager
    <2>5. ASSUME NEW u \in made PROVE CleanedUp(u)'
        <3>1. u \in Sessions /\ CleanedUp(u)
            BY <1>2, <1>9 DEF SessionIInv, Hook
        <3> QED
            BY <1>3, <1>1, <1>6, <2>1, <3>1 DEF CleanedUp
    <2>6. Hook'
        BY <1>1, <1>3, <1>4, <2>4, <2>5 DEF Hook
    <2> QED
        BY <1>5, <2>2, <2>3, <2>6 DEF SessionIInv
<1> QED
    BY <1>8, <1>9

\* The user may change: nothing else does.
LEMMA OnlyTheUser ==
    ASSUME SessionIInv, RenderOK', user' \in Users \cup {Nobody},
           UNCHANGED <<effect, live, owner, mgr, made, tail, owned, opens, held, leaked>>
    PROVE  SessionIInv'
<1>1. ASSUME NEW u \in Sessions
      PROVE  SessionOK(u)' /\ (Unmade(u) => Unmade(u)') /\ (CleanedUp(u) => CleanedUp(u)')
    <2>1. SessionOK(u)
        BY DEF SessionIInv
    <2>2. \A a \in Attempt : Holds(u, a)' <=> Holds(u, a)
        BY DEF Holds
    <2>3. OpensOK(u)'
        BY <2>1 DEF SessionOK, OpensOK, InFlightOK
    <2>4. HoldsOK(u)'
        BY <2>1, <2>2 DEF SessionOK, HoldsOK
    <2>5. ManagerOK(u)'
        BY <2>1 DEF SessionOK, ManagerOK
    <2>6. (Unmade(u) => Unmade(u)') /\ (CleanedUp(u) => CleanedUp(u)')
        BY <2>2 DEF Unmade, NewManager, CleanedUp
    <2> QED
        BY <2>3, <2>4, <2>5, <2>6 DEF SessionOK
<1>2. Hook'
    BY <1>1 DEF SessionIInv, Hook
<1>3. Typed'
    BY DEF SessionIInv, Typed
<1> QED
    BY <1>1, <1>2, <1>3 DEF SessionIInv

LEMMA SessionIInvStep == SessionIInv /\ [SessionNext]_sessionVars => SessionIInv'
<1> SUFFICES ASSUME SessionIInv, [SessionNext]_sessionVars PROVE SessionIInv'
    OBVIOUS
<1>0. 1..MaxEpoch \subseteq Attempt
    BY DEF Attempt
<1>1. ASSUME NEW u \in Users \cup {Nobody}, SignIn(u) PROVE SessionIInv'
    <2>1. RenderOK'
        BY <1>1 DEF SignIn, RenderOK
    <2> QED
        BY <1>1, <2>1, OnlyTheUser DEF SignIn
<1>2. CASE UNCHANGED sessionVars
    <2>1. RenderOK'
        BY <1>2 DEF sessionVars, SessionIInv, RenderOK, EffectsPending
    <2> QED
        BY <1>2, <2>1, OnlyTheUser DEF sessionVars, SessionIInv, Typed
<1>3. ASSUME NEW s \in Sessions, NEW attempt \in 1..MaxEpoch,
             \/ Settling(s, attempt) \/ OpenFails(s, attempt, TRUE)
             \/ LateClosed(s, attempt, FALSE) \/ TakenOver(s, attempt)
      PROVE  SessionIInv'
    BY <1>0, <1>3, OpenedStep, OpenFailsStep, LateClosedStep, TakenOverStep DEF Settling
<1>4. ASSUME NEW s \in Sessions, CloseSettles(s) \/ \E ok \in BOOLEAN : CurrentClosed(s, ok)
      PROVE  SessionIInv'
    BY <1>4, CloseSettlesStep, CurrentClosedStep
<1> QED
    BY <1>1, <1>2, <1>3, <1>4, RunEffectsStep, StartStep, RetryStep, AppCloseStep DEF SessionNext

LEMMA SessionInitIInv == SessionInit => SessionIInv
<1> SUFFICES ASSUME SessionInit PROVE SessionIInv
    OBVIOUS
<1>1. NewManager \in Manager /\ NewManager.close = "none"
      /\ NewManager.database = None /\ NewManager.init = None
    BY DEF NewManager, Manager, Statuses, None
<1>2. Typed
    BY <1>1 DEF SessionInit, Typed, None
<1>3. ASSUME NEW s \in Sessions PROVE SessionOK(s) /\ Unmade(s)
    BY <1>1 DEF SessionInit, SessionOK, OpensOK, HoldsOK, Holds, ManagerOK, Unmade
<1>4. Hook
    BY <1>3 DEF SessionInit, Hook
<1>5. RenderOK
    BY DEF SessionInit, RenderOK
<1> QED
    BY <1>2, <1>3, <1>4, <1>5 DEF SessionIInv

\* For any number of users, sessions, attempts and faults: of the databases the
\* managers have open, opening or closing, at most one is there at a time.
THEOREM FileAlwaysExclusive == SessionSpec => []FileExclusive
<1>1. SessionIInv => FileExclusive
    <2> SUFFICES ASSUME SessionIInv PROVE FileExclusive
        OBVIOUS
    <2>1. ASSUME NEW x \in Busy
          PROVE  \E s \in Sessions, a \in Attempt : x = <<s, a>> /\ Holds(s, a)
        <3>1. CASE x \in held \ leaked
            <4>1. PICK s \in Sessions, a \in Attempt : x = <<s, a>>
                BY <3>1 DEF SessionIInv, Typed
            <4>2. Holds(s, a)
                BY <3>1, <4>1 DEF Holds
            <4> QED
                BY <4>1, <4>2
        <3>2. CASE x \notin held \ leaked
            <4>1. PICK o \in opens : o[3] # "lost" /\ x = <<o[1], o[2]>>
                BY <3>2 DEF Busy
            <4>2. o[1] \in Sessions /\ o[2] \in Attempt /\ o[3] \in Phases /\ o = <<o[1], o[2], o[3]>>
                BY <4>1 DEF SessionIInv, Typed
            <4>3. Holds(o[1], o[2])
                BY <4>1, <4>2 DEF Holds, Phases
            <4> QED
                BY <4>1, <4>2, <4>3
        <3> QED
            BY <3>1, <3>2
    <2>2. ASSUME NEW x \in Busy, NEW y \in Busy PROVE x = y
        <3>1. PICK s \in Sessions, a \in Attempt : x = <<s, a>> /\ Holds(s, a)
            BY <2>1
        <3>2. PICK t \in Sessions, b \in Attempt : y = <<t, b>> /\ Holds(t, b)
            BY <2>1
        <3>3. s \in made /\ t \in made
            BY <3>1, <3>2, MadeFirst DEF Holds, Phases
        <3>4. s = t
            BY <3>1, <3>2, <3>3 DEF SessionIInv, Hook, CleanedUp
        <3> QED
            BY <3>1, <3>2, <3>4 DEF SessionIInv, SessionOK, HoldsOK
    <2>3. CASE Busy = {}
        BY <2>3, FS_EmptySet DEF FileExclusive
    <2>4. ASSUME NEW x \in Busy PROVE FileExclusive
        <3>1. Busy = {x}
            BY <2>2
        <3> QED
            BY <3>1, FS_Singleton DEF FileExclusive
    <2> QED
        BY <2>3, <2>4
<1> QED
    BY <1>1, SessionInitIInv, SessionIInvStep, PTL DEF SessionSpec

\* A close that runs comes to rest only when its teardown is over.
LEMMA OnlySettling ==
    ASSUME SessionIInv, [SessionNext]_sessionVars, NEW s \in Sessions,
           mgr[s].close = "closing", mgr'[s].close = "none"
    PROVE  CloseSettles(s)
<1>1. mgr \in [Sessions -> Manager] /\ \A t \in Sessions : mgr[t] \in Manager
    BY DEF SessionIInv, Typed
<1>2. ASSUME NEW t \in Sessions, NEW m \in Manager, mgr' = [mgr EXCEPT ![t] = m],
             m.close \in {mgr[t].close, "failed"} \/ mgr[t].close # "closing"
      PROVE  FALSE
    BY <1>1, <1>2
<1>3. ASSUME NEW t \in Sessions, NEW attempt, OpenSucceeds(t, attempt) PROVE FALSE
    <2>1. CASE attempt = mgr[t].epoch
        <3>1. PICK r \in Manager : r = SettleInit(mgr[t], attempt) /\ r.close = mgr[t].close
                                   /\ attempt = mgr[t].epoch /\ attempt \in Nat
            BY <1>1, <2>1, SettleFields DEF Manager
        <3> DEFINE m == [r EXCEPT !.database = attempt, !.status = "ready"]
        <3>2. m \in Manager /\ m.close = mgr[t].close
            BY <3>1 DEF Manager, Statuses
        <3>3. mgr' = [mgr EXCEPT ![t] = m]
            BY <1>3, <2>1, <3>1 DEF OpenSucceeds, Becomes
        <3> QED
            BY <1>2, <3>2, <3>3
    <2> QED
        BY <1>3, <2>1 DEF OpenSucceeds
<1>4. ASSUME NEW t \in Sessions, NEW attempt, NEW leaves \in BOOLEAN,
             OpenFails(t, attempt, leaves)
      PROVE  FALSE
    <2>1. PICK r \in Manager : r = SettleInit(mgr[t], attempt) /\ r.close = mgr[t].close
        BY <1>1, SettleFields
    <2>2. mgr' = [mgr EXCEPT ![t] = r] \/ mgr' = [mgr EXCEPT ![t] = [r EXCEPT !.status = "error"]]
        BY <1>4, <2>1 DEF OpenFails, Becomes
    <2>3. [r EXCEPT !.status = "error"] \in Manager /\ [r EXCEPT !.status = "error"].close = r.close
        BY DEF Manager, Statuses
    <2> QED
        BY <1>2, <2>1, <2>2, <2>3
<1>5. ASSUME NEW t \in Sessions, NEW attempt, NEW ok \in BOOLEAN, LateClosed(t, attempt, ok)
      PROVE  FALSE
    <2>1. PICK r \in Manager : r = SettleInit(mgr[t], attempt) /\ r.close = mgr[t].close
        BY <1>1, SettleFields
    <2> DEFINE m == [r EXCEPT !.lateError = mgr[t].lateError \/ ~ok]
    <2>2. mgr' = [mgr EXCEPT ![t] = m]
        BY <1>5, <2>1 DEF LateClosed
    <2>3. (mgr[t].lateError \/ ~ok) \in BOOLEAN
        OBVIOUS
    <2>4. m \in Manager /\ m.close = r.close
        BY <2>3 DEF Manager
    <2> QED
        BY <1>2, <2>1, <2>2, <2>4
<1>6. ASSUME NEW t \in Sessions, NEW ok \in BOOLEAN, CurrentClosed(t, ok) PROVE FALSE
    <2> DEFINE m == [mgr[t] EXCEPT !.current = None,
                                   !.close = IF ok THEN mgr[t].close ELSE "failed"]
    <2>1. mgr' = [mgr EXCEPT ![t] = m]
        BY <1>1, <1>6 DEF CurrentClosed
    <2>2. m \in Manager /\ m.close \in {mgr[t].close, "failed"}
        BY <1>1 DEF Manager, None
    <2> QED
        BY <1>2, <2>1, <2>2
<1>7. ASSUME NEW t \in Sessions, NEW attempt, TakenOver(t, attempt) PROVE FALSE
    <2> DEFINE m == [mgr[t] EXCEPT !.database = None, !.status = "taken-over"]
    <2>1. mgr' = [mgr EXCEPT ![t] = m] \/ mgr' = mgr
        BY <1>7 DEF TakenOver, Becomes
    <2>2. m \in Manager /\ m.close = mgr[t].close
        BY <1>1 DEF Manager, Statuses, None
    <2> QED
        BY <1>2, <2>1, <2>2
<1>8. ASSUME RunEffects \/ AppClose PROVE FALSE
    <2>1. \/ mgr' = mgr
          \/ \E t \in Sessions : mgr' = [mgr EXCEPT ![t] = Closing(mgr[t])]
        <3>1. CASE RunEffects
            BY <3>1 DEF RunEffects, SessionIInv, Typed
        <3>2. CASE AppClose
            BY <3>2, ReturnedIsLive DEF AppClose, Becomes
        <3> QED
            BY <1>8, <3>1, <3>2
    <2>2. ASSUME NEW t \in Sessions
          PROVE  /\ Closing(mgr[t]) \in Manager
                 /\ mgr[t].close = "closing" => Closing(mgr[t]).close = "closing"
        BY <1>1, ClosingFields
    <2> QED
        BY <1>2, <2>1, <2>2
<1>9. ASSUME StartSession \/ Retry PROVE FALSE
    <2>1. PICK t \in Sessions :
             mgr[t].close = "none" /\ mgr' = [mgr EXCEPT ![t] = Loading(mgr[t])]
        <3>1. CASE StartSession
            BY <3>1 DEF StartSession, SessionIInv, Typed, Hook, Unmade, NewManager
        <3>2. CASE Retry
            BY <3>2, ReturnedIsLive DEF Retry, MayOpen, Becomes
        <3> QED
            BY <1>9, <3>1, <3>2
    <2> QED
        BY <1>1, <1>2, <2>1, LoadingFields
<1>10. ASSUME NEW t \in Sessions, CloseSettles(t) PROVE t = s
    <2> DEFINE m == [mgr[t] EXCEPT !.close = IF mgr[t].lateError THEN "failed" ELSE "none",
                                   !.lateError = FALSE]
    <2>1. mgr' = [mgr EXCEPT ![t] = m]
        BY <1>1, <1>10 DEF CloseSettles
    <2> QED
        BY <1>1, <2>1
<1>11. ~UNCHANGED mgr
    OBVIOUS
<1> QED
    BY <1>3, <1>4, <1>5, <1>6, <1>7, <1>8, <1>9, <1>10, <1>11
       DEF SessionNext, Settling, SignIn, sessionVars

\* For any number of sessions and faults: a close() that resolves leaves no
\* database of its manager open but the driver of an open that failed.
THEOREM ClosesFreeFiles == SessionSpec => CloseFreesFile
<1>1. ASSUME SessionIInv, [SessionNext]_sessionVars
      PROVE  \A s \in Sessions :
                mgr[s].close = "closing" /\ mgr'[s].close = "none" =>
                   \A database \in held' : database[1] = s => database \in leaked'
    <2> SUFFICES ASSUME NEW s \in Sessions,
                        mgr[s].close = "closing", mgr'[s].close = "none",
                        NEW database \in held', database[1] = s, database \notin leaked'
                 PROVE  FALSE
        OBVIOUS
    <2>1. CloseSettles(s)
        BY <1>1, OnlySettling
    <2>2. mgr[s].current = None /\ mgr[s].pending = None /\ ~mgr[s].lateError
          /\ held' = held /\ leaked' = leaked
        BY <1>1, <2>1 DEF CloseSettles, SessionIInv, Typed, Manager
    <2>3. PICK a \in Attempt : database = <<s, a>>
        BY <1>1, <2>2 DEF SessionIInv, Typed
    <2>4. Holds(s, a)
        BY <2>2, <2>3 DEF Holds
    <2> QED
        BY <1>1, <2>2, <2>4 DEF SessionIInv, SessionOK, HoldsOK, Attempt, None
<1> QED
    BY <1>1, SessionInitIInv, SessionIInvStep, PTL DEF SessionSpec, CloseFreesFile

------------------------------------------------------------------------------
(* The database of a manager is alive, and synchronisation follows it. *)

\* A manager's database is open and nobody's loss, a close has let go of what
\* it closed, and a promise is that of an open in flight.
AliveAt(s) ==
    LET m == mgr[s] IN
    /\ m.status = "ready" <=> m.database # None
    /\ m.database # None => <<s, m.database>> \in held
    /\ m.close # "closing" => m.current = None
    /\ \A a \in Attempt : <<s, a>> \in leaked =>
          /\ a # m.database /\ a # m.current
          /\ \A p \in Phases : <<s, a, p>> \notin opens
    /\ m.init # None => \E p \in Phases : <<s, m.init, p>> \in opens
    /\ m.close = "closing" /\ m.pending # None =>
          \E p \in Phases : <<s, m.pending, p>> \in opens

\* How many attempts a manager has had: a session that is cleaned up has had
\* one close more than the bound on the others.
EpochOK(s) ==
    /\ mgr[s].epoch <= IF s = live THEN MaxEpoch ELSE MaxEpoch + 1
    /\ mgr[s].current <= MaxEpoch

WithinBounds ==
    /\ effect \in Sessions \cup {None} /\ closeError \in BOOLEAN
    /\ opens \subseteq Sessions \X (1..MaxEpoch) \X Phases
    /\ held \subseteq Sessions \X (1..MaxEpoch)
    /\ leaked \subseteq held

AInv ==
    /\ SessionIInv /\ SyncFollowsDatabase /\ WithinBounds
    /\ \A s \in Sessions : AliveAt(s) /\ EpochOK(s)

\* What a step of session s leaves alone elsewhere.
LEMMA AliveElsewhere ==
    ASSUME NEW s \in Sessions, NEW u \in Sessions \ {s}, Elsewhere(s), AliveAt(u),
           mgr[u] \in Manager
    PROVE  AliveAt(u)'
<1>1. mgr'[u] = mgr[u]
    BY DEF Elsewhere
<1>2. \A a \in Attempt :
          /\ <<u, a>> \in held' <=> <<u, a>> \in held
          /\ <<u, a>> \in leaked' <=> <<u, a>> \in leaked
          /\ \A p \in Phases : <<u, a, p>> \in opens' <=> <<u, a, p>> \in opens
    BY DEF Elsewhere
<1>3. \A a \in Nat : a # None => a \in Attempt
    BY DEF Attempt, None
<1>4. /\ mgr[u].database \in Nat /\ mgr[u].init \in Nat /\ mgr[u].pending \in Nat
    BY DEF Manager
<1> QED
    BY <1>1, <1>2, <1>3, <1>4 DEF AliveAt

\* A step of one manager under a hook that stands still: it tells the
\* subscription of a database only when it had none.
LEMMA AliveStep ==
    ASSUME AInv, SessionIInv', WithinBounds', NEW s \in made, Elsewhere(s), AliveAt(s)',
           UNCHANGED <<effect, live, made>>,
           mgr'[s].epoch <= mgr[s].epoch \/ mgr'[s].epoch <= MaxEpoch,
           mgr'[s].current <= MaxEpoch,
           \/ Subscribed(s, mgr'[s]) /\ (mgr[s].database = None \/ mgr'[s].status # "ready")
           \/ attached' = attached /\ mgr'[s].database = mgr[s].database
    PROVE  AInv'
<1>1. s \in Sessions /\ mgr \in [Sessions -> Manager] /\ mgr' \in [Sessions -> Manager]
    BY DEF AInv, SessionIInv, Typed
<1>2. \A u \in Sessions : AliveAt(u)'
    BY <1>1, AliveElsewhere DEF AInv
<1>3. ASSUME NEW u \in Sessions PROVE EpochOK(u)'
    <2>1. CASE u = s
        BY <1>1, <2>1, SessionAssumption DEF AInv, EpochOK, Manager
    <2>2. CASE u # s
        BY <1>1, <2>2 DEF AInv, EpochOK, Elsewhere
    <2> QED
        BY <2>1, <2>2
<1>4. SyncFollowsDatabase'
    <2>1. CASE live # s
        <3>1. attached' = attached
            BY <2>1 DEF Subscribed
        <3>2. live \in made => live \in Sessions /\ mgr'[live] = mgr[live]
            BY <1>1, <2>1 DEF Elsewhere, AInv, SessionIInv, Typed
        <3> QED
            BY <3>1, <3>2 DEF AInv, SyncFollowsDatabase
    <2>2. CASE live = s
        <3>1. CASE attached' = attached /\ mgr'[s].database = mgr[s].database
            BY <2>2, <3>1 DEF AInv, SyncFollowsDatabase
        <3>2. CASE Subscribed(s, mgr'[s]) /\ (mgr[s].database = None \/ mgr'[s].status # "ready")
            BY <2>2, <3>2 DEF AInv, SyncFollowsDatabase, Subscribed
        <3> QED
            BY <3>1, <3>2
    <2> QED
        BY <2>1, <2>2
<1> QED
    BY <1>2, <1>3, <1>4 DEF AInv

\* What AInv and IInv say of one session.
LEMMA AliveSession ==
    ASSUME AInv, NEW s \in Sessions
    PROVE  /\ mgr[s] \in Manager /\ AliveAt(s) /\ EpochOK(s) /\ SessionOK(s)
           /\ mgr \in [Sessions -> Manager] /\ SessionIInv /\ MaxEpoch \in Nat \ {0}
           /\ WithinBounds
BY SessionAssumption DEF AInv, SessionIInv, Typed

\* In the epoch an open belongs to, its manager has no database and no close.
LEMMA OpenBelongs ==
    ASSUME AInv, NEW s \in Sessions, NEW a \in Attempt, NEW p \in Phases,
           <<s, a, p>> \in opens
    PROVE  /\ s \in made /\ a # mgr[s].database /\ a # mgr[s].current
           /\ <<s, a>> \notin leaked
           /\ a = mgr[s].epoch => /\ mgr[s].close = "none" /\ mgr[s].init = a
                                  /\ mgr[s].database = None
<1>1. /\ mgr[s] \in Manager /\ s \in made /\ SessionOK(s) /\ InFlightOK(s, a, p) /\ AliveAt(s)
    BY InFlight, AliveSession DEF AInv
<1>2. ASSUME a = mgr[s].epoch
      PROVE  mgr[s].close = "none" /\ mgr[s].init = a /\ mgr[s].database = None
    <2>1. ~(a < mgr[s].epoch)
        BY <1>1, <1>2 DEF Manager
    <2>2. mgr[s].close = "none" /\ mgr[s].init = a
        BY <1>1, <2>1 DEF InFlightOK
    <2> QED
        BY <1>1, <2>2 DEF SessionOK, ManagerOK, Attempt, None
<1>3. a # mgr[s].database
    <2>1. CASE mgr[s].close = "none"
        BY <1>1, <2>1 DEF InFlightOK, SessionOK, ManagerOK, Attempt, None
    <2>2. CASE mgr[s].close # "none"
        BY <1>1, <2>2 DEF SessionOK, ManagerOK, Attempt, None
    <2> QED
        BY <2>1, <2>2
<1>4. a # mgr[s].current
    <2>1. CASE mgr[s].close = "closing"
        BY <1>1, <2>1 DEF InFlightOK, SessionOK, ManagerOK, Attempt, None
    <2>2. CASE mgr[s].close # "closing"
        BY <1>1, <2>2 DEF AliveAt, Attempt, None
    <2> QED
        BY <2>1, <2>2
<1>5. <<s, a>> \notin leaked
    BY <1>1 DEF AliveAt
<1> QED
    BY <1>1, <1>2, <1>3, <1>4, <1>5

\* An open whose promise has settled left the manager's other fields alone.
LEMMA AliveOpenFails ==
    ASSUME AInv, SessionIInv', NEW s \in Sessions, NEW attempt \in 1..MaxEpoch,
           NEW leaves \in BOOLEAN, OpenFails(s, attempt, leaves)
    PROVE  AInv'
<1>0. attempt \in Attempt
    BY DEF Attempt
<1>1. PICK stage \in {"opening", "lost"} :
          /\ <<s, attempt, stage>> \in opens
          /\ opens' = opens \ {<<s, attempt, stage>>}
    BY DEF OpenFails
<1>2. /\ mgr[s] \in Manager /\ AliveAt(s) /\ EpochOK(s) /\ WithinBounds
      /\ mgr \in [Sessions -> Manager]
    BY AliveSession
<1>3. /\ s \in made /\ attempt # mgr[s].database /\ attempt # mgr[s].current
      /\ attempt = mgr[s].epoch => mgr[s].database = None
      /\ InFlightOK(s, attempt, stage)
    <2>1. stage \in Phases /\ SessionIInv
        BY DEF Phases, AInv
    <2> QED
        BY <1>0, <1>1, <2>1, OpenBelongs, InFlight
<1>4. /\ held' = IF leaves THEN held \cup {<<s, attempt>>} ELSE held
      /\ leaked' = IF leaves THEN leaked \cup {<<s, attempt>>} ELSE leaked
      /\ UNCHANGED <<effect, live, made, closeError>>
    BY DEF OpenFails
<1>5. PICK m \in Manager :
         /\ mgr' = [mgr EXCEPT ![s] = m]
         /\ m.init = IF mgr[s].init = attempt THEN None ELSE mgr[s].init
         /\ m.pending = IF mgr[s].pending = attempt THEN None ELSE mgr[s].pending
         /\ m.epoch = mgr[s].epoch /\ m.database = mgr[s].database
         /\ m.close = mgr[s].close /\ m.current = mgr[s].current
         /\ \/ m.status = "error" /\ Subscribed(s, m) /\ m.database = None
            \/ m.status = mgr[s].status /\ attached' = attached
    <2>1. PICK r \in Manager :
             /\ r = SettleInit(mgr[s], attempt)
             /\ r.init = IF mgr[s].init = attempt THEN None ELSE mgr[s].init
             /\ r.pending = IF mgr[s].pending = attempt THEN None ELSE mgr[s].pending
             /\ r.epoch = mgr[s].epoch /\ r.database = mgr[s].database
             /\ r.close = mgr[s].close /\ r.current = mgr[s].current /\ r.status = mgr[s].status
        BY <1>2, SettleFields
    <2>2. CASE attempt = mgr[s].epoch
        <3> DEFINE m == [r EXCEPT !.status = "error"]
        <3>1. mgr' = [mgr EXCEPT ![s] = m] /\ Subscribed(s, m)
            BY <2>1, <2>2 DEF OpenFails, Becomes
        <3>2. /\ m.init = r.init /\ m.pending = r.pending /\ m.epoch = r.epoch
              /\ m.database = r.database /\ m.close = r.close /\ m.current = r.current
              /\ m.status = "error" /\ m \in Manager
            BY DEF Manager, Statuses
        <3> HIDE DEF m
        <3> QED
            BY <1>3, <2>1, <2>2, <3>1, <3>2
    <2>3. CASE attempt # mgr[s].epoch
        <3>1. mgr' = [mgr EXCEPT ![s] = r] /\ attached' = attached
            BY <1>2, <2>1, <2>3 DEF OpenFails
        <3> QED
            BY <2>1, <3>1
    <2> QED
        BY <2>2, <2>3
<1>6. mgr'[s] = m /\ \A u \in Sessions \ {s} : mgr'[u] = mgr[u]
    BY <1>2, <1>5
<1>7. Elsewhere(s)
    BY <1>1, <1>4, <1>6 DEF Elsewhere
<1>8. WithinBounds'
    BY <1>1, <1>2, <1>4 DEF WithinBounds
<1>9. AliveAt(s)'
    <2>1. mgr'[s].status = "ready" <=> mgr'[s].database # None
        BY <1>2, <1>5, <1>6 DEF AliveAt
    <2>2. mgr'[s].database # None => <<s, mgr'[s].database>> \in held'
        BY <1>2, <1>4, <1>5, <1>6 DEF AliveAt
    <2>3. \A a \in Attempt : \A p \in Phases : <<s, a, p>> \in opens' => <<s, a, p>> \in opens /\ a # attempt
        BY <1>0, <1>1, <1>3 DEF InFlightOK, Phases
    <2>4. ASSUME NEW a \in Attempt, <<s, a>> \in leaked'
          PROVE  a # m.database /\ a # m.current /\ \A p \in Phases : <<s, a, p>> \notin opens'
        BY <1>2, <1>3, <1>4, <1>5, <2>3, <2>4 DEF AliveAt
    <2>5. \A a, p : a # attempt /\ <<s, a, p>> \in opens => <<s, a, p>> \in opens'
        BY <1>1
    <2>6. ASSUME m.init # None PROVE \E p \in Phases : <<s, m.init, p>> \in opens'
        BY <1>2, <1>5, <2>5, <2>6 DEF AliveAt
    <2>7. ASSUME m.close = "closing", m.pending # None
          PROVE \E p \in Phases : <<s, m.pending, p>> \in opens'
        BY <1>2, <1>5, <2>5, <2>7 DEF AliveAt
    <2>8. m.close # "closing" => m.current = None
        BY <1>2, <1>5 DEF AliveAt
    <2> QED
        BY <1>6, <2>1, <2>2, <2>4, <2>6, <2>7, <2>8 DEF AliveAt
<1>10. mgr'[s].epoch <= mgr[s].epoch /\ mgr'[s].current <= MaxEpoch
    BY <1>2, <1>5, <1>6 DEF EpochOK, Manager
<1>11. \/ Subscribed(s, mgr'[s]) /\ mgr'[s].status # "ready"
       \/ attached' = attached /\ mgr'[s].database = mgr[s].database
    BY <1>5, <1>6
<1> QED
    BY <1>3, <1>4, <1>7, <1>8, <1>9, <1>10, <1>11, AliveStep

LEMMA AliveLateClosed ==
    ASSUME AInv, SessionIInv', NEW s \in Sessions, NEW attempt \in 1..MaxEpoch,
           NEW ok \in BOOLEAN, LateClosed(s, attempt, ok)
    PROVE  AInv'
<1>0. attempt \in Attempt /\ "late closing" \in Phases /\ SessionIInv
    BY DEF Attempt, Phases, AInv
<1>1. /\ <<s, attempt, "late closing">> \in opens
      /\ opens' = opens \ {<<s, attempt, "late closing">>}
      /\ held' = IF ok THEN held \ {<<s, attempt>>} ELSE held
      /\ UNCHANGED <<leaked, effect, live, made, closeError, attached>>
    BY DEF LateClosed, Closes
<1>2. /\ mgr[s] \in Manager /\ AliveAt(s) /\ EpochOK(s) /\ WithinBounds
      /\ mgr \in [Sessions -> Manager]
    BY AliveSession
<1>3. /\ s \in made /\ attempt # mgr[s].database /\ <<s, attempt>> \notin leaked
      /\ InFlightOK(s, attempt, "late closing")
    BY <1>0, <1>1, OpenBelongs, InFlight
<1>5. PICK m \in Manager :
         /\ mgr' = [mgr EXCEPT ![s] = m]
         /\ m.init = IF mgr[s].init = attempt THEN None ELSE mgr[s].init
         /\ m.pending = IF mgr[s].pending = attempt THEN None ELSE mgr[s].pending
         /\ m.epoch = mgr[s].epoch /\ m.database = mgr[s].database
         /\ m.close = mgr[s].close /\ m.current = mgr[s].current /\ m.status = mgr[s].status
    <2>1. PICK r \in Manager :
             /\ r = SettleInit(mgr[s], attempt)
             /\ r.init = IF mgr[s].init = attempt THEN None ELSE mgr[s].init
             /\ r.pending = IF mgr[s].pending = attempt THEN None ELSE mgr[s].pending
             /\ r.epoch = mgr[s].epoch /\ r.database = mgr[s].database
             /\ r.close = mgr[s].close /\ r.current = mgr[s].current /\ r.status = mgr[s].status
        BY <1>2, SettleFields
    <2> DEFINE m == [r EXCEPT !.lateError = mgr[s].lateError \/ ~ok]
    <2>2. mgr' = [mgr EXCEPT ![s] = m]
        BY <2>1 DEF LateClosed
    <2>3. (mgr[s].lateError \/ ~ok) \in BOOLEAN
        OBVIOUS
    <2>4. /\ m.init = r.init /\ m.pending = r.pending /\ m.epoch = r.epoch
          /\ m.database = r.database /\ m.close = r.close /\ m.current = r.current
          /\ m.status = r.status
        BY DEF Manager
    <2>5. m \in Manager
        BY <2>3 DEF Manager
    <2> HIDE DEF m
    <2> QED
        BY <2>1, <2>2, <2>4, <2>5
<1>6. mgr'[s] = m /\ \A u \in Sessions \ {s} : mgr'[u] = mgr[u]
    BY <1>2, <1>5
<1>7. Elsewhere(s)
    BY <1>1, <1>6 DEF Elsewhere
<1>8. WithinBounds'
    BY <1>1, <1>2, <1>3 DEF WithinBounds
<1>9. AliveAt(s)'
    <2>1. mgr'[s].database # None => <<s, mgr'[s].database>> \in held'
        BY <1>1, <1>2, <1>3, <1>5, <1>6 DEF AliveAt
    <2>2. ASSUME NEW a \in Attempt, <<s, a>> \in leaked'
          PROVE  a # m.database /\ a # m.current /\ \A p \in Phases : <<s, a, p>> \notin opens'
        BY <1>1, <1>2, <1>5, <2>2 DEF AliveAt
    <2>3. \A a, p : a # attempt /\ <<s, a, p>> \in opens => <<s, a, p>> \in opens'
        BY <1>1
    <2>4. ASSUME m.init # None PROVE \E p \in Phases : <<s, m.init, p>> \in opens'
        BY <1>2, <1>5, <2>3, <2>4 DEF AliveAt
    <2>5. ASSUME m.close = "closing", m.pending # None
          PROVE \E p \in Phases : <<s, m.pending, p>> \in opens'
        BY <1>2, <1>5, <2>3, <2>5 DEF AliveAt
    <2>6. /\ m.close # "closing" => m.current = None
          /\ m.status = "ready" <=> m.database # None
        BY <1>2, <1>5 DEF AliveAt
    <2> QED
        BY <1>6, <2>1, <2>2, <2>4, <2>5, <2>6 DEF AliveAt
<1>10. mgr'[s].epoch <= mgr[s].epoch /\ mgr'[s].current <= MaxEpoch
    BY <1>2, <1>5, <1>6 DEF EpochOK, Manager
<1> QED
    BY <1>1, <1>3, <1>5, <1>6, <1>7, <1>8, <1>9, <1>10, AliveStep

\* The database of an open that resolves is the manager's only in its epoch.
LEMMA AliveOpened ==
    ASSUME AInv, SessionIInv', NEW s \in Sessions, NEW attempt \in 1..MaxEpoch, OpenSucceeds(s, attempt)
    PROVE  AInv'
<1>0. attempt \in Attempt /\ "opening" \in Phases /\ SessionIInv
    BY DEF Attempt, Phases, AInv
<1>1. /\ <<s, attempt, "opening">> \in opens
      /\ held' = held \cup {<<s, attempt>>}
      /\ UNCHANGED <<leaked, effect, live, made, closeError>>
    BY DEF OpenSucceeds
<1>2. /\ mgr[s] \in Manager /\ AliveAt(s) /\ EpochOK(s) /\ WithinBounds
      /\ mgr \in [Sessions -> Manager]
    BY AliveSession
<1>3. /\ s \in made /\ attempt # mgr[s].database /\ <<s, attempt>> \notin leaked
      /\ attempt # mgr[s].current
      /\ attempt = mgr[s].epoch =>
            mgr[s].database = None /\ mgr[s].close = "none" /\ mgr[s].init = attempt
      /\ InFlightOK(s, attempt, "opening")
    BY <1>0, <1>1, OpenBelongs, InFlight
<1>4. CASE attempt = mgr[s].epoch
    <2>1. PICK r \in Manager :
             /\ r = SettleInit(mgr[s], attempt)
             /\ r.init = None /\ r.epoch = mgr[s].epoch
             /\ r.close = "none" /\ r.current = mgr[s].current
        BY <1>2, <1>3, <1>4, SettleFields
    <2> DEFINE m == [r EXCEPT !.database = attempt, !.status = "ready"]
    <2>2. mgr' = [mgr EXCEPT ![s] = m] /\ Subscribed(s, m)
          /\ opens' = opens \ {<<s, attempt, "opening">>}
        BY <1>4, <2>1 DEF OpenSucceeds, Becomes
    <2>3. /\ m.init = None /\ m.epoch = r.epoch /\ m.database = attempt
          /\ m.close = r.close /\ m.current = r.current /\ m.status = "ready"
        BY <2>1 DEF Manager
    <2> HIDE DEF m
    <2>4. mgr'[s] = m /\ \A u \in Sessions \ {s} : mgr'[u] = mgr[u]
        BY <1>2, <2>2
    <2>5. Elsewhere(s)
        BY <1>1, <2>2, <2>4 DEF Elsewhere
    <2>6. WithinBounds'
        <3>1. held' \subseteq Sessions \X (1..MaxEpoch)
            BY <1>1, <1>2 DEF WithinBounds
        <3> QED
            BY <1>1, <1>2, <2>2, <3>1 DEF WithinBounds
    <2>7. AliveAt(s)'
        <3>1. ASSUME NEW a \in Attempt, <<s, a>> \in leaked'
              PROVE  a # m.database /\ a # m.current /\ \A p \in Phases : <<s, a, p>> \notin opens'
            BY <1>1, <1>2, <1>3, <2>1, <2>2, <2>3, <3>1 DEF AliveAt
        <3>2. m.close # "closing" => m.current = None
            BY <1>2, <1>3, <1>4, <2>1, <2>3 DEF AliveAt
        <3> QED
            BY <1>0, <1>1, <2>1, <2>3, <2>4, <3>1, <3>2 DEF AliveAt, Attempt, None
    <2>8. mgr'[s].epoch <= mgr[s].epoch /\ mgr'[s].current <= MaxEpoch
        BY <1>2, <2>1, <2>3, <2>4 DEF EpochOK, Manager
    <2> QED
        BY <1>1, <1>3, <1>4, <2>2, <2>4, <2>5, <2>6, <2>7, <2>8, AliveStep
<1>5. CASE attempt # mgr[s].epoch
    <2>1. /\ opens' = (opens \ {<<s, attempt, "opening">>}) \cup {<<s, attempt, "late closing">>}
          /\ mgr' = mgr /\ attached' = attached
        BY <1>5 DEF OpenSucceeds
    <2>2. Elsewhere(s)
        BY <1>1, <2>1 DEF Elsewhere
    <2>3. WithinBounds'
        <3>1. held' \subseteq Sessions \X (1..MaxEpoch)
            BY <1>1, <1>2 DEF WithinBounds
        <3>2. opens' \subseteq Sessions \X (1..MaxEpoch) \X Phases
            <4>1. <<s, attempt, "late closing">> \in Sessions \X (1..MaxEpoch) \X Phases
                BY DEF Phases
            <4> QED
                BY <1>2, <2>1, <4>1 DEF WithinBounds
        <3> QED
            BY <1>1, <1>2, <3>1, <3>2 DEF WithinBounds
    <2>4. \A a \in Attempt :
             (\E p \in Phases : <<s, a, p>> \in opens) <=> (\E p \in Phases : <<s, a, p>> \in opens')
        BY <1>0, <1>1, <2>1 DEF Phases
    <2>5. /\ mgr[s].database \in Nat /\ mgr[s].init \in Nat /\ mgr[s].pending \in Nat
          /\ \A a \in Nat : a # None => a \in Attempt
        BY <1>2 DEF Manager, Attempt, None
    <2>6. mgr'[s] = mgr[s] /\ leaked' = leaked /\ held \subseteq held'
        BY <1>1, <2>1
    <2>9. \A a \in Attempt : <<s, a>> \in leaked' => \A p \in Phases : <<s, a, p>> \notin opens'
        BY <1>2, <2>4, <2>6 DEF AliveAt
    <2>10. AliveAt(s)'
        BY <1>2, <2>4, <2>5, <2>6, <2>9 DEF AliveAt
    <2>7. mgr'[s].epoch <= mgr[s].epoch /\ mgr'[s].current <= MaxEpoch
        BY <1>2, <2>6 DEF EpochOK, Manager
    <2> QED
        BY <1>1, <1>3, <2>1, <2>2, <2>3, <2>7, <2>10, AliveStep
<1> QED
    BY <1>4, <1>5

LEMMA AliveCurrentClosed ==
    ASSUME AInv, SessionIInv', NEW s \in Sessions, NEW ok \in BOOLEAN, CurrentClosed(s, ok)
    PROVE  AInv'
<1>1. /\ mgr[s].close = "closing" /\ mgr[s].current # None
      /\ held' = IF ok THEN held \ {<<s, mgr[s].current>>} ELSE held
      /\ UNCHANGED <<opens, leaked, effect, live, made, attached>>
      /\ closeError' \in BOOLEAN
    BY DEF CurrentClosed, Closes, AInv, WithinBounds
<1>2. /\ mgr[s] \in Manager /\ AliveAt(s) /\ EpochOK(s) /\ SessionOK(s) /\ WithinBounds
      /\ mgr \in [Sessions -> Manager] /\ SessionIInv
    BY AliveSession
<1>3. s \in made /\ mgr[s].database = None /\ mgr[s].init = None /\ mgr[s].pending = None
    BY <1>1, <1>2, MadeFirst DEF SessionOK, ManagerOK
<1> DEFINE m == [mgr[s] EXCEPT !.current = None,
                               !.close = IF ok THEN mgr[s].close ELSE "failed"]
<1>4. mgr' = [mgr EXCEPT ![s] = m]
    BY <1>2 DEF CurrentClosed
<1>5. /\ m \in Manager /\ m.epoch = mgr[s].epoch /\ m.init = mgr[s].init
      /\ m.pending = mgr[s].pending /\ m.database = mgr[s].database
      /\ m.current = None /\ m.status = mgr[s].status
    BY <1>1, <1>2 DEF Manager, None
<1> HIDE DEF m
<1>6. mgr'[s] = m /\ \A u \in Sessions \ {s} : mgr'[u] = mgr[u]
    BY <1>2, <1>4
<1>7. Elsewhere(s)
    BY <1>1, <1>6 DEF Elsewhere
<1>8. <<s, mgr[s].current>> \notin leaked
    BY <1>1, <1>2 DEF AliveAt, Manager, Attempt, None
<1>9. WithinBounds'
    BY <1>1, <1>2, <1>8 DEF WithinBounds
<1>10. AliveAt(s)'
    BY <1>1, <1>2, <1>3, <1>5, <1>6 DEF AliveAt, Attempt, None
<1>11. mgr'[s].epoch <= mgr[s].epoch /\ mgr'[s].current <= MaxEpoch
    BY <1>2, <1>5, <1>6, SessionAssumption DEF EpochOK, Manager, None
<1> QED
    BY <1>1, <1>3, <1>5, <1>6, <1>7, <1>9, <1>10, <1>11, AliveStep

LEMMA AliveCloseSettles ==
    ASSUME AInv, SessionIInv', NEW s \in Sessions, CloseSettles(s)
    PROVE  AInv'
<1>1. /\ mgr[s].close = "closing" /\ mgr[s].current = None /\ mgr[s].pending = None
      /\ UNCHANGED <<opens, held, leaked, effect, live, made, attached>>
      /\ closeError' \in BOOLEAN
    BY DEF CloseSettles, AInv, WithinBounds
<1>2. /\ mgr[s] \in Manager /\ AliveAt(s) /\ EpochOK(s) /\ SessionOK(s) /\ WithinBounds
      /\ mgr \in [Sessions -> Manager] /\ SessionIInv
    BY AliveSession
<1>3. s \in made /\ mgr[s].database = None /\ mgr[s].init = None
    BY <1>1, <1>2, MadeFirst DEF SessionOK, ManagerOK
<1> DEFINE m == [mgr[s] EXCEPT !.close = IF mgr[s].lateError THEN "failed" ELSE "none",
                               !.lateError = FALSE]
<1>4. mgr' = [mgr EXCEPT ![s] = m]
    BY <1>2 DEF CloseSettles
<1>5. /\ m \in Manager /\ m.epoch = mgr[s].epoch /\ m.init = mgr[s].init
      /\ m.pending = mgr[s].pending /\ m.database = mgr[s].database
      /\ m.current = None /\ m.status = mgr[s].status
    BY <1>1, <1>2 DEF Manager
<1> HIDE DEF m
<1>6. mgr'[s] = m /\ \A u \in Sessions \ {s} : mgr'[u] = mgr[u]
    BY <1>2, <1>4
<1>7. Elsewhere(s)
    BY <1>1, <1>6 DEF Elsewhere
<1>8. WithinBounds'
    BY <1>1, <1>2 DEF WithinBounds
<1>9. AliveAt(s)'
    BY <1>1, <1>2, <1>3, <1>5, <1>6 DEF AliveAt, Attempt, None
<1>10. mgr'[s].epoch <= mgr[s].epoch /\ mgr'[s].current <= MaxEpoch
    BY <1>2, <1>5, <1>6, SessionAssumption DEF EpochOK, Manager, None
<1> QED
    BY <1>1, <1>3, <1>5, <1>6, <1>7, <1>8, <1>9, <1>10, AliveStep

\* Whoever loses the file loses the database, if it is that of its epoch.
LEMMA AliveTakenOver ==
    ASSUME AInv, SessionIInv', NEW s \in Sessions, NEW attempt \in 1..MaxEpoch,
           TakenOver(s, attempt)
    PROVE  AInv'
<1>0. attempt \in Attempt
    BY DEF Attempt
<1>1. UNCHANGED <<effect, live, made, closeError>>
    BY DEF TakenOver
<1>2. /\ mgr[s] \in Manager /\ AliveAt(s) /\ EpochOK(s) /\ SessionOK(s) /\ WithinBounds
      /\ mgr \in [Sessions -> Manager] /\ SessionIInv
    BY AliveSession
<1>3. s \in made
    BY <1>0, <1>2, MadeFirst DEF TakenOver, Phases
<1>4. PICK m \in Manager :
         /\ mgr' = [mgr EXCEPT ![s] = m]
         /\ m.epoch = mgr[s].epoch /\ m.init = mgr[s].init /\ m.pending = mgr[s].pending
         /\ m.current = mgr[s].current /\ m.close = mgr[s].close
         /\ \/ /\ attempt = mgr[s].epoch /\ m.database = None /\ m.status = "taken-over"
               /\ Subscribed(s, m)
            \/ /\ attempt # mgr[s].epoch /\ m = mgr[s] /\ attached' = attached
    <2>1. CASE attempt = mgr[s].epoch
        <3> DEFINE m == [mgr[s] EXCEPT !.database = None, !.status = "taken-over"]
        <3>1. mgr' = [mgr EXCEPT ![s] = m] /\ Subscribed(s, m)
            BY <2>1 DEF TakenOver, Becomes
        <3>2. /\ m.epoch = mgr[s].epoch /\ m.init = mgr[s].init
              /\ m.pending = mgr[s].pending /\ m.database = None
              /\ m.current = mgr[s].current /\ m.close = mgr[s].close
              /\ m.status = "taken-over"
            BY <1>2 DEF Manager
        <3>3. m \in Manager
            BY <1>2 DEF Manager, Statuses, None
        <3> HIDE DEF m
        <3> QED
            BY <2>1, <3>1, <3>2, <3>3
    <2>2. CASE attempt # mgr[s].epoch
        <3>1. mgr' = [mgr EXCEPT ![s] = mgr[s]] /\ attached' = attached
            BY <1>2, <2>2 DEF TakenOver
        <3> QED
            BY <1>2, <2>2, <3>1
    <2> QED
        BY <2>1, <2>2
<1>5. mgr'[s] = m /\ \A u \in Sessions \ {s} : mgr'[u] = mgr[u]
    BY <1>2, <1>4
<1>6. /\ m.database \in {None, mgr[s].database}
      /\ m.database # None => m.database # attempt
      /\ m.status = "ready" <=> m.database # None
    BY <1>2, <1>4 DEF AliveAt, SessionOK, ManagerOK
<1>7. /\ \A a \in Nat : a # None => a \in Attempt
      /\ m.database \in Nat /\ m.init \in Nat /\ m.pending \in Nat
    BY DEF Manager, Attempt, None
<1>8. mgr'[s].epoch <= mgr[s].epoch /\ mgr'[s].current <= MaxEpoch
    BY <1>2, <1>4, <1>5 DEF EpochOK, Manager
<1>9. CASE /\ <<s, attempt>> \in held /\ held' = held \ {<<s, attempt>>}
           /\ leaked' = leaked \ {<<s, attempt>>} /\ opens' = opens
    <2>1. Elsewhere(s)
        BY <1>5, <1>9 DEF Elsewhere
    <2>2. WithinBounds'
        BY <1>1, <1>2, <1>9 DEF WithinBounds
    <2>4. m.database # None => <<s, m.database>> \in held'
        BY <1>2, <1>6, <1>9 DEF AliveAt
    <2>5. \A a \in Attempt : <<s, a>> \in leaked' =>
             a # m.database /\ a # m.current /\ \A p \in Phases : <<s, a, p>> \notin opens'
        BY <1>2, <1>4, <1>6, <1>9 DEF AliveAt, Attempt, None
    <2>3. AliveAt(s)'
        BY <1>2, <1>4, <1>5, <1>6, <1>7, <1>9, <2>4, <2>5 DEF AliveAt
    <2> QED
        BY <1>1, <1>3, <1>4, <1>5, <1>8, <2>1, <2>2, <2>3, AliveStep
<1>10. CASE /\ <<s, attempt, "opening">> \in opens
            /\ opens' = (opens \ {<<s, attempt, "opening">>}) \cup {<<s, attempt, "lost">>}
            /\ held' = held /\ leaked' = leaked
    <2>1. Elsewhere(s)
        BY <1>5, <1>10 DEF Elsewhere
    <2>2. WithinBounds'
        <3>1. opens' \subseteq Sessions \X (1..MaxEpoch) \X Phases
            <4>1. <<s, attempt, "lost">> \in Sessions \X (1..MaxEpoch) \X Phases
                BY DEF Phases
            <4> QED
                BY <1>2, <1>10, <4>1 DEF WithinBounds
        <3> QED
            BY <1>1, <1>2, <1>10, <3>1 DEF WithinBounds
    <2>3. \A a \in Attempt :
             (\E p \in Phases : <<s, a, p>> \in opens) <=> (\E p \in Phases : <<s, a, p>> \in opens')
        BY <1>0, <1>10 DEF Phases
    <2>5. m.database # None => <<s, m.database>> \in held'
        BY <1>2, <1>6, <1>10 DEF AliveAt
    <2>6. \A a \in Attempt : <<s, a>> \in leaked' =>
             a # m.database /\ a # m.current /\ \A p \in Phases : <<s, a, p>> \notin opens'
        BY <1>2, <1>4, <1>6, <1>10, <2>3 DEF AliveAt, Attempt, None
    <2>4. AliveAt(s)'
        BY <1>2, <1>4, <1>5, <1>6, <1>7, <2>3, <2>5, <2>6 DEF AliveAt
    <2> QED
        BY <1>1, <1>3, <1>4, <1>5, <1>8, <2>1, <2>2, <2>4, AliveStep
<1> QED
    BY <1>9, <1>10 DEF TakenOver

\* A fresh attempt: its promise is that of the open it starts.
LEMMA AliveLoading ==
    ASSUME AInv, NEW s \in Sessions, mgr'[s] = Loading(mgr[s]),
           mgr[s].database = None, mgr[s].close = "none",
           opens' = opens \cup {<<s, mgr[s].epoch + 1, "opening">>},
           UNCHANGED <<held, leaked>>
    PROVE  AliveAt(s)' /\ mgr'[s].status = "loading"
<1>1. mgr[s] \in Manager /\ AliveAt(s) /\ SessionOK(s) /\ WithinBounds
    BY AliveSession
<1>2. /\ mgr'[s].init = mgr[s].epoch + 1 /\ mgr'[s].database = None
      /\ mgr'[s].close = "none" /\ mgr'[s].current = None
    BY <1>1, LoadingFields DEF AliveAt
<1>3. mgr'[s].status = "loading"
    BY <1>1 DEF Loading, Manager
<1>4. "opening" \in Phases
    BY DEF Phases
<1>5. ASSUME NEW a \in Attempt, <<s, a>> \in leaked'
      PROVE  \A p \in Phases : <<s, a, p>> \notin opens'
    <2>1. <<s, a>> \in held /\ \A p \in Phases : <<s, a, p>> \notin opens
        BY <1>1, <1>5 DEF AliveAt, WithinBounds
    <2>2. a # mgr[s].epoch + 1
        BY <1>1, <2>1 DEF SessionOK, HoldsOK, Manager, Attempt
    <2> QED
        BY <2>1, <2>2
<1> QED
    BY <1>2, <1>3, <1>4, <1>5 DEF AliveAt, Attempt, None

LEMMA AliveRetry ==
    ASSUME AInv, SessionIInv', Retry
    PROVE  AInv'
<1>1. PICK s \in made : s = live /\ Returned = s /\ s \in Sessions
    BY ReturnedIsLive DEF Retry, AInv
<1>2. /\ mgr' = [mgr EXCEPT ![s] = Loading(mgr[s])] /\ Subscribed(s, Loading(mgr[s]))
      /\ opens' = opens \cup {<<s, mgr[s].epoch + 1, "opening">>}
      /\ UNCHANGED <<held, leaked, effect, live, made, closeError>>
      /\ mgr[s].close = "none" /\ mgr[s].database = None /\ mgr[s].epoch < MaxEpoch
    BY <1>1 DEF Retry, Becomes, MayOpen
<1>3. /\ mgr[s] \in Manager /\ mgr \in [Sessions -> Manager] /\ WithinBounds /\ EpochOK(s)
      /\ MaxEpoch \in Nat
    BY <1>1, AliveSession
<1>4. mgr'[s] = Loading(mgr[s]) /\ \A u \in Sessions \ {s} : mgr'[u] = mgr[u]
    BY <1>1, <1>2, <1>3
<1>5. AliveAt(s)' /\ mgr'[s].status = "loading"
    BY <1>1, <1>2, <1>4, AliveLoading
<1>6. mgr'[s].epoch <= MaxEpoch /\ mgr'[s].current <= MaxEpoch
    BY <1>2, <1>3, <1>4, LoadingFields DEF Manager, EpochOK
<1>7. Elsewhere(s)
    BY <1>2, <1>4 DEF Elsewhere
<1>8. WithinBounds'
    <2>1. <<s, mgr[s].epoch + 1, "opening">> \in Sessions \X (1..MaxEpoch) \X Phases
        <3>1. mgr[s].epoch + 1 \in 1..MaxEpoch
            BY <1>2, <1>3 DEF Manager
        <3> QED
            BY <1>1, <3>1 DEF Phases
    <2> QED
        BY <1>2, <1>3, <2>1 DEF WithinBounds
<1>9. Subscribed(s, mgr'[s])
    BY <1>2, <1>4
<1> QED
    BY <1>2, <1>5, <1>6, <1>7, <1>8, <1>9, AliveStep

\* close() hands the database and the promise to the teardown.
LEMMA AliveClosing ==
    ASSUME AInv, NEW s \in Sessions, mgr'[s] = Closing(mgr[s]),
           UNCHANGED <<opens, held, leaked>>
    PROVE  /\ AliveAt(s)' /\ mgr'[s].current <= MaxEpoch
           /\ mgr[s].close # "none" => mgr'[s] = mgr[s]
           /\ mgr[s].close = "none" => /\ mgr'[s].status = "idle"
                                       /\ mgr'[s].epoch = mgr[s].epoch + 1
<1>1. /\ mgr[s] \in Manager /\ AliveAt(s) /\ SessionOK(s) /\ WithinBounds /\ EpochOK(s)
      /\ MaxEpoch \in Nat
    BY AliveSession
<1>2. CASE mgr[s].close # "none"
    <2>1. mgr'[s] = mgr[s]
        BY <1>1, <1>2, ClosingFields
    <2>2. AliveAt(s)'
        BY <1>1, <2>1 DEF AliveAt
    <2> QED
        BY <1>1, <1>2, <2>1, <2>2 DEF EpochOK
<1>3. CASE mgr[s].close = "none"
    <2>1. /\ mgr'[s].epoch = mgr[s].epoch + 1 /\ mgr'[s].pending = mgr[s].init
          /\ mgr'[s].init = None /\ mgr'[s].current = mgr[s].database
          /\ mgr'[s].database = None /\ mgr'[s].close = "closing"
        BY <1>1, <1>3, ClosingFields
    <2>2. mgr'[s].status = "idle"
        BY <1>1, <1>3 DEF Closing, Manager
    <2>3. \A a \in Attempt : a # None
        BY DEF Attempt, None
    <2>4. AliveAt(s)'
        BY <1>1, <1>3, <2>1, <2>2, <2>3 DEF AliveAt
    <2>5. mgr[s].database <= MaxEpoch
        <3>1. mgr[s].database # None => mgr[s].database \in 1..MaxEpoch
            BY <1>1 DEF AliveAt, WithinBounds
        <3> QED
            BY <1>1, <3>1 DEF None
    <2> QED
        BY <1>3, <2>1, <2>2, <2>4, <2>5
<1> QED
    BY <1>2, <1>3

LEMMA AliveAppClose ==
    ASSUME AInv, SessionIInv', AppClose
    PROVE  AInv'
<1>1. PICK s \in made : s = live /\ Returned = s /\ s \in Sessions
    BY ReturnedIsLive DEF AppClose, AInv
<1>2. /\ mgr' = [mgr EXCEPT ![s] = Closing(mgr[s])] /\ Subscribed(s, Closing(mgr[s]))
      /\ UNCHANGED <<opens, held, leaked, effect, live, made, closeError>>
      /\ mgr[s].close = "none" /\ mgr[s].epoch + 1 < MaxEpoch
    BY <1>1 DEF AppClose, Becomes
<1>3. /\ mgr[s] \in Manager /\ mgr \in [Sessions -> Manager] /\ WithinBounds
      /\ MaxEpoch \in Nat
    BY <1>1, AliveSession
<1>4. mgr'[s] = Closing(mgr[s]) /\ \A u \in Sessions \ {s} : mgr'[u] = mgr[u]
    BY <1>1, <1>2, <1>3
<1>5. /\ AliveAt(s)' /\ mgr'[s].status = "idle" /\ mgr'[s].epoch = mgr[s].epoch + 1
      /\ mgr'[s].current <= MaxEpoch
    BY <1>1, <1>2, <1>4, AliveClosing
<1>6. mgr'[s].epoch <= MaxEpoch
    BY <1>2, <1>3, <1>5 DEF Manager
<1>7. Elsewhere(s)
    BY <1>2, <1>4 DEF Elsewhere
<1>8. WithinBounds'
    BY <1>2, <1>3 DEF WithinBounds
<1>9. Subscribed(s, mgr'[s])
    BY <1>2, <1>4
<1> QED
    BY <1>2, <1>5, <1>6, <1>7, <1>8, <1>9, AliveStep

\* A session that starts has nothing yet, so nothing is attached.
LEMMA AliveStart ==
    ASSUME AInv, SessionIInv', StartSession
    PROVE  AInv'
<1>1. PICK s \in Sessions : s = live /\ s \notin made
    BY DEF StartSession, AInv, SessionIInv, Typed
<1>2. /\ mgr' = [mgr EXCEPT ![s] = Loading(NewManager)]
      /\ opens' = opens \cup {<<s, 1, "opening">>} /\ made' = made \cup {s}
      /\ UNCHANGED <<held, leaked, effect, live, attached>> /\ closeError' = FALSE
    BY <1>1 DEF StartSession
<1>3. /\ mgr[s] \in Manager /\ mgr \in [Sessions -> Manager] /\ WithinBounds
      /\ MaxEpoch \in Nat \ {0} /\ SessionIInv
    BY <1>1, AliveSession
<1>4. mgr[s] = NewManager /\ Unmade(s)
    BY <1>1, <1>3 DEF SessionIInv, Hook, Unmade
<1>5. /\ mgr[s].database = None /\ mgr[s].close = "none" /\ 1 = mgr[s].epoch + 1
      /\ mgr[s].current = None /\ mgr[s].epoch = 0
    BY <1>4 DEF NewManager
<1>6. mgr'[s] = Loading(mgr[s]) /\ \A u \in Sessions \ {s} : mgr'[u] = mgr[u]
    BY <1>2, <1>3, <1>4
<1>7. AliveAt(s)' /\ mgr'[s].status = "loading"
    <2>1. opens' = opens \cup {<<s, mgr[s].epoch + 1, "opening">>}
        BY <1>2, <1>5
    <2> QED
        BY <1>2, <1>5, <1>6, <2>1, AliveLoading
<1>8. Elsewhere(s)
    BY <1>2, <1>6 DEF Elsewhere
<1>9. \A u \in Sessions : AliveAt(u)'
    BY <1>1, <1>7, <1>8, AliveElsewhere, AliveSession
<1>10. ASSUME NEW u \in Sessions PROVE EpochOK(u)'
    <2>1. CASE u = s
        BY <1>1, <1>2, <1>3, <1>5, <1>6, <2>1, LoadingFields DEF EpochOK, None
    <2>2. CASE u # s
        <3>1. mgr'[u] = mgr[u] /\ EpochOK(u) /\ live' = live
            BY <1>2, <1>6, <2>2, AliveSession
        <3> QED
            BY <3>1 DEF EpochOK
    <2> QED
        BY <2>1, <2>2
<1>11. SyncFollowsDatabase'
    BY <1>1, <1>2 DEF AInv, SyncFollowsDatabase
<1>12. WithinBounds'
    <2>1. <<s, 1, "opening">> \in Sessions \X (1..MaxEpoch) \X Phases
        <3>1. 1 \in 1..MaxEpoch
            BY <1>3
        <3> QED
            BY <3>1 DEF Phases
    <2> QED
        BY <1>2, <1>3, <2>1 DEF WithinBounds
<1> QED
    BY <1>9, <1>10, <1>11, <1>12 DEF AInv

\* A session that is cleaned up is closed once more and forgotten.
LEMMA AliveRunEffects ==
    ASSUME AInv, SessionIInv', RunEffects
    PROVE  AInv'
<1>1. /\ UNCHANGED <<made, opens, held, leaked>> /\ attached' = None
      /\ closeError' \in BOOLEAN
      /\ \/ live' = None /\ effect' = effect
         \/ live' = effect + 1 /\ effect' = effect + 1 /\ effect + 1 \in Sessions
    BY DEF RunEffects, AInv, SessionIInv, RenderOK, WithinBounds
<1>2. /\ mgr \in [Sessions -> Manager] /\ WithinBounds /\ MaxEpoch \in Nat \ {0}
      /\ effect \in Nat /\ None \notin Sessions /\ SessionIInv /\ made \subseteq Sessions
      /\ \A u \in made : u <= effect /\ u \in Nat
    BY SessionAssumption DEF AInv, SessionIInv, Typed, Hook, None
<1>3. live' \notin made
    BY <1>1, <1>2
<1>4. WithinBounds'
    BY <1>1, <1>2 DEF WithinBounds
<1>5. SyncFollowsDatabase'
    BY <1>1 DEF SyncFollowsDatabase
<1>6. ASSUME NEW u \in Sessions, mgr'[u] = mgr[u], u # live \/ u \notin made
      PROVE  AliveAt(u)' /\ EpochOK(u)'
    <2>1. mgr[u] \in Manager /\ AliveAt(u) /\ EpochOK(u) /\ SessionIInv
        BY AliveSession
    <2>2. AliveAt(u)'
        BY <1>1, <1>6, <2>1 DEF AliveAt
    <2>3. u \notin made => mgr[u].epoch = 0 /\ mgr[u].current = 0
        BY <2>1 DEF SessionIInv, Hook, Unmade, NewManager, None
    <2>4. u \in made => u # live'
        BY <1>3
    <2>5. EpochOK(u)'
        BY <1>2, <1>6, <2>1, <2>3, <2>4 DEF EpochOK, Manager
    <2> QED
        BY <2>2, <2>5
<1>7. CASE live \in made
    <2>0. PICK s \in Sessions : s = live /\ s \in made
        BY <1>2, <1>7
    <2>1. mgr'[s] = Closing(mgr[s]) /\ \A u \in Sessions \ {s} : mgr'[u] = mgr[u]
        BY <1>2, <2>0 DEF RunEffects
    <2>2. /\ AliveAt(s)' /\ mgr'[s].current <= MaxEpoch
          /\ mgr[s].close # "none" => mgr'[s] = mgr[s]
          /\ mgr[s].close = "none" => mgr'[s].epoch = mgr[s].epoch + 1
        BY <1>1, <2>1, AliveClosing
    <2>3. mgr[s] \in Manager /\ EpochOK(s)
        BY AliveSession
    <2>4. mgr'[s].epoch <= MaxEpoch + 1
        BY <1>2, <2>0, <2>2, <2>3 DEF EpochOK, Manager
    <2>5. EpochOK(s)'
        BY <1>3, <2>0, <2>2, <2>4 DEF EpochOK
    <2>6. ASSUME NEW u \in Sessions PROVE AliveAt(u)' /\ EpochOK(u)'
        <3>1. u # s => u # live
            BY <2>0
        <3> QED
            BY <1>6, <2>1, <2>2, <2>5, <3>1
    <2> QED
        BY <1>4, <1>5, <2>6 DEF AInv
<1>8. CASE live \notin made
    <2>1. mgr' = mgr
        BY <1>8 DEF RunEffects
    <2> QED
        BY <1>4, <1>5, <1>6, <1>8, <2>1 DEF AInv
<1> QED
    BY <1>7, <1>8

LEMMA AliveUnchanged ==
    ASSUME AInv, SessionIInv',
           UNCHANGED <<effect, live, mgr, made, attached, closeError, opens, held, leaked>>
    PROVE  AInv'
<1>1. WithinBounds' /\ SyncFollowsDatabase'
    BY DEF AInv, WithinBounds, SyncFollowsDatabase
<1>2. \A s \in Sessions : AliveAt(s)' /\ EpochOK(s)'
    BY DEF AInv, AliveAt, EpochOK
<1> QED
    BY <1>1, <1>2 DEF AInv

LEMMA AInvNext == AInv /\ [SessionNext]_sessionVars => AInv'
<1> SUFFICES ASSUME AInv, [SessionNext]_sessionVars PROVE AInv'
    OBVIOUS
<1>0. SessionIInv'
    BY SessionIInvStep DEF AInv
<1>1. ASSUME NEW u \in Users \cup {Nobody}, SignIn(u) PROVE AInv'
    BY <1>0, <1>1, AliveUnchanged DEF SignIn
<1>2. CASE UNCHANGED sessionVars
    BY <1>0, <1>2, AliveUnchanged DEF sessionVars
<1>3. ASSUME NEW s \in Sessions, NEW attempt \in 1..MaxEpoch,
             \/ Settling(s, attempt) \/ OpenFails(s, attempt, TRUE)
             \/ LateClosed(s, attempt, FALSE) \/ TakenOver(s, attempt)
      PROVE  AInv'
    BY <1>0, <1>3, AliveOpened, AliveOpenFails, AliveLateClosed, AliveTakenOver DEF Settling
<1>4. ASSUME NEW s \in Sessions, CloseSettles(s) \/ \E ok \in BOOLEAN : CurrentClosed(s, ok)
      PROVE  AInv'
    BY <1>0, <1>4, AliveCloseSettles, AliveCurrentClosed
<1> QED
    BY <1>0, <1>1, <1>2, <1>3, <1>4, AliveRunEffects, AliveStart, AliveRetry, AliveAppClose
       DEF SessionNext

LEMMA InitAInv == SessionInit => AInv
<1> SUFFICES ASSUME SessionInit PROVE AInv
    OBVIOUS
<1>1. \A s \in Sessions : mgr[s] = NewManager
    BY DEF SessionInit
<1>2. \A s \in Sessions : AliveAt(s) /\ EpochOK(s)
    BY <1>1, SessionAssumption DEF SessionInit, AliveAt, EpochOK, NewManager, None
<1>3. SyncFollowsDatabase /\ WithinBounds
    BY DEF SessionInit, SyncFollowsDatabase, WithinBounds, None
<1> QED
    BY <1>2, <1>3, SessionInitIInv DEF AInv

\* The types, from the two invariants.
LEMMA SessionTypes == AInv => SessionTypeOK
<1> SUFFICES ASSUME AInv PROVE SessionTypeOK
    OBVIOUS
<1>1. SessionIInv /\ WithinBounds /\ SyncFollowsDatabase /\ Typed /\ MaxEpoch \in Nat \ {0}
    BY SessionAssumption DEF AInv, SessionIInv
<1>2. ASSUME NEW s \in Sessions
      PROVE  /\ mgr[s].status \in Statuses
             /\ mgr[s].close \in {"none", "closing", "failed"}
             /\ mgr[s].epoch \in 0..(MaxEpoch + 1)
             /\ mgr[s].database \in 0..MaxEpoch /\ mgr[s].current \in 0..MaxEpoch
             /\ mgr[s].init # None => \E o \in opens : o[1] = s /\ o[2] = mgr[s].init
             /\ mgr[s].close = "closing" /\ mgr[s].pending # None =>
                   \E o \in opens : o[1] = s /\ o[2] = mgr[s].pending
    <2>1. mgr[s] \in Manager /\ AliveAt(s) /\ EpochOK(s)
        BY AliveSession
    <2>2. mgr[s].database \in 0..MaxEpoch
        <3>1. mgr[s].database # None => mgr[s].database \in 1..MaxEpoch
            BY <1>1, <2>1 DEF AliveAt, WithinBounds
        <3> QED
            BY <1>1, <3>1 DEF None
    <2>3. mgr[s].current \in 0..MaxEpoch /\ mgr[s].epoch \in 0..(MaxEpoch + 1)
        BY <1>1, <2>1 DEF EpochOK, Manager
    <2>4. mgr[s].init # None => \E o \in opens : o[1] = s /\ o[2] = mgr[s].init
        BY <2>1 DEF AliveAt
    <2>5. mgr[s].close = "closing" /\ mgr[s].pending # None =>
              \E o \in opens : o[1] = s /\ o[2] = mgr[s].pending
        BY <2>1 DEF AliveAt
    <2> QED
        BY <2>1, <2>2, <2>3, <2>4, <2>5 DEF Manager
<1>3. attached \in 0..MaxEpoch
    <2>1. attached # None => attached \in 0..MaxEpoch
        BY <1>1, <1>2 DEF SyncFollowsDatabase, Typed
    <2> QED
        BY <1>1, <2>1 DEF None
<1>4. {effect, live, tail, owned} \subseteq Sessions \cup {None}
    BY <1>1 DEF Typed, WithinBounds
<1>5. opens \subseteq Sessions \X (1..MaxEpoch) \X {"opening", "late closing", "lost"}
    BY <1>1 DEF WithinBounds, Phases
<1>6. ASSUME NEW s \in Sessions
      PROVE  \A promise \in {mgr[s].init} \cup
                (IF mgr[s].close = "closing" THEN {mgr[s].pending} ELSE {}) :
                promise # None => \E o \in opens : o[1] = s /\ o[2] = promise
    BY <1>2
<1>7. ASSUME NEW s \in Sessions
      PROVE  {mgr[s].database, mgr[s].current} \subseteq 0..MaxEpoch
    BY <1>2
<1>8. /\ user \in Users \cup {Nobody} /\ owner \in [Sessions -> Users \cup {Nobody}]
      /\ made \subseteq Sessions /\ closeError \in BOOLEAN
      /\ leaked \subseteq held /\ held \subseteq Sessions \X (1..MaxEpoch)
    BY <1>1 DEF Typed, WithinBounds
<1> QED
    BY <1>2, <1>3, <1>4, <1>5, <1>6, <1>7, <1>8 DEF SessionTypeOK

\* For any number of sessions, attempts, faults and takeovers: a manager's
\* database is the one of its newest open, its file is open, nothing closes it,
\* and the sync controller runs on no other.
THEOREM DatabaseAlwaysAlive == SessionSpec => []DatabaseIsAlive
<1>1. ASSUME AInv PROVE DatabaseIsAlive
    <2>1. ASSUME NEW s \in Sessions
          PROVE  /\ mgr[s].status = "ready" <=> mgr[s].database # None
                 /\ mgr[s].database # None =>
                       /\ mgr[s].database = mgr[s].epoch /\ mgr[s].close = "none"
                       /\ <<s, mgr[s].database>> \in held
        BY <1>1, AliveSession DEF AliveAt, SessionOK, ManagerOK
    <2> QED
        BY <1>1, <2>1, SessionTypes DEF DatabaseIsAlive, AInv
<1> QED
    BY <1>1, InitAInv, AInvNext, PTL DEF SessionSpec
================================================================================
