------------------------------- MODULE Session -------------------------------
(* The signed-in user's database: createDatabaseManager (DatabaseManager.ts)  *)
(* under the hook that owns it, useSessionDatabase (react/index.ts).          *)
(*                                                                            *)
(* A session is one run of the hook's effect.  It waits for the previous      *)
(* session's teardown, makes a manager, subscribes to it and calls init().    *)
(* Its cleanup closes the manager at once and leaves that close as the tail   *)
(* the next session waits for.  The manager tells its life apart by an epoch: *)
(* an open carries the epoch it started in as its attempt number, and a       *)
(* close moves the epoch on.                                                  *)
(*                                                                            *)
(* The file system, the driver and Database.open are outside: an open either  *)
(* gives a database that holds the user's file, fails, or fails after its     *)
(* driver had opened the file, in which case nothing closes that driver       *)
(* (`leaked').  A close may fail and leave the file held.  Another tab may    *)
(* take an open file over (TakenOver).                                        *)
EXTENDS Naturals, FiniteSets

CONSTANTS
    Users,          \* account ids
    Sessions,       \* bound: 1..n, runs of the hook's effect
    MaxEpoch,       \* bound: a manager's attempts and closes
    MaxLeaks,       \* bound: opens that fail after the driver opened the file
    MaxCloseFails,  \* bound: closes of a database that fail
    MaxTakeovers    \* bound: takeovers by another tab

ASSUME SessionAssumption ==
    /\ Sessions \subseteq Nat \ {0}
    /\ {MaxEpoch, MaxLeaks, MaxCloseFails, MaxTakeovers} \subseteq Nat
    /\ MaxEpoch # 0

Nobody == "nobody"
None == 0

VARIABLES
    user,       \* the hook's userId prop, or Nobody while signed out
    effect,     \* the session whose effect ran last; None before the first
    live,       \* the session whose effect is not cleaned up, or None
    owner,      \* owner[s]: the user session s runs for, Nobody before it starts
    mgr,        \* mgr[s]: the manager session s made
    made,       \* the sessions that made their manager
    tail,       \* closeTail: the session whose close() it is, None at first
    owned,      \* the hook's owned state: a session, or None
    attached,   \* the attempt whose database the sync controller runs on, or None
    closeError, \* the hook's closeError is set
    opens,      \* opens in flight: <<session, attempt, "opening" | "late closing" | "lost">>
    held,       \* databases whose file is open: <<session, attempt>>
    leaked,     \* those of them no Database object will ever close
    closeFails, takeovers  \* how often each fault happened

sessionVars == <<user, effect, live, owner, mgr, made, tail, owned, attached,
          closeError, opens, held, leaked, closeFails, takeovers>>

Statuses == {"idle", "loading", "ready", "error", "taken-over"}

(* A manager.  init and pending hold the attempt of an init promise: the one  *)
(* concurrent callers share, and the one a running close() waits for.         *)
(* current is the database that close() is closing.                           *)
NewManager ==
    [status |-> "idle", epoch |-> 0, database |-> None, init |-> None,
     close |-> "none", current |-> None, pending |-> None, lateError |-> FALSE]

SessionInit ==
    /\ user = Nobody /\ effect = None /\ live = None
    /\ owner = [s \in Sessions |-> Nobody]
    /\ mgr = [s \in Sessions |-> NewManager]
    /\ made = {} /\ tail = None /\ owned = None /\ attached = None
    /\ closeError = FALSE
    /\ opens = {} /\ held = {} /\ leaked = {}
    /\ closeFails = 0 /\ takeovers = 0

\* What the hook's subscription does with the state a manager emits.
Subscribed(s, m) ==
    attached' = IF s # live THEN attached
                ELSE IF m.status # "ready" THEN None
                ELSE IF attached = None THEN m.database ELSE attached

\* setState: the manager's new state and the listeners' answer to it.
Becomes(s, m) ==
    /\ mgr' = [mgr EXCEPT ![s] = m]
    /\ Subscribed(s, m)

------------------------------------------------------------------------------
(* DatabaseManager *)

(* init() opens unless a close runs or failed, a database is open, or another *)
(* caller's open is in flight; in those cases nothing changes.                *)
MayOpen(m) ==
    m.close = "none" /\ m.database = None /\ m.init = None /\ m.epoch < MaxEpoch

Loading(m) ==
    [m EXCEPT !.epoch = @ + 1, !.init = m.epoch + 1, !.status = "loading"]

\* A settled open is not seen by the close that waits for it.
SettleUnseen(m, attempt) ==
    [m EXCEPT !.init = IF @ = attempt THEN None ELSE @]

SettleInit(m, attempt) ==
    [m EXCEPT !.init = IF @ = attempt THEN None ELSE @,
              !.pending = IF @ = attempt THEN None ELSE @]

(* options.open resolved: in the epoch the open belongs to, its database is   *)
(* the manager's; after a close, the late arrival is closed.                  *)
OpenSucceeds(s, attempt) ==
    /\ <<s, attempt, "opening">> \in opens
    /\ held' = held \cup {<<s, attempt>>}
    /\ IF attempt = mgr[s].epoch
       THEN /\ opens' = opens \ {<<s, attempt, "opening">>}
            /\ Becomes(s, [SettleInit(mgr[s], attempt) EXCEPT
                             !.database = attempt, !.status = "ready"])
       ELSE /\ opens' = (opens \ {<<s, attempt, "opening">>})
                            \cup {<<s, attempt, "late closing">>}
            /\ UNCHANGED <<mgr, attached>>
    /\ UNCHANGED <<user, effect, live, owner, made, tail, owned, closeError,
                   leaked, closeFails, takeovers>>

(* options.open rejected.  leaves: Database.open failed in its set-up or its  *)
(* migrations, with its driver open.  A lost open is one that was taken over. *)
OpenFails(s, attempt, leaves) ==
    /\ \E phase \in {"opening", "lost"} :
          /\ <<s, attempt, phase>> \in opens
          /\ leaves => phase = "opening" /\ Cardinality(leaked) < MaxLeaks
          /\ opens' = opens \ {<<s, attempt, phase>>}
    /\ held' = IF leaves THEN held \cup {<<s, attempt>>} ELSE held
    /\ leaked' = IF leaves THEN leaked \cup {<<s, attempt>>} ELSE leaked
    /\ IF attempt = mgr[s].epoch
       THEN Becomes(s, [SettleInit(mgr[s], attempt) EXCEPT !.status = "error"])
       ELSE /\ mgr' = [mgr EXCEPT ![s] = SettleInit(@, attempt)]
            /\ UNCHANGED attached
    /\ UNCHANGED <<user, effect, live, owner, made, tail, owned, closeError,
                   closeFails, takeovers>>

\* A close of a database works, or fails and leaves its file held.
Closes(database, ok) ==
    /\ ok \/ closeFails < MaxCloseFails
    /\ held' = IF ok THEN held \ {database} ELSE held
    /\ closeFails' = IF ok THEN closeFails ELSE closeFails + 1

\* The late arrival's close settles; its failure is left for close() to report.
LateClosed(s, attempt, ok) ==
    /\ <<s, attempt, "late closing">> \in opens
    /\ opens' = opens \ {<<s, attempt, "late closing">>}
    /\ Closes(<<s, attempt>>, ok)
    /\ mgr' = [mgr EXCEPT ![s] =
                 [SettleInit(mgr[s], attempt) EXCEPT !.lateError = mgr[s].lateError \/ ~ok]]
    /\ UNCHANGED <<user, effect, live, owner, made, tail, owned, attached,
                   closeError, leaked, takeovers>>

\* close() does not supersede the open in flight.
ClosingSameEpoch(m) ==
    IF m.close # "none" THEN m
    ELSE [m EXCEPT !.pending = m.init, !.init = None,
                   !.current = m.database, !.database = None,
                   !.close = "closing", !.status = "idle"]

\* close() does not wait for the open in flight.
ClosingAtOnce(m) ==
    IF m.close # "none" THEN m
    ELSE [m EXCEPT !.epoch = @ + 1, !.init = None,
                   !.current = m.database, !.database = None,
                   !.close = "closing", !.status = "idle"]

(* close(): the epoch moves on, what is open or opening is now the close's,   *)
(* and the guard is up before anyone hears of idle.  While a close runs, or   *)
(* once one failed, its promise is the answer.                                *)
Closing(m) ==
    IF m.close # "none" THEN m
    ELSE [m EXCEPT !.epoch = @ + 1, !.pending = m.init, !.init = None,
                   !.current = m.database, !.database = None,
                   !.close = "closing", !.status = "idle"]

CurrentClosed(s, ok) ==
    /\ mgr[s].close = "closing" /\ mgr[s].current # None
    /\ Closes(<<s, mgr[s].current>>, ok)
    /\ mgr' = [mgr EXCEPT ![s].current = None,
                          ![s].close = IF ok THEN @ ELSE "failed"]
    /\ closeError' = (closeError \/ (~ok /\ s # live))
    /\ UNCHANGED <<user, effect, live, owner, made, tail, owned, attached,
                   opens, leaked, takeovers>>

\* The teardown is over: nothing left to close and no open left to wait for.
CloseSettles(s) ==
    /\ mgr[s].close = "closing"
    /\ mgr[s].current = None /\ mgr[s].pending = None
    /\ mgr' = [mgr EXCEPT ![s].close = IF mgr[s].lateError THEN "failed" ELSE "none",
                          ![s].lateError = FALSE]
    /\ closeError' = (closeError \/ (mgr[s].lateError /\ s # live))
    /\ UNCHANGED <<user, effect, live, owner, made, tail, owned, attached,
                   opens, held, leaked, closeFails, takeovers>>

(* Another tab takes the file: the driver lets go of it and calls back.  The  *)
(* callback of an attempt whose epoch has passed is ignored.                  *)
TakenOver(s, attempt) ==
    /\ takeovers < MaxTakeovers
    /\ takeovers' = takeovers + 1
    /\ \/ /\ <<s, attempt>> \in held
          /\ held' = held \ {<<s, attempt>>}
          /\ leaked' = leaked \ {<<s, attempt>>}
          /\ UNCHANGED opens
       \/ /\ <<s, attempt, "opening">> \in opens
          /\ opens' = (opens \ {<<s, attempt, "opening">>}) \cup {<<s, attempt, "lost">>}
          /\ UNCHANGED <<held, leaked>>
    /\ IF attempt = mgr[s].epoch
       THEN Becomes(s, [mgr[s] EXCEPT !.database = None, !.status = "taken-over"])
       ELSE UNCHANGED <<mgr, attached>>
    /\ UNCHANGED <<user, effect, live, owner, made, tail, owned, closeError,
                   closeFails>>

------------------------------------------------------------------------------
(* useSessionDatabase *)

(* The userId prop changes: React renders at once and runs the effect after,  *)
(* always before the next render.                                             *)
EffectsPending == IF live = None THEN user # Nobody ELSE owner[live] # user

SignIn(u) ==
    /\ ~EffectsPending /\ u # user
    /\ u # Nobody => effect + 1 \in Sessions
    /\ user' = u
    /\ UNCHANGED <<effect, live, owner, mgr, made, tail, owned, attached,
                   closeError, opens, held, leaked, closeFails, takeovers>>

(* The old effect's cleanup, then the new effect.  Cleanup unsubscribes,      *)
(* disposes the controller, closes the manager at once and puts that close on *)
(* the tail; a session that never made its manager leaves the tail alone.     *)
RunEffects ==
    /\ EffectsPending
    /\ mgr' = IF live \in made THEN [mgr EXCEPT ![live] = Closing(@)] ELSE mgr
    /\ tail' = IF live \in made THEN live ELSE tail
    /\ closeError' = (closeError \/ (live \in made /\ mgr[live].close = "failed"))
    /\ owned' = IF owned = live THEN None ELSE owned
    /\ attached' = None
    /\ IF user = Nobody
       THEN live' = None /\ UNCHANGED <<effect, owner>>
       ELSE /\ effect' = effect + 1
            /\ live' = effect + 1
            /\ owner' = [owner EXCEPT ![effect + 1] = user]
    /\ UNCHANGED <<user, made, opens, held, leaked, closeFails, takeovers>>

\* The next session does not wait for the previous close.
TailForgotten == TRUE

\* The next session waits for the previous close to end, in whatever way.
TailSettled == tail # None => mgr[tail].close # "closing"

(* The tail resolved and the session is still the live one: it makes its      *)
(* manager, clears an earlier error, hands the manager out and opens.         *)
TailResolved == tail # None => mgr[tail].close = "none"

StartSession ==
    /\ live # None /\ live \notin made
    /\ TailResolved
    /\ made' = made \cup {live}
    /\ closeError' = FALSE
    /\ owned' = live
    /\ mgr' = [mgr EXCEPT ![live] = Loading(NewManager)]
    /\ opens' = opens \cup {<<live, 1, "opening">>}
    /\ UNCHANGED <<user, effect, live, owner, tail, attached, held, leaked,
                   closeFails, takeovers>>

\* What the hook returns: the owned manager, unless it is another user's.
Returned == IF owned # None /\ owner[owned] = user THEN owned ELSE None

\* The application calls init() on the manager it was given: a retry button.
Retry ==
    /\ Returned # None
    /\ MayOpen(mgr[Returned])
    /\ Becomes(Returned, Loading(mgr[Returned]))
    /\ opens' = opens \cup {<<Returned, mgr[Returned].epoch + 1, "opening">>}
    /\ UNCHANGED <<user, effect, live, owner, made, tail, owned, closeError,
                   held, leaked, closeFails, takeovers>>

\* The application closes the manager it was given, ahead of the hook.
AppClose ==
    /\ Returned # None
    /\ mgr[Returned].close = "none" /\ mgr[Returned].epoch + 1 < MaxEpoch
    /\ Becomes(Returned, Closing(mgr[Returned]))
    /\ UNCHANGED <<user, effect, live, owner, made, tail, owned, closeError,
                   opens, held, leaked, closeFails, takeovers>>

------------------------------------------------------------------------------
Settling(s, attempt) ==
    \/ OpenSucceeds(s, attempt)
    \/ OpenFails(s, attempt, FALSE)
    \/ LateClosed(s, attempt, TRUE)

SessionNext ==
    \/ \E u \in Users \cup {Nobody} : SignIn(u)
    \/ RunEffects \/ StartSession \/ Retry \/ AppClose
    \/ \E s \in Sessions :
          \/ CloseSettles(s)
          \/ \E ok \in BOOLEAN : CurrentClosed(s, ok)
          \/ \E attempt \in 1..MaxEpoch :
                \/ Settling(s, attempt)
                \/ OpenFails(s, attempt, TRUE)
                \/ LateClosed(s, attempt, FALSE)
                \/ TakenOver(s, attempt)

SessionSpec == SessionInit /\ [][SessionNext]_sessionVars

(* Effects run, the tail's callback runs, and every open and close settles,   *)
(* one way or the other.                                                      *)
SessionFairSpec ==
    /\ SessionSpec
    /\ WF_sessionVars(RunEffects) /\ WF_sessionVars(StartSession)
    /\ \A s \in Sessions :
          /\ WF_sessionVars(CloseSettles(s))
          /\ WF_sessionVars(\E ok \in BOOLEAN : CurrentClosed(s, ok))
          /\ \A attempt \in 1..MaxEpoch :
                WF_sessionVars(\/ Settling(s, attempt)
                               \/ OpenFails(s, attempt, TRUE)
                               \/ LateClosed(s, attempt, FALSE))

------------------------------------------------------------------------------
(* Properties *)

(* The variables have their types, and an init promise that callers share, or *)
(* a close waits for, is that of an open still in flight                      *)
(* (DatabaseManager.ts, the finally of init() and pendingInit in close()).    *)
SessionTypeOK ==
    /\ user \in Users \cup {Nobody}
    /\ {effect, live, tail, owned} \subseteq Sessions \cup {None}
    /\ owner \in [Sessions -> Users \cup {Nobody}]
    /\ made \subseteq Sessions /\ attached \in 0..MaxEpoch
    /\ closeError \in BOOLEAN
    /\ opens \subseteq Sessions \X (1..MaxEpoch) \X {"opening", "late closing", "lost"}
    /\ leaked \subseteq held /\ held \subseteq Sessions \X (1..MaxEpoch)
    /\ \A s \in Sessions :
          LET m == mgr[s] IN
          /\ m.status \in Statuses
          /\ m.close \in {"none", "closing", "failed"}
          /\ m.epoch \in 0..(MaxEpoch + 1)
          /\ {m.database, m.current} \subseteq 0..MaxEpoch
          /\ \A promise \in {m.init} \cup (IF m.close = "closing" THEN {m.pending} ELSE {}) :
                promise # None => \E o \in opens : o[1] = s /\ o[2] = promise

(* Of all the databases the hook's managers have open, opening or closing,    *)
(* at most one is there at a time, however sessions, retries, closes, late    *)
(* opens and takeovers overlap: a session opens only when the one before has  *)
(* let go of its file.  A driver leaked by a failed open is exempt.           *)
Busy == (held \ leaked) \cup
        {<<o[1], o[2]>> : o \in {x \in opens : x[3] # "lost"}}

FileExclusive == Cardinality(Busy) <= 1

(* The sync controller runs only for the session of the signed-in user's      *)
(* effect, against the database its manager has now, never one that was       *)
(* closed, taken over or reopened since.                                      *)
SyncFollowsDatabase ==
    attached # None => live \in made /\ mgr[live].database = attached

(* A manager's database is the one its newest open gave, its file is open and *)
(* nothing is closing it: neither an open that lands after a close() nor the  *)
(* takeover of an earlier life can leave the manager, or the sync controller  *)
(* that follows it, with a dead database.                                     *)
DatabaseIsAlive ==
    /\ SessionTypeOK /\ SyncFollowsDatabase
    /\ \A s \in Sessions :
          LET m == mgr[s] IN
          /\ m.status = "ready" <=> m.database # None
          /\ m.database # None =>
                m.database = m.epoch /\ m.close = "none" /\ <<s, m.database>> \in held

(* A close() that resolves has told the truth: no database of its manager is  *)
(* open any more, the late arrival included.  The exception is the driver of  *)
(* an open that failed, which no one closes.                                  *)
CloseFreesFile ==
    [][\A s \in Sessions :
         mgr[s].close = "closing" /\ mgr'[s].close = "none" =>
            \A database \in held' : database[1] = s => database \in leaked']_sessionVars

(* Sign-ins come to an end (Sessions is finite), and then the hook comes to   *)
(* rest: signed out with every file closed, or with the user's manager handed *)
(* out and its open decided, unless a teardown failed.                        *)
AtRest ==
    \/ closeError
    \/ user = Nobody /\ held = leaked /\ opens = {}
    \/ user # Nobody /\ Returned = live /\ live # None /\ mgr[live].status # "loading"

SessionSettles == <>[]AtRest

(* What the manager's documentation says of close(): it resolves only once    *)
(* nothing this manager opened is still open (DatabaseManager.ts:40-42).      *)
CloseFreesEverything ==
    [][\A s \in Sessions :
         mgr[s].close = "closing" /\ mgr'[s].close = "none" =>
            \A database \in held' : database[1] # s]_sessionVars
==============================================================================
