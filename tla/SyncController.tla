---------------------------- MODULE SyncController ----------------------------
(***************************************************************************)
(* createSyncController: when a sync runs.  Triggers (start, the interval, *)
(* platform wake-ups, the debounce of local writes, syncNow) coalesce into *)
(* one run at a time and one queued behind it; an auth error blocks the    *)
(* automatic ones; dispose() ends everything.                              *)
(*                                                                         *)
(* One thread.  A run passes through                                       *)
(*   announcing   run() told the listeners "syncing", which is a chance    *)
(*                for them to call back in, and has not called runSync yet *)
(*   executing    runSync is in flight                                     *)
(*   finishing    its outcome is in the state, its finally is still to run *)
(* and in every one of them the code's flag running is set.                *)
(***************************************************************************)
EXTENDS Naturals

CONSTANTS
  Call,           \* the calls of syncNow()
  ListenerCalls,  \* what a listener may call while "syncing" is announced
  MaxTriggers     \* bound on automatic triggers and notified writes

ASSUME ControllerConstants ==
  /\ ListenerCalls \subseteq {"syncNow", "notifyLocalWrite", "dispose"}
  /\ MaxTriggers \in Nat

VARIABLES
  phase,        \* where the run stands, or "none"
  status,       \* the status listeners see
  queued,       \* a coalesced follow-up waits for the run to end
  authBlocked,  \* automatic triggers are ignored
  started,      \* the interval and the platform triggers are installed
  debounce,     \* the debounce timer is set
  signal,       \* the run's abort signal
  disposed,
  call,         \* what the promise of each syncNow() waits for
  begun,        \* history: the calls some runSync began after
  unsynced,     \* history: a local write was notified that no runSync began after
  triggers      \* how much of the budget is used

timers  == <<started, debounce>>
history == <<begun, unsynced>>
controllerVars ==
  <<phase, status, queued, authBlocked, timers, signal, disposed, call, history,
    triggers>>

ControllerInit ==
  /\ phase = "none"
  /\ status = "idle"
  /\ queued = FALSE
  /\ authBlocked = FALSE
  /\ started = FALSE
  /\ debounce = FALSE
  /\ signal = "none"
  /\ disposed = FALSE
  /\ call = [c \in Call |-> "unmade"]
  /\ begun = {}
  /\ unsynced = FALSE
  /\ triggers = 0

running == phase # "none"

\* While a listener runs nothing else does, and it calls what it may.
Callable(method) == phase = "announcing" => method \in ListenerCalls

\* Mistake: a call during a run is answered with that run's outcome.
JoinRunning == "current"

\* The run a new call waits for: its own, or the follow-up of the present one.
Awaited == IF running THEN "queued" ELSE "current"

\* run(): queue behind the run there is, or begin one.
Run ==
  IF running
    THEN /\ queued' = TRUE
         /\ UNCHANGED <<phase, status>>
    ELSE /\ phase' = "announcing"
         /\ status' = "syncing"
         /\ UNCHANGED queued

\* Mistake: an automatic trigger during a run is forgotten.
TriggerWhenIdle ==
  IF authBlocked \/ running THEN UNCHANGED <<phase, status, queued>> ELSE Run

\* An automatic trigger that is not blocked.
Trigger == IF authBlocked THEN UNCHANGED <<phase, status, queued>> ELSE Run

(***************************************************************************)
(* The controller's methods.                                               *)
(***************************************************************************)
Start ==
  /\ phase # "announcing"
  /\ ~disposed /\ ~started
  /\ started' = TRUE
  /\ Run
  /\ UNCHANGED <<authBlocked, debounce, signal, disposed, call, history, triggers>>

SyncNow(c) ==
  /\ Callable("syncNow")
  /\ call[c] = "unmade"
  /\ IF disposed
       THEN /\ call' = [call EXCEPT ![c] = "settled"]
            /\ UNCHANGED <<phase, status, queued, authBlocked>>
       ELSE /\ call' = [call EXCEPT ![c] = Awaited]
            /\ authBlocked' = FALSE
            /\ Run
  /\ UNCHANGED <<timers, signal, disposed, history, triggers>>

NotifyLocalWrite ==
  /\ Callable("notifyLocalWrite")
  /\ triggers < MaxTriggers
  /\ triggers' = triggers + 1
  /\ ~disposed /\ ~authBlocked
  /\ debounce' = TRUE
  /\ unsynced' = TRUE
  /\ UNCHANGED <<phase, status, queued, authBlocked, started, signal, disposed,
                 call, begun>>

\* Mistake: the run in flight is left to itself.
LeaveSignal == signal

AbortSignal == IF signal = "live" THEN "aborted" ELSE signal

Dispose ==
  /\ Callable("dispose")
  /\ ~disposed
  /\ disposed' = TRUE
  /\ call' = [c \in Call |-> IF call[c] = "unmade" THEN "unmade" ELSE "settled"]
  /\ queued' = FALSE
  /\ signal' = AbortSignal
  /\ started' = FALSE
  /\ debounce' = FALSE
  /\ UNCHANGED <<phase, status, authBlocked, history, triggers>>

(***************************************************************************)
(* Timers and wake-ups.                                                    *)
(***************************************************************************)
AutoTrigger ==
  /\ phase # "announcing"
  /\ started
  /\ triggers < MaxTriggers
  /\ triggers' = triggers + 1
  /\ Trigger
  /\ UNCHANGED <<authBlocked, timers, signal, disposed, call, history>>

DebounceFires ==
  /\ phase # "announcing"
  /\ debounce
  /\ debounce' = FALSE
  /\ Trigger
  /\ UNCHANGED <<authBlocked, started, signal, disposed, call, history, triggers>>

(***************************************************************************)
(* The run.                                                                *)
(***************************************************************************)
Execute ==
  /\ phase = "announcing"
  /\ phase' = "executing"
  /\ signal' = "live"
  /\ begun' = {c \in Call : call[c] # "unmade"}
  /\ unsynced' = FALSE
  /\ UNCHANGED <<status, queued, authBlocked, timers, disposed, call, triggers>>

Outcomes == {"idle", "resync-required", "auth", "offline", "error"}

\* The outcome reaches the state, unless the controller is gone.
Finish(outcome) ==
  /\ phase = "executing"
  /\ phase' = "finishing"
  /\ IF disposed
       THEN UNCHANGED <<status, authBlocked>>
       ELSE /\ status' = IF outcome = "auth" THEN "error" ELSE outcome
            /\ authBlocked' = (authBlocked \/ outcome = "auth")
  /\ UNCHANGED <<queued, timers, signal, disposed, call, history, triggers>>

\* Mistake: the queued follow-up is dropped.
NoFollowUp == FALSE

FollowUp == queued /\ ~disposed

\* Mistake: nobody is told.
KeepWaiting(c) == call[c]

\* The run's callers have their answer, the queued ones now wait for the next.
Resolved(c) ==
  CASE call[c] = "current" -> "settled"
    [] call[c] = "queued" /\ FollowUp -> "current"
    [] OTHER -> call[c]

Settle ==
  /\ phase = "finishing"
  /\ signal' = "none"
  /\ call' = [c \in Call |-> Resolved(c)]
  /\ queued' = FALSE
  /\ IF FollowUp
       THEN phase' = "announcing" /\ status' = "syncing"
       ELSE phase' = "none" /\ UNCHANGED status
  /\ UNCHANGED <<authBlocked, timers, disposed, history, triggers>>

-----------------------------------------------------------------------------
Finishes == \E outcome \in Outcomes : Finish(outcome)

ControllerNext ==
  \/ Start
  \/ \E c \in Call : SyncNow(c)
  \/ NotifyLocalWrite \/ Dispose
  \/ AutoTrigger \/ DebounceFires
  \/ Execute \/ Finishes \/ Settle

ControllerSpec == ControllerInit /\ [][ControllerNext]_controllerVars

\* The thread goes on after a listener, runSync settles in the end, promise
\* callbacks run and a timer that is set fires.  The interval owes nothing:
\* intervalMs may be null.
ControllerFairSpec ==
  /\ ControllerSpec
  /\ WF_controllerVars(Execute) /\ WF_controllerVars(Finishes)
  /\ WF_controllerVars(Settle) /\ WF_controllerVars(DebounceFires)

-----------------------------------------------------------------------------
(***************************************************************************)
(* Properties.                                                             *)
(***************************************************************************)

\* The controller's bookkeeping: a follow-up is queued only behind a run, a
\* signal is there exactly while a run has one, and every call that waits is
\* attached to a run that exists.
Bookkeeping ==
  /\ phase \in {"none", "announcing", "executing", "finishing"}
  /\ status \in {"idle", "syncing", "resync-required", "offline", "error"}
  /\ queued \in BOOLEAN /\ authBlocked \in BOOLEAN /\ disposed \in BOOLEAN
  /\ started \in BOOLEAN /\ debounce \in BOOLEAN /\ unsynced \in BOOLEAN
  /\ signal \in {"none", "live", "aborted"}
  /\ call \in [Call -> {"unmade", "current", "queued", "settled"}]
  /\ begun \in SUBSET Call
  /\ triggers \in 0 .. MaxTriggers
  /\ queued => running /\ ~disposed
  /\ signal # "none" <=> phase \in {"executing", "finishing"}
  /\ disposed => ~started /\ ~debounce
  /\ \A c \in Call :
       /\ call[c] = "current" => running /\ ~disposed
       /\ call[c] = "queued" => queued

\* What syncNow() resolves with is the outcome of a runSync that began after
\* the call, so it covers every write made before it: a call during a run
\* waits for the follow-up, however the triggers coalesce.  Only disposal
\* resolves a call without one.
CallsCovered ==
  \A c \in Call : call[c] = "settled" /\ ~disposed => c \in begun

\* After dispose() no run is left alone: the one in flight has been told to
\* abort before the database closes under it.
DisposedAborts == disposed /\ phase = "executing" => signal = "aborted"

\* syncNow() always resolves: through any number of coalesced follow-ups,
\* errors and the disposal of the controller.
CallsResolve ==
  \A c \in Call : call[c] \in {"current", "queued"} ~> call[c] = "settled"

\* A notified write is picked up by a run that begins after it, with no
\* interval to help: also when its debounce fires during a run.  Disposal
\* and an auth error are the only excuses.
WritesPickedUp == unsynced ~> (~unsynced \/ disposed \/ authBlocked)

BegunByCallers ==
  authBlocked /\ phase # "announcing" /\ phase' = "announcing" =>
    started' # started \/ \E c \in Call : call'[c] = "current"

\* "Automatic syncing stops until syncNow() re-arms it": after an auth error
\* no run begins that no caller of syncNow() waits for.
AuthErrorStops == [][BegunByCallers]_controllerVars

ArmedAfter ==
  \A c \in Call :
    call[c] = "current" /\ call'[c] = "settled" /\ ~disposed' /\ status = "idle"
      => ~authBlocked'

\* "Manual trigger; also re-arms after an auth error": when the run a
\* syncNow() waited for has succeeded, automatic syncing is armed.
SyncNowRearms == [][ArmedAfter]_controllerVars

-----------------------------------------------------------------------------
(***************************************************************************)
(* Why they hold: the inductive invariants of the proofs.                  *)
(***************************************************************************)

\* A call attached to a run that executes was made before runSync began.
CoverageInv ==
  /\ CallsCovered
  /\ \A c \in Call :
       call[c] = "current" /\ phase \in {"executing", "finishing"} => c \in begun

\* Nothing begins once the controller is gone.
DisposalInv ==
  /\ DisposedAborts
  /\ disposed => phase # "announcing"

=============================================================================
