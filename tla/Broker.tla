------------------------------- MODULE Broker --------------------------------
(***************************************************************************)
(* The shared worker that every tab connects to, and the compute worker    *)
(* behind it: who holds the database open, which requests are on their     *)
(* way, what is kept back while there is no compute, and how a new one is  *)
(* found when its host dies.                                               *)
(*                                                                         *)
(* There is one database.  A connection is one port: a tab that closes its *)
(* driver and opens again is a new connection of the same page.  What a    *)
(* tab posts reaches the broker at once (a delay would only postpone the   *)
(* call), except the port of a worker it spawned, which travels; what the  *)
(* broker posts as a control waits in the tab's inbox.  Timers are actions *)
(* that may fire as soon as they are set, whether the compute they are for *)
(* is dead or only busy: the broker cannot tell.                           *)
(*                                                                         *)
(* The handlers call each other deeply, so they are operators from a state *)
(* of the broker and its surroundings to the next: see Now and Become.     *)
(***************************************************************************)
EXTENDS Integers, SequencesExt

CONSTANTS
  Tabs,          \* the connections
  Storage,       \* the storage kinds each tab's drivers ask for
  Candidates,    \* SPAWN_CANDIDATES
  MaxRequests,   \* bound on the requests of all tabs
  MaxFaults,     \* bound on the deaths of pages and of the broker's own worker,
                 \* its failures to load, and the deadlines the living miss
  EndlessStalls  \* computes miss their deadlines again and again: not counted

ASSUME BrokerConstants ==
  /\ Storage \in [Tabs -> SUBSET {"opfs", "memory"}]
  /\ Candidates \in Nat \ {0}
  /\ EndlessStalls \in BOOLEAN
  /\ {"broker", "none"} \cap Tabs = {}   \* the names of Host and NoWorker

VARIABLES
  broker,     \* the module-level variables of shared-worker.ts
  worker,     \* the adopted compute and its channel, or NoWorker
  inbox,      \* controls posted to each tab
  transit,    \* ports of spawned workers on their way to the broker: alive?
  conn,       \* each connection: away, live, closed by its driver, or gone
  driver,     \* each WebSqliteDriver
  log,        \* the requests, in the order they were posted
  status,     \* what became of each request
  ran,        \* the requests that some compute has executed
  stranded,   \* what the broker's own worker was sent before it failed to load
  faults,     \* the deaths, failures and missed deadlines there were
  late        \* was a page too late to handle a control?

tabVars == <<conn, driver, transit>>
vars == <<broker, worker, inbox, transit, conn, driver, log, status, ran,
          stranded, faults, late>>

(***************************************************************************)
(* The messages.  A join is an open of a database that is open already;    *)
(* pings and the broker's own arbitration never reach the compute and are  *)
(* modelled by their effects.                                              *)
(***************************************************************************)
Request ==
  [tab : Tabs, op : {"open", "join", "close", "work", "destroy"},
   kind : {"opfs", "memory", "none"}, undo : BOOLEAN]

Response == {"pending", "ok", "failed"}

ControlMessage == {"spawn", "discard", "destroyed"}

Host     == "broker"                 \* the host of the broker's own worker
NoWorker == [host |-> "none", alive |-> FALSE, watched |-> FALSE]
Nobody   == [asked |-> {}, timer |-> FALSE, on |-> FALSE]

\* The broker's own requests: re-opening the held database, releasePool.
Restore == 0
Release == -1

\* amiss: an open of its failed, and it lacks the database that is held, or has
\* one open that is not.
Worker(host, alive) ==
  [host |-> host, alive |-> alive, open |-> "none", queue |-> <<>>,
   watched |-> FALSE, answered |-> FALSE, amiss |-> FALSE]

Init ==
  /\ \E hosting \in BOOLEAN :   \* does this browser have Worker in a shared worker?
       broker = [ready |-> FALSE, restore |-> FALSE, routes |-> <<>>,
                 backlog |-> <<>>, holders |-> {}, kind |-> "none",
                 ports |-> <<>>, recruit |-> Nobody,
                 probing |-> FALSE, retiring |-> FALSE, canHost |-> hosting,
                 restoring |-> "opfs"]
  /\ worker = NoWorker
  /\ inbox = [t \in Tabs |-> <<>>]
  /\ transit = [t \in Tabs |-> <<>>]
  /\ conn = [t \in Tabs |-> "away"]
  /\ driver = [t \in Tabs |-> "closed"]
  /\ log = <<>> /\ status = <<>> /\ ran = {}
  /\ stranded = {} /\ faults = 0 /\ late = FALSE

(***************************************************************************)
(* The state a handler of the broker changes.                              *)
(***************************************************************************)
Now ==
  [broker |-> broker, worker |-> worker, inbox |-> inbox, status |-> status,
   conn |-> conn, driver |-> driver, log |-> log]

Become(s) ==
  /\ broker' = s.broker /\ worker' = s.worker /\ inbox' = s.inbox
  /\ status' = s.status /\ conn' = s.conn /\ driver' = s.driver /\ log' = s.log

Control(s, t, c) ==
  IF s.conn[t] = "live" THEN [s EXCEPT !.inbox[t] = Append(@, c)] ELSE s

\* What the promise of an answered request does to its driver.
Settled(op, ok, was) ==
  CASE op \in {"open", "join"} -> IF ok /\ was = "opening" THEN "open" ELSE
                                  IF was = "opening" THEN "closed" ELSE was
    [] op = "close"   -> IF was # "closing" THEN was ELSE IF ok THEN "closed" ELSE "open"
    [] op = "destroy" -> "closed"
    [] OTHER          -> was

\* Closing the driver closes its port, not its page.
Answer(s, id, ok) ==
  LET r == s.log[id]
      t == r.tab
      told == s.conn[t] = "live"
  IN  [s EXCEPT
        !.status[id] = IF @ # "pending" THEN "twice" ELSE IF ok THEN "ok" ELSE "failed",
        !.driver[t] = IF told THEN Settled(r.op, ok, @) ELSE @,
        !.conn[t] = IF told /\ ok /\ @ = "live" /\ r.op \in {"close", "destroy"}
                         /\ s.driver[t] # "destroyed"
                      THEN "closed" ELSE @,
        !.inbox[t] = IF told /\ ok /\ r.op \in {"close", "destroy"}
                         /\ s.driver[t] # "destroyed" THEN <<>> ELSE @]

\* onFailure of an open: the holder recorded before the worker agreed.
UndoHolder(s, id) ==
  LET rest == s.broker.holders \ {s.log[id].tab}
  IN  IF ~s.log[id].undo THEN s
      ELSE [s EXCEPT !.broker.holders = rest,
                     !.broker.kind = IF rest = {} THEN "none" ELSE @]

(***************************************************************************)
(* Requests on their way to the compute.                                   *)
(***************************************************************************)
\* Each request gets a route, goes to the compute and arms the watchdog.
SendAll(s, ids) ==
  [s EXCEPT !.broker.routes = @ \o ids, !.worker.queue = @ \o ids,
            !.worker.watched = @ \/ ids # <<>>]

Send(s, id) == SendAll(s, <<id>>)

\* Mistake: the backlog is sent and kept.
FlushKeeping(s) == SendAll(s, s.broker.backlog)

FlushBacklog(s) == SendAll([s EXCEPT !.broker.backlog = <<>>], s.broker.backlog)

StopRecruitment(s) == [s EXCEPT !.broker.recruit = Nobody]

\* Restored databases are opened before anything else runs; a port whose
\* worker died on the way is adopted like any other.
AdoptComputePort(s, host, alive) ==
  LET a == [StopRecruitment(s) EXCEPT !.worker = Worker(host, alive),
              !.broker.restore = FALSE, !.broker.retiring = FALSE,
              !.broker.probing = FALSE]
  IN  IF s.broker.restore
      THEN [a EXCEPT !.broker.restoring = IF s.broker.kind = "none" THEN "opfs"
                                          ELSE s.broker.kind,
                     !.broker.routes = Append(@, Restore),
                     !.worker.queue = Append(@, Restore)]
      ELSE FlushBacklog([a EXCEPT !.broker.ready = TRUE])

\* A driver some of whose requests failed: which one it waits for to become
\* something else, it says itself; so their order does not matter.
FailedDriver(s, t, ids) ==
  LET was == s.driver[t]
      ops == {s.log[id].op : id \in {i \in ids : s.log[i].tab = t}}
  IN  IF s.conn[t] # "live" THEN was
      ELSE IF "destroy" \in ops THEN "closed"
      ELSE IF was = "opening" /\ ops \cap {"open", "join"} # {} THEN "closed"
      ELSE IF was = "closing" /\ "close" \in ops THEN "open" ELSE was

\* All that waits is answered with an error, and the holders that were
\* recorded for it undone; the broker's own restore is answered by its fake port.
FailBacklog(s) ==
  LET failed == ToSet(s.broker.backlog) \ {Restore}
      rest == s.broker.holders \ {s.log[id].tab : id \in {i \in failed : s.log[i].undo}}
  IN  [s EXCEPT
        !.broker.backlog = <<>>,
        !.broker.ready = @ \/ Restore \in ToSet(s.broker.backlog),
        !.broker.holders = rest,
        !.broker.kind = IF rest = {} THEN "none" ELSE @,
        !.status = [id \in DOMAIN @ |-> IF id \notin failed THEN @[id]
                                        ELSE IF @[id] = "pending" THEN "failed" ELSE "twice"],
        !.driver = [t \in Tabs |-> FailedDriver(s, t, failed)]]

\* preferred is a sequence of at most one port.
RequestSpawn(s, preferred) ==
  LET ports == preferred \o Reverse(s.broker.ports)
      candidates == {i \in DOMAIN ports : ports[i] \notin s.broker.recruit.asked}
      asker == ports[Min(candidates)]
  IN  IF s.worker # NoWorker THEN StopRecruitment(s)
      ELSE IF s.broker.canHost THEN AdoptComputePort(s, Host, TRUE)
      ELSE IF candidates = {} THEN FailBacklog(StopRecruitment(s))
      ELSE [Control(s, asker, "spawn") EXCEPT
              !.broker.recruit = [asked |-> @.asked \cup {asker},
                                  timer |-> TRUE, on |-> TRUE]]

\* Mistake: after a reset, the next compute is left to the next request.
RestartNobody(s, preferred) == StopRecruitment(s)

RestartRecruitment(s, preferred) == RequestSpawn(StopRecruitment(s), preferred)

\* Mistake: stranded requests replay behind the backlog.
FinishEpochBehind(s) ==
  LET pending == RemoveFirst(s.broker.routes, Release)
      waiting == s.broker.backlog \o pending
      opens == \E i \in DOMAIN waiting :
                  waiting[i] = Restore \/ s.log[waiting[i]].op = "open"
      r == [StopRecruitment(s) EXCEPT
              !.worker = NoWorker, !.broker.ready = FALSE,
              !.broker.retiring = FALSE, !.broker.probing = FALSE,
              !.broker.routes = <<>>, !.broker.backlog = waiting,
              !.broker.restore = s.broker.holders # {} /\ ~opens]
  IN  IF waiting = <<>> THEN r ELSE RestartRecruitment(r, <<>>)

\* Stranded requests replay in front of the backlog; a held database that
\* one of them opens is not restored besides.
FinishEpochReset(s) ==
  LET pending == RemoveFirst(s.broker.routes, Release)
      waiting == pending \o s.broker.backlog
      opens == \E i \in DOMAIN waiting :
                  waiting[i] = Restore \/ s.log[waiting[i]].op = "open"
      r == [StopRecruitment(s) EXCEPT
              !.worker = NoWorker, !.broker.ready = FALSE,
              !.broker.retiring = FALSE, !.broker.probing = FALSE,
              !.broker.routes = <<>>, !.broker.backlog = waiting,
              !.broker.restore = s.broker.holders # {} /\ ~opens]
  IN  IF waiting = <<>> THEN r ELSE RestartRecruitment(r, <<>>)

\* The broker's own worker is asked to release the pool first.
ResetEpoch(s) ==
  IF s.worker = NoWorker \/ s.broker.retiring THEN s
  ELSE IF s.worker.host # Host THEN FinishEpochReset(s)
  ELSE [s EXCEPT !.broker.ready = FALSE, !.broker.retiring = TRUE,
                 !.broker.routes = Append(@, Release),
                 !.worker.queue = Append(@, Release)]

Forward(s, id) ==
  IF s.worker # NoWorker /\ s.broker.ready THEN Send(s, id)
  ELSE LET b == [s EXCEPT !.broker.backlog = Append(@, id)]
       IN  IF s.worker = NoWorker /\ ~s.broker.recruit.on
             THEN RequestSpawn(b, <<s.log[id].tab>>) ELSE b

\* A ping is on its way, and its deadline set; several are as good as one.
ProbeCompute(s) ==
  IF s.worker = NoWorker \/ s.broker.retiring THEN s
  ELSE [s EXCEPT !.broker.probing = TRUE]

NoRoutes(s) == s.broker.routes = <<>> /\ ~s.broker.probing

\* Nothing open, nothing pending: the broker's own worker gives its pool back.
ReleaseWhenIdle(s) ==
  IF /\ s.worker.host = Host /\ s.broker.holders = {}
     /\ NoRoutes(s) /\ s.broker.backlog = <<>>
    THEN ResetEpoch(s) ELSE s

RememberPort(s, t) ==
  LET ports == Append(RemoveFirst(s.broker.ports, t), t)
  IN  [s EXCEPT !.broker.ports =
         IF Len(ports) > Candidates THEN Tail(ports) ELSE ports]

(***************************************************************************)
(* The tabs' requests.                                                     *)
(***************************************************************************)
Id == Len(log) + 1

\* A request of tab t arrives; it is known by its place in the log.
Post(t, op, kind, undo) ==
  RememberPort([Now EXCEPT !.log = Append(@, [tab |-> t, op |-> op, kind |-> kind,
                                             undo |-> undo]),
                           !.status = Append(@, "pending")], t)

MayPost(t) == conn[t] = "live" /\ Len(log) < MaxRequests

Posted(s) ==
  /\ Become(s)
  /\ UNCHANGED <<ran, transit, stranded, faults, late>>

Connect(t) ==
  /\ conn[t] = "away"
  /\ LET c == [Now EXCEPT !.conn[t] = "live"]
         p == ProbeCompute(RememberPort(c, t))
     IN  Become(IF p.worker = NoWorker /\ p.broker.backlog # <<>>
                  THEN RequestSpawn(p, <<t>>) ELSE p)
  /\ UNCHANGED <<ran, transit, stranded, faults, late>>

\* The first open of the name really opens; later ones join it.
Open(t, kind) ==
  LET holders == broker.holders
      Opening(s) == [s EXCEPT !.driver[t] = "opening",
                              !.broker.holders = @ \cup {t}, !.broker.kind = kind]
  IN  /\ MayPost(t)
      /\ driver[t] \in {"closed", "destroyed"}
      /\ Posted(CASE holders # {} /\ broker.kind # kind ->
                       Answer([Post(t, "open", kind, FALSE) EXCEPT !.driver[t] = "opening"],
                              Id, FALSE)
                  [] holders # {} /\ broker.kind = kind ->
                       Forward(Opening(Post(t, "join", kind, t \notin holders)), Id)
                  [] OTHER -> Forward(Opening(Post(t, "open", kind, TRUE)), Id))

Close(t) ==
  LET rest == broker.holders \ {t}
      closing == [Post(t, "close", "none", FALSE) EXCEPT !.driver[t] = "closing",
                    !.broker.holders = rest,
                    !.broker.kind = IF rest = {} THEN "none" ELSE @]
  IN  /\ MayPost(t)
      /\ driver[t] = "open"
      /\ Posted(IF rest # {} THEN Answer(closing, Id, TRUE) ELSE Forward(closing, Id))

\* The other holders are told: their connections die with the file.
Destroy(t) ==
  LET d == [Post(t, "destroy", "none", FALSE) EXCEPT !.driver[t] = "destroying",
              !.broker.holders = {}, !.broker.kind = "none",
              !.inbox = [x \in Tabs |->
                 IF x \in broker.holders \ {t} /\ conn[x] = "live"
                   THEN Append(@[x], "destroyed") ELSE @[x]]]
  IN  /\ MayPost(t)
      /\ driver[t] = "open"
      /\ Posted(Forward(d, Id))

\* query, execute, executeBatch, setUserVersion
Work(t) ==
  /\ MayPost(t)
  /\ driver[t] = "open"
  /\ Posted(Forward(Post(t, "work", "none", FALSE), Id))

(***************************************************************************)
(* The tab as a host, and the hand-over of a worker's port.                *)
(***************************************************************************)
\* What a compute is sent and not heard of: of its queue, the first n have run.
First(n) == {worker.queue[i] : i \in 1..n} \cap DOMAIN log

Unheard == IF worker.alive THEN 0..Len(worker.queue) ELSE {0}

\* A worker stops; what it had open goes with it.
Stops ==
  /\ worker' = [worker EXCEPT !.alive = FALSE, !.queue = <<>>, !.open = "none"]
  /\ \E n \in Unheard : ran' = ran \cup First(n)

\* The worker a tab hosts is its latest; terminating it kills the port.
Dead(t) == [i \in DOMAIN transit[t] |-> FALSE]

Terminates(t) ==
  IF worker.host = t /\ worker.alive THEN Stops ELSE UNCHANGED <<worker, ran>>

HandleControl(t) ==
  LET control == Head(inbox[t])
  IN  /\ conn[t] = "live" /\ inbox[t] # <<>>
      /\ inbox' = [inbox EXCEPT ![t] = Tail(@)]
      /\ CASE control = "spawn" ->
                /\ Terminates(t)
                /\ transit' = [transit EXCEPT ![t] = Append(Dead(t), TRUE)]
                /\ UNCHANGED driver
           [] control = "discard" ->
                /\ Terminates(t)
                /\ transit' = [transit EXCEPT ![t] = Dead(t)]
                /\ UNCHANGED driver
           [] control = "destroyed" ->
                /\ driver' = [driver EXCEPT ![t] =
                                IF @ \in {"open", "closing"} THEN "destroyed" ELSE @]
                /\ UNCHANGED <<transit, worker, ran>>
      /\ UNCHANGED <<broker, conn, log, status, stranded, faults, late>>

\* Taking a late worker would strand the live one: it is discarded.
AdoptWorkerPort(t) ==
  /\ transit[t] # <<>>
  /\ transit' = [transit EXCEPT ![t] = Tail(@)]
  /\ Become(IF worker # NoWorker THEN Control(Now, t, "discard")
            ELSE AdoptComputePort(Now, t, Head(transit[t])))
  /\ UNCHANGED <<ran, stranded, faults, late>>

(***************************************************************************)
(* The compute: requests run in arrival order, each is answered.           *)
(***************************************************************************)
OpOf(id) == IF id = Restore THEN "open" ELSE IF id = Release THEN "release" ELSE log[id].op

\* A second open and a request for a database that is not open are errors.
Runs(w, id) ==
  CASE OpOf(id) = "open" -> w.open = "none"
    [] OpOf(id) \in {"join", "work", "close"} -> w.open # "none"
    [] OTHER -> TRUE

\* Mistake: what is restored is restored on disk.
KindOnDisk(id) == IF id = Restore THEN "opfs" ELSE log[id].kind

KindOf(id) == IF id = Restore THEN broker.restoring ELSE log[id].kind

\* What the request does when it does not fail.
Executed(w, id) ==
  LET opens == OpOf(id) = "open" /\ Runs(w, id)
      closes == OpOf(id) \in {"close", "destroy", "release"}
  IN  [w EXCEPT !.open = CASE opens -> KindOf(id) [] closes -> "none" [] OTHER -> @,
                !.amiss = @ /\ ~opens /\ ~closes]

\* The listener of the adopted port, on the answer to request id.  A restore
\* that failed is a restore that was answered.
HandleReply(s, id, ok) ==
  LET taken == [s EXCEPT !.broker.routes = RemoveFirst(@, id)]
  IN  ReleaseWhenIdle(
        CASE id = Restore -> FlushBacklog([taken EXCEPT !.broker.ready = TRUE])
          [] id = Release -> FinishEpochReset(taken)
          [] OTHER -> Answer(IF ok THEN taken ELSE UndoHolder(taken, id), id, ok))

Answering(w) == [w EXCEPT !.queue = Tail(@), !.answered = TRUE]

\* Until its answer arrives, a request might as well not have run: only for
\* a compute that is given up is there a difference (Unheard).  A compute
\* whose pool is released is terminated, and may have run more by then.
Execute ==
  LET id == Head(worker.queue)
      done == Answering(Executed(worker, id))
  IN  /\ worker.alive /\ worker.queue # <<>>
      /\ Become(HandleReply([Now EXCEPT !.worker = done], id, Runs(worker, id)))
      /\ \E n \in 1..Len(worker.queue) :
           (n > 1 => id = Release) /\ ran' = ran \cup First(n)
      /\ UNCHANGED <<transit, stranded, faults, late>>

\* No storage, another worker's pool, a file that is no database: an open
\* fails before the database is known to the worker, or behind.
OpenFails ==
  LET id == Head(worker.queue)
      failed(open) == [Answering(worker) EXCEPT
                         !.open = open, !.amiss = (id = Restore) <=> (open = "none")]
  IN  /\ worker.alive /\ worker.queue # <<>>
      /\ OpOf(id) = "open" /\ Runs(worker, id)
      /\ \E open \in {"none", KindOf(id)} :
           Become(HandleReply([Now EXCEPT !.worker = failed(open)], id, FALSE))
      /\ ran' = ran \cup First(1)
      /\ UNCHANGED <<transit, stranded, faults, late>>

\* A living compute answers a ping, sooner or later.
Pong ==
  /\ broker.probing /\ worker.alive
  /\ Become(ReleaseWhenIdle([Now EXCEPT !.broker.probing = FALSE,
                                        !.worker.answered = TRUE]))
  /\ UNCHANGED <<ran, transit, stranded, faults, late>>

(***************************************************************************)
(* Timers.                                                                 *)
(***************************************************************************)
Fault == faults < MaxFaults /\ faults' = faults + 1

\* A timer runs for a second and more: the ports that were posted arrive
\* first, and a living page that leaves a control unhandled is late.
Unhandled == \E t \in Tabs : conn[t] = "live" /\ inbox[t] # <<>>

Timeout(stalls, s) ==
  /\ \A t \in Tabs : transit[t] = <<>>
  /\ IF Unhandled \/ (stalls /\ ~EndlessStalls) THEN Fault ELSE UNCHANGED faults
  /\ late' = (late \/ Unhandled)
  /\ Become(s)
  /\ UNCHANGED <<transit, stranded>>

\* A living compute that answers too late is given up like a dead one.  Where
\* a tab hosts it, it runs on: what it will run of its queue, unheard, it might
\* as well have run now.
PingDeadline ==
  /\ broker.probing
  /\ \E n \in IF worker.host = Host THEN {0} ELSE Unheard : ran' = ran \cup First(n)
  /\ Timeout(worker.alive, ResetEpoch([Now EXCEPT !.broker.probing = FALSE]))

\* The timer that every send arms finds requests but no answers.  It runs out
\* for good when it finds no compute or no requests, so a compute that was
\* sent nothing but restores may be watched still, or not.
Watchdog ==
  /\ worker # NoWorker /\ ~broker.probing /\ ~broker.retiring
  /\ broker.routes # <<>>
  /\ Timeout(FALSE, ProbeCompute(Now))
  /\ UNCHANGED ran

\* The asked tab is gone, or too slow.
SpawnDeadline ==
  /\ broker.recruit.timer /\ worker = NoWorker
  /\ Timeout(FALSE, RequestSpawn(Now, <<>>))
  /\ UNCHANGED ran

\* The broker terminates the compute, wherever it is with its queue.
ReleaseDeadline ==
  /\ broker.retiring
  /\ \E n \in Unheard : ran' = ran \cup First(n)
  /\ Timeout(worker.alive, FinishEpochReset(Now))

(***************************************************************************)
(* Deaths.  A page takes the worker it hosts with it; what it posted may   *)
(* still arrive.  The last page takes the shared worker with it, and what  *)
(* comes after starts from Init: that is not a step of this broker.        *)
(***************************************************************************)
Living(t) == conn[t] \in {"live", "closed"}

PageDies(t) ==
  /\ Living(t) /\ \E other \in Tabs \ {t} : Living(other)
  /\ Fault
  /\ conn' = [conn EXCEPT ![t] = "gone"]
  /\ inbox' = [inbox EXCEPT ![t] = <<>>]
  /\ Terminates(t)
  /\ transit' = [transit EXCEPT ![t] = Dead(t)]
  /\ UNCHANGED <<broker, driver, log, status, stranded, late>>

\* The broker's own worker stops without a sign.
HostedDies ==
  /\ worker.host = Host /\ worker.alive
  /\ Fault
  /\ Stops
  /\ UNCHANGED <<broker, inbox, tabVars, log, status, stranded, late>>

\* Its script does not load, or throws: from now on the tabs host.
HostedFails ==
  /\ worker.host = Host /\ ~worker.answered
  /\ Fault
  /\ Become(RestartRecruitment([Now EXCEPT !.worker = NoWorker,
              !.broker.canHost = FALSE, !.broker.retiring = FALSE,
              !.broker.probing = FALSE], <<>>))
  /\ stranded' = ToSet(broker.routes)
  /\ UNCHANGED <<ran, transit, late>>

Next ==
  \/ \E t \in Tabs :
       \/ Connect(t) \/ Close(t) \/ Destroy(t) \/ Work(t)
       \/ \E kind \in Storage[t] : Open(t, kind)
       \/ HandleControl(t) \/ AdoptWorkerPort(t) \/ PageDies(t)
  \/ Execute \/ OpenFails \/ Pong
  \/ PingDeadline \/ Watchdog \/ SpawnDeadline \/ ReleaseDeadline
  \/ HostedDies \/ HostedFails

Spec == Init /\ [][Next]_vars

\* Timers fire, posted messages arrive, a living page runs its handlers, a
\* living worker its requests.  Connecting, asking and dying is nobody's duty.
Progress ==
  \/ Execute \/ OpenFails \/ SpawnDeadline
  \/ ~worker.alive /\ (PingDeadline \/ ReleaseDeadline \/ (worker.watched /\ Watchdog))
  \/ \E t \in Tabs : HandleControl(t) \/ AdoptWorkerPort(t)

WeaklyFair == Spec /\ WF_vars(Progress) /\ WF_vars(Execute \/ OpenFails)

\* The same with ENABLED Progress spelled out: TLC is a hundred times faster.
Busy ==
  \/ worker.alive /\ worker.queue # <<>>
  \/ worker # NoWorker /\ ~worker.alive /\ (broker.probing \/ broker.retiring)
  \/ worker.watched /\ ~worker.alive /\ broker.routes # <<>>
  \/ worker = NoWorker /\ broker.recruit.timer
  \/ Unhandled \/ \E t \in Tabs : transit[t] # <<>>

FairSpec == Spec /\ ([]<>~Busy \/ []<><<Progress>>_vars)

(***************************************************************************)
(* Properties.                                                             *)
(***************************************************************************)
Ids == DOMAIN log
Drivers == {"closed", "opening", "open", "closing", "destroying", "destroyed"}

\* The types, with what the state of the broker implies: requests are on their
\* way only while there is a compute or a failed one left them, recruitment is
\* on only without one, and only the broker's own worker is retired.
TypeOK ==
  /\ broker.holders \subseteq Tabs /\ IsInjective(broker.ports)
  /\ Len(broker.ports) <= Candidates
  /\ (broker.kind = "none") <=> (broker.holders = {})
  /\ worker = NoWorker => broker.routes = <<>> \/ stranded # {}
  /\ broker.recruit.on => worker = NoWorker
  /\ broker.retiring => worker.host = Host
  /\ conn \in [Tabs -> {"away", "live", "closed", "gone"}]
  /\ driver \in [Tabs -> Drivers]
  /\ Len(status) = Len(log) /\ ran \subseteq Ids
  /\ \A id \in Ids : log[id] \in Request
  /\ \A t \in Tabs : ToSet(inbox[t]) \subseteq ControlMessage

\* No request is dropped and none is answered twice, through death, replay and
\* fallback: an unanswered request is in exactly one of routes and backlog,
\* once, and an answered one in neither (routes, backlog of shared-worker.ts).
AnsweredOnce ==
  /\ TypeOK
  /\ \A id \in Ids : status[id] \in Response
  /\ IsInjective(broker.routes \o broker.backlog)
  /\ \A id \in Ids : Contains(broker.routes \o broker.backlog, id)
                      <=> status[id] = "pending"

\* What a compute will have open once everything on its way has run: the one
\* that lives, or the next one, which is first given what was held.
OpenInTheEnd ==
  LET waiting == RemoveFirst(broker.routes, Release) \o broker.backlog
      opens == \E i \in DOMAIN waiting : OpOf(waiting[i]) = "open"
      Fresh(held) == [Worker(Host, TRUE) EXCEPT !.open = IF held THEN broker.kind ELSE @]
      End(w, queue) == FoldLeft(Executed, w, queue).open
  IN  CASE worker = NoWorker -> End(Fresh(broker.restore), broker.backlog)
        [] worker # NoWorker /\ (~worker.alive \/ broker.retiring) ->
             End(Fresh(broker.holders # {} /\ ~opens), waiting)
        [] OTHER -> End(worker, worker.queue \o broker.backlog)

\* What a living driver holds is open, or will be when the requests before it
\* have run, and in the storage kind it was opened with: whatever died, the
\* restore of finishEpochReset neither forgets the database nor changes its
\* kind.  Given up where a tab is slow, the broker's own worker did not load, or
\* an open failed half way: all lose a restore or a request (see the README).
HeldStaysOpen ==
  \/ stranded # {} \/ late
  \/ worker # NoWorker /\ worker.amiss
  \/ (\E t \in broker.holders : conn[t] = "live" /\ driver[t] = "open")
       => OpenInTheEnd = broker.kind

\* The broker, its computes, their deaths and replays implement the service
\* the tabs see: requests run in the order of their tab and are answered
\* once, a success only after they ran.
Service == INSTANCE RequestService WITH
  request <- [id \in Ids |-> [tab |-> log[id].tab, local |-> log[id].op = "close"]],
  status <- [id \in Ids |-> IF id \in stranded THEN "failed" ELSE status[id]]

ServesInOrder == Service!Spec

Waiting(id) == id \in Ids /\ status[id] = "pending" /\ conn[log[id].tab] = "live"

\* A compute died while it restored and nothing watches it.
RestoreLost ==
  /\ worker # NoWorker /\ ~worker.alive /\ ~worker.watched
  /\ broker.routes # <<>> /\ ~broker.probing

\* A request of a living tab is answered in the end, with no new connection
\* to help: by the compute, or as failed when no page is left to host one.
\* The two hangs this code has are excepted, and described in the README.
NothingHangs ==
  \A id \in 1..MaxRequests :
    Waiting(id) ~> ~Waiting(id) \/ RestoreLost \/ stranded # {}

\* What the comment at the error listener of spawnComputeHere says: a hosted
\* worker that does not load makes the broker "fall back to tab-hosted compute
\* instead of hanging every request".
FallsBack == \A id \in 1..MaxRequests : Waiting(id) ~> ~Waiting(id)
=============================================================================
