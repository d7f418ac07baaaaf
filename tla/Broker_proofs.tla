---------------------------- MODULE Broker_proofs ----------------------------
(***************************************************************************)
(* Every request is answered once, and what the tabs see is the service of *)
(* RequestService: for any number of tabs, requests, deaths, slow tabs and *)
(* any sizes of the lists, hosting by the broker or by the tabs.           *)
(*                                                                         *)
(* The handlers are operators from state to state, so the argument is made *)
(* about states.  A state is Sound when its requests are accounted for,    *)
(* in order, once; when what is set fits the compute there is; and when    *)
(* the queue of a living compute trails the routes, but for those lost to  *)
(* a worker that never loaded.  The request a handler has in its hand is   *)
(* neither routed nor waiting.  Each handler takes a good state to a good  *)
(* one and fails requests at most; each action is one or two of them.      *)
(***************************************************************************)
EXTENDS Broker, TLAPS, WellFoundedInduction

\* A queue of requests: each once, those of the tabs in the order of the log.
\* The broker's own, Restore and Release, are not positive and go anywhere.
Fine(x) ==
    /\ x \in Seq(Int) /\ IsInjective(x)
    /\ \A i, j \in DOMAIN x : i < j /\ x[j] > 0 => x[i] < x[j]

\* Two that are one in order: the routes, then the backlog.
Chain(x, y) ==
    /\ Fine(x) /\ Fine(y)
    /\ \A i \in DOMAIN x, j \in DOMAIN y : x[i] # y[j] /\ (y[j] > 0 => x[i] < y[j])

Kinds == {"opfs", "memory", "none"}

BrokerState ==
    [ready : BOOLEAN, restore : BOOLEAN, routes : Seq(Int), backlog : Seq(Int),
     holders : SUBSET Tabs, kind : Kinds, ports : Seq(Tabs),
     recruit : [asked : SUBSET Tabs, timer : BOOLEAN, on : BOOLEAN],
     probing : BOOLEAN, retiring : BOOLEAN, canHost : BOOLEAN, restoring : Kinds]

ComputeState ==
    [host : Tabs \cup {Host}, alive : BOOLEAN, open : Kinds, queue : Seq(Int),
     watched : BOOLEAN, answered : BOOLEAN, amiss : BOOLEAN]

\* What a handler is given and returns.
Handled ==
    [broker : BrokerState, worker : ComputeState \cup {NoWorker},
     inbox : [Tabs -> Seq(ControlMessage)], status : Seq(Response),
     conn : [Tabs -> {"away", "live", "closed", "gone"}],
     driver : [Tabs -> Drivers], log : Seq(Request)]

Shape(s) ==
    /\ s \in Handled
    /\ Len(s.status) = Len(s.log)
    /\ IsInjective(s.broker.ports) /\ Len(s.broker.ports) <= Candidates
    /\ (s.broker.kind = "none") <=> (s.broker.holders = {})

Routed(s, id) == Contains(s.broker.routes, id)
Waits(s, id) == Contains(s.broker.backlog, id)
Numbers(s) == 1..Len(s.log)

\* What is pending is routed, or waits, or is in the hand of the handler.
Accounted(s, hand) ==
    /\ Chain(s.broker.routes, s.broker.backlog)
    /\ hand \subseteq Numbers(s)
    /\ \A id : Routed(s, id) \/ Waits(s, id) => id \in (Numbers(s) \ hand) \cup {Restore, Release}
    /\ ~Waits(s, Release)
    /\ \A id \in Numbers(s) :
          s.status[id] = "pending" <=> Routed(s, id) \/ Waits(s, id) \/ id \in hand

\* What the flags say of the compute: a restore is owed only while there is
\* none, and only the broker's own is asked to release its pool.  Requests were
\* lost, to a worker that never loaded, only if the broker hosts no more.
Gates(s, lost) ==
    /\ s.broker.restore =>
          ~s.broker.ready /\ s.worker = NoWorker /\ ~Routed(s, Restore) /\ ~Waits(s, Restore)
    /\ Routed(s, Release) => s.broker.retiring \/ ~s.broker.canHost
    /\ s.worker.host = Host => s.broker.canHost
    /\ s.broker.recruit.on => s.worker = NoWorker
    /\ s.broker.retiring => s.worker.host = Host
    /\ lost # {} => ~s.broker.canHost

\* The queue is what the routes end in; the routes before it were lost.
Trails(routes, queue, lost) ==
    LET k == Len(routes) - Len(queue)
    IN  /\ k \in Nat
        /\ \A i \in 1..k : routes[i] \in lost
        /\ \A i \in DOMAIN queue : queue[i] = routes[k + i]

Linked(s, lost) ==
    /\ s.worker = NoWorker => \A i \in DOMAIN s.broker.routes : s.broker.routes[i] \in lost
    /\ s.worker # NoWorker /\ s.worker.alive => Trails(s.broker.routes, s.worker.queue, lost)

Sound(s, lost, hand) == Shape(s) /\ Accounted(s, hand) /\ Gates(s, lost) /\ Linked(s, lost)

\* Nothing waits for a compute that is ready.
Flushed(s) == s.broker.ready /\ s.worker # NoWorker => s.broker.backlog = <<>>

\* Between two handlers.
Good(s, lost) == Sound(s, lost, {}) /\ Flushed(s)

RanTyped == ran \subseteq Ids
OkRan == \A id \in Ids : status[id] = "ok" => id \in ran \/ log[id].op = "close"
PortsTyped == transit \in [Tabs -> Seq(BOOLEAN)]

IInv == Good(Now, stranded) /\ RanTyped /\ OkRan /\ PortsTyped

\* From s to q nothing was answered but what failed.
Fails(s, q) ==
    /\ q.log = s.log
    /\ \A id \in Numbers(s) :
          \/ q.status[id] = s.status[id]
          \/ s.status[id] = "pending" /\ q.status[id] = "failed"

SameRouting(s, q) ==
    /\ q.worker = s.worker /\ q.status = s.status /\ q.log = s.log
    /\ q.broker.routes = s.broker.routes /\ q.broker.backlog = s.broker.backlog
    /\ q.broker.ready = s.broker.ready /\ q.broker.restore = s.broker.restore
    /\ q.broker.retiring = s.broker.retiring /\ q.broker.canHost = s.broker.canHost

Outcome(ok) == IF ok THEN "ok" ELSE "failed"

Answered(s, q, id, v) == q.log = s.log /\ q.status = [s.status EXCEPT ![id] = v]


(*****************************************************************************)
(* Sequences of requests.                                                    *)
(*****************************************************************************)
\* Appending is joining one.
LEMMA Appended ==
  ASSUME NEW S, NEW x \in Seq(S), NEW e \in S
  PROVE  /\ Append(x, e) = x \o <<e>> /\ <<e>> \in Seq(S)
  OBVIOUS

\* A joined sequence, element by element.
LEMMA Joined ==
  ASSUME NEW S, NEW x \in Seq(S), NEW y \in Seq(S)
  PROVE  /\ x \o y \in Seq(S) /\ Len(x \o y) = Len(x) + Len(y)
         /\ DOMAIN (x \o y) = 1..(Len(x) + Len(y))
         /\ \A i \in 1..Len(x) : (x \o y)[i] = x[i]
         /\ \A i \in 1..Len(y) : (x \o y)[Len(x) + i] = y[i]
         /\ \A i \in (Len(x) + 1)..(Len(x) + Len(y)) : (x \o y)[i] = y[i - Len(x)]
  OBVIOUS

\* What a joined sequence contains.
LEMMA JoinedMembers ==
  ASSUME NEW S, NEW x \in Seq(S), NEW y \in Seq(S), NEW e
  PROVE  Contains(x \o y, e) <=> Contains(x, e) \/ Contains(y, e)
<1> DEFINE z == x \o y
<1>1. /\ Len(z) = Len(x) + Len(y)
      /\ \A i \in 1..Len(x) : z[i] = x[i]
      /\ \A i \in 1..Len(y) : z[Len(x) + i] = y[i]
      /\ \A i \in (Len(x) + 1)..(Len(x) + Len(y)) : z[i] = y[i - Len(x)]
      /\ Len(x) \in Nat /\ Len(y) \in Nat
  BY Joined
<1> HIDE DEF z
<1>2. ASSUME NEW i \in 1..Len(z), z[i] = e
      PROVE  Contains(x, e) \/ Contains(y, e)
  <2>1. CASE i <= Len(x)
    BY <2>1, <1>1, <1>2 DEF Contains
  <2>2. CASE i > Len(x)
    <3>1. i - Len(x) \in 1..Len(y) /\ z[i] = y[i - Len(x)]
      BY <2>2, <1>1, <1>2
    <3> QED  BY <3>1, <1>2 DEF Contains
  <2> QED  BY <2>1, <2>2, <1>1
<1>3. ASSUME NEW i \in 1..Len(x), x[i] = e  PROVE  Contains(z, e)
  BY <1>1, <1>3 DEF Contains
<1>4. ASSUME NEW i \in 1..Len(y), y[i] = e  PROVE  Contains(z, e)
  <2>1. Len(x) + i \in 1..Len(z) /\ z[Len(x) + i] = e
    BY <1>1, <1>4
  <2> QED  BY <2>1 DEF Contains
<1> QED
  BY <1>2, <1>3, <1>4 DEF z, Contains

\* A chain is one sequence in order.
LEMMA ChainJoined ==
  ASSUME NEW x, NEW y, Chain(x, y)
  PROVE  Fine(x \o y)
<1> DEFINE z == x \o y
<1>1. x \in Seq(Int) /\ y \in Seq(Int)
  BY DEF Chain, Fine
<1>2. /\ z \in Seq(Int) /\ DOMAIN z = 1..(Len(x) + Len(y))
      /\ \A i \in 1..Len(x) : z[i] = x[i]
      /\ \A i \in (Len(x) + 1)..(Len(x) + Len(y)) : z[i] = y[i - Len(x)]
      /\ Len(x) \in Nat /\ Len(y) \in Nat /\ DOMAIN x = 1..Len(x) /\ DOMAIN y = 1..Len(y)
  BY <1>1, Joined
<1> HIDE DEF z
<1>3. ASSUME NEW i \in DOMAIN z, NEW j \in DOMAIN z, i < j
      PROVE  z[i] # z[j] /\ (z[j] > 0 => z[i] < z[j])
  <2>1. i \in Int /\ j \in Int /\ 1 <= i /\ i < j /\ j <= Len(x) + Len(y)
    BY <1>2, <1>3
  <2>2. CASE j <= Len(x)
    <3>1. i \in DOMAIN x /\ j \in DOMAIN x
      BY <2>2, <2>1, <1>2
    <3>2. z[i] = x[i] /\ z[j] = x[j]
      BY <3>1, <1>2
    <3> QED  BY <3>1, <3>2, <2>1 DEF Chain, Fine, IsInjective
  <2>3. CASE i <= Len(x) /\ j > Len(x)
    <3>1. j - Len(x) \in DOMAIN y /\ i \in DOMAIN x
      BY <2>3, <2>1, <1>2
    <3>2. j \in (Len(x) + 1)..(Len(x) + Len(y)) /\ i \in 1..Len(x)
      BY <2>3, <2>1, <1>2
    <3>3. z[j] = y[j - Len(x)] /\ z[i] = x[i]
      BY <3>2, <1>2
    <3> QED  BY <3>1, <3>3 DEF Chain
  <2>4. CASE i > Len(x)
    <3>1. /\ j - Len(x) \in DOMAIN y /\ i - Len(x) \in DOMAIN y
          /\ i - Len(x) < j - Len(x)
      BY <2>4, <2>1, <1>2, SMTT(30)
    <3>2. /\ j \in (Len(x) + 1)..(Len(x) + Len(y))
          /\ i \in (Len(x) + 1)..(Len(x) + Len(y))
      BY <2>4, <2>1, <1>2
    <3>3. z[j] = y[j - Len(x)] /\ z[i] = y[i - Len(x)]
      BY <3>2, <1>2
    <3> DEFINE a == i - Len(x)
               b == j - Len(x)
    <3> HIDE DEF a, b
    <3>4. a \in DOMAIN y /\ b \in DOMAIN y /\ a < b /\ a # b /\ z[i] = y[a] /\ z[j] = y[b]
      BY <3>1, <3>3, <1>2 DEF a, b
    <3> QED  BY <3>4 DEF Chain, Fine, IsInjective
  <2> QED  BY <2>2, <2>3, <2>4, <1>2, <1>3
<1>4. \A i, j \in DOMAIN z : i = j \/ i < j \/ j < i
  BY <1>2
<1> QED
  BY <1>2, <1>3, <1>4 DEF Fine, IsInjective, z

\* An injective sequence without its element e.
LEMMA FirstRemoved ==
  ASSUME NEW S, NEW x \in Seq(S), IsInjective(x), NEW e
  PROVE  /\ RemoveFirst(x, e) \in Seq(S)
         /\ (\A i \in DOMAIN x : x[i] # e) => RemoveFirst(x, e) = x
         /\ \A k \in DOMAIN x : x[k] = e =>
               /\ Len(RemoveFirst(x, e)) = Len(x) - 1
               /\ \A i \in 1..(Len(x) - 1) :
                     RemoveFirst(x, e)[i] = IF i < k THEN x[i] ELSE x[i + 1]
<1> DEFINE r == RemoveFirst(x, e)
<1>1. CASE \A i \in DOMAIN x : x[i] # e
  <2>1. r = x
    BY <1>1 DEF RemoveFirst
  <2> QED  BY <2>1, <1>1
<1>2. ASSUME NEW k \in DOMAIN x, x[k] = e
      PROVE  /\ r \in Seq(S) /\ Len(r) = Len(x) - 1
             /\ \A i \in 1..(Len(x) - 1) : r[i] = IF i < k THEN x[i] ELSE x[i + 1]
  <2> DEFINE I == {i \in 1..Len(x) : x[i] = e}
  <2>1. I = {k} /\ k \in 1..Len(x)
    BY <1>2 DEF IsInjective
  <2>2. Min(I) = k
    <3>1. k \in I /\ \A y \in I : k <= y
      BY <2>1
    <3>2. \A m : m \in I /\ (\A y \in I : m <= y) => m = k
      BY <2>1
    <3> QED  BY <3>1, <3>2, Zenon DEF Min
  <2> DEFINE a == SubSeq(x, 1, k - 1)
             b == SubSeq(x, k + 1, Len(x))
  <2>3. r = a \o b
    <3>1. SelectInSeq(x, LAMBDA v : v = e) = k
      BY <2>1, <2>2, Zenon DEF SelectInSeq
    <3> QED  BY <3>1, <2>1 DEF RemoveFirst, RemoveAt
  <2>4. /\ a \in Seq(S) /\ b \in Seq(S) /\ Len(a) = k - 1 /\ Len(b) = Len(x) - k
        /\ \A i \in 1..(k - 1) : a[i] = x[i]
        /\ \A i \in 1..(Len(x) - k) : b[i] = x[i + k]
    BY <2>1
  <2> HIDE DEF a, b, I, r
  <2>5. /\ r \in Seq(S) /\ Len(r) = Len(x) - 1
        /\ \A i \in 1..(k - 1) : r[i] = a[i]
        /\ \A i \in k..(Len(x) - 1) : r[i] = b[i - (k - 1)]
    <3>1. /\ r \in Seq(S) /\ Len(r) = Len(a) + Len(b)
          /\ \A i \in 1..Len(a) : r[i] = a[i]
          /\ \A i \in (Len(a) + 1)..(Len(a) + Len(b)) : r[i] = b[i - Len(a)]
      <4>1. /\ a \o b \in Seq(S) /\ Len(a \o b) = Len(a) + Len(b)
            /\ \A i \in 1..Len(a) : (a \o b)[i] = a[i]
            /\ \A i \in (Len(a) + 1)..(Len(a) + Len(b)) : (a \o b)[i] = b[i - Len(a)]
        <5>1. a \in Seq(S) /\ b \in Seq(S)
          BY <2>4
        <5> QED  BY <5>1, Joined
      <4> QED  BY <4>1, <2>3, Zenon
    <3>2. k \in Int /\ Len(x) \in Nat
      BY <2>1
    <3>3. Len(a) + Len(b) = Len(x) - 1 /\ Len(a) + 1 = k
      BY <2>4, <3>2
    <3> QED  BY <3>1, <3>3, <2>4
  <2>6. \A i \in k..(Len(x) - 1) : b[i - (k - 1)] = x[i + 1]
    <3> TAKE i \in k..(Len(x) - 1)
    <3>1. i - (k - 1) \in 1..(Len(x) - k) /\ (i - (k - 1)) + k = i + 1
      BY <2>1
    <3> QED  BY <3>1, <2>4
  <2>7. ASSUME NEW i \in 1..(Len(x) - 1)
        PROVE  r[i] = IF i < k THEN x[i] ELSE x[i + 1]
    <3>1. CASE i < k
      <4>1. i \in 1..(k - 1)
        BY <3>1, <2>1
      <4> QED  BY <4>1, <3>1, <2>4, <2>5, Zenon
    <3>2. CASE ~(i < k)
      <4>1. i \in k..(Len(x) - 1)
        BY <3>2, <2>1
      <4> QED  BY <4>1, <3>2, <2>5, <2>6, Zenon
    <3> QED  BY <3>1, <3>2
  <2> QED  BY <2>5, <2>7, Zenon
<1> QED
  BY <1>1, <1>2

(*****************************************************************************)
(* The handlers: from one state to the next.                                 *)
(*****************************************************************************)
\* There is a compute, or there is none: its host says which.
LEMMA Computes ==
  ASSUME NEW w \in ComputeState \cup {NoWorker}
  PROVE  /\ w # NoWorker <=> w \in ComputeState
         /\ w = NoWorker <=> w.host = "none"
<1>1. NoWorker.host = "none"
  BY DEF NoWorker
<1>2. ASSUME w \in ComputeState  PROVE  w.host # "none"
  <2>1. w.host \in Tabs \cup {"broker"}
    BY <1>2 DEF ComputeState, Host
  <2> QED  BY <2>1, BrokerConstants
<1> QED  BY <1>1, <1>2

\* Whatever routing does not depend on may change.
LEMMA Framed ==
  ASSUME NEW s, NEW q, NEW lost, NEW hand, Sound(s, lost, hand), Shape(q),
         SameRouting(s, q), q.broker.recruit.on => s.worker = NoWorker
  PROVE  Sound(q, lost, hand) /\ (Flushed(s) => Flushed(q)) /\ Fails(s, q)
<1>1. Accounted(q, hand)
  BY DEF Sound, Accounted, SameRouting, Routed, Waits, Numbers
<1>2. Gates(q, lost)
  BY DEF Sound, Gates, SameRouting, Routed, Waits
<1>3. Linked(q, lost)
  BY DEF Sound, Linked, SameRouting
<1>4. Flushed(s) => Flushed(q)
  BY DEF Flushed, SameRouting
<1>5. Fails(s, q)
  BY DEF Fails, SameRouting
<1> QED
  BY <1>1, <1>2, <1>3, <1>4, <1>5 DEF Sound

\* One handler behind another fails what either of them fails.
LEMMA FailsOnwards ==
  ASSUME NEW s, NEW q, NEW r, Fails(s, q), Fails(q, r)
  PROVE  Fails(s, r)
  BY DEF Fails, Numbers

\* Sending requests changes their routes and the compute's queue, and no more.
LEMMA SendAllDoes ==
  ASSUME NEW s \in Handled, NEW ids \in Seq(Int), s.worker \in ComputeState
  PROVE  LET q == SendAll(s, ids)
         IN  /\ q \in Handled /\ q.worker \in ComputeState
             /\ q.worker.host = s.worker.host /\ q.worker.alive = s.worker.alive
             /\ q.worker.queue = s.worker.queue \o ids
             /\ q.broker.routes = s.broker.routes \o ids
             /\ q.broker.backlog = s.broker.backlog
             /\ q.broker.ready = s.broker.ready /\ q.broker.restore = s.broker.restore
             /\ q.broker.retiring = s.broker.retiring /\ q.broker.canHost = s.broker.canHost
             /\ q.broker.holders = s.broker.holders /\ q.broker.kind = s.broker.kind
             /\ q.broker.ports = s.broker.ports /\ q.broker.recruit = s.broker.recruit
             /\ q.status = s.status /\ q.log = s.log
<1> DEFINE q == SendAll(s, ids)
<1>1. s.broker.routes \in Seq(Int) /\ s.worker.queue \in Seq(Int)
  BY DEF Handled, BrokerState, ComputeState
<1>2. PICK x \in Seq(Int) : x = s.broker.routes \o ids
  BY <1>1, Joined, Zenon
<1>3. PICK y \in Seq(Int) : y = s.worker.queue \o ids
  BY <1>1, Joined, Zenon
<1>4. PICK z \in BOOLEAN : z = (s.worker.watched \/ ids # <<>>)
  OBVIOUS
<1>5. q = [s EXCEPT !.broker.routes = x, !.worker.queue = y, !.worker.watched = z]
  BY <1>2, <1>3, <1>4, Zenon DEF SendAll
<1> HIDE DEF q
<1>6. q \in Handled /\ q.worker \in ComputeState
  BY <1>5 DEF Handled, BrokerState, ComputeState
<1>7. /\ q.worker.host = s.worker.host /\ q.worker.alive = s.worker.alive
      /\ q.worker.queue = y /\ q.status = s.status /\ q.log = s.log
  BY <1>5 DEF Handled, BrokerState, ComputeState
<1>8. /\ q.broker.routes = x
      /\ q.broker.backlog = s.broker.backlog
      /\ q.broker.ready = s.broker.ready /\ q.broker.restore = s.broker.restore
      /\ q.broker.retiring = s.broker.retiring /\ q.broker.canHost = s.broker.canHost
      /\ q.broker.holders = s.broker.holders /\ q.broker.kind = s.broker.kind
      /\ q.broker.ports = s.broker.ports /\ q.broker.recruit = s.broker.recruit
  BY <1>5 DEF Handled, BrokerState, ComputeState
<1> QED
  BY <1>2, <1>3, <1>6, <1>7, <1>8 DEF q

\* What is sent joins the queue and the routes alike.
LEMMA TrailsJoined ==
  ASSUME NEW old \in Seq(Int), NEW run \in Seq(Int), NEW new \in Seq(Int), NEW lost,
         Trails(old, run, lost)
  PROVE  Trails(old \o new, run \o new, lost)
<1> DEFINE k == Len(old) - Len(run)
           routes == old \o new
           queue == run \o new
<1>1. /\ k \in Nat
      /\ \A i \in 1..k : old[i] \in lost
      /\ \A i \in DOMAIN run : run[i] = old[k + i]
  BY DEF Trails
<1>2. /\ Len(routes) = Len(old) + Len(new) /\ Len(queue) = Len(run) + Len(new)
      /\ \A i \in 1..Len(old) : routes[i] = old[i]
      /\ \A i \in 1..Len(new) : routes[Len(old) + i] = new[i]
      /\ \A i \in 1..Len(run) : queue[i] = run[i]
      /\ \A i \in (Len(run) + 1)..(Len(run) + Len(new)) : queue[i] = new[i - Len(run)]
      /\ DOMAIN queue = 1..(Len(run) + Len(new))
      /\ Len(old) \in Nat /\ Len(run) \in Nat /\ Len(new) \in Nat
      /\ DOMAIN run = 1..Len(run)
  <2>1. /\ Len(routes) = Len(old) + Len(new)
        /\ \A i \in 1..Len(old) : routes[i] = old[i]
        /\ \A i \in 1..Len(new) : routes[Len(old) + i] = new[i]
    BY Joined
  <2>2. /\ Len(queue) = Len(run) + Len(new)
        /\ \A i \in 1..Len(run) : queue[i] = run[i]
        /\ \A i \in (Len(run) + 1)..(Len(run) + Len(new)) : queue[i] = new[i - Len(run)]
        /\ DOMAIN queue = 1..(Len(run) + Len(new))
    BY Joined
  <2> QED  BY <2>1, <2>2
<1>3. k + Len(run) = Len(old)
  BY <1>2
<1>4. (Len(old) + Len(new)) - (Len(run) + Len(new)) = k
  BY <1>2
<1> HIDE DEF routes, queue, k
<1>5. Len(routes) - Len(queue) = k
  BY <1>2, <1>4, Zenon
<1>6. \A i \in 1..k : routes[i] \in lost
  <2>1. \A i \in 1..k : i \in 1..Len(old)
    BY <1>1, <1>2, <1>3
  <2> QED  BY <2>1, <1>1, <1>2
<1>7. \A i \in DOMAIN queue : queue[i] = routes[k + i]
  <2> TAKE i \in DOMAIN queue
  <2>1. CASE i <= Len(run)
    <3>1. i \in 1..Len(run) /\ k + i \in 1..Len(old)
      <4>1. PICK m \in Nat : m = Len(run)
        BY <1>2
      <4>2. i \in Nat /\ 1 <= i /\ i <= m
        BY <2>1, <1>2, <4>1
      <4>3. k \in Nat /\ k + m = Len(old)
        BY <1>1, <1>3, <4>1, Zenon
      <4>4. i \in 1..m /\ k + i \in 1..(k + m)
        BY <4>2, <4>3
      <4> QED  BY <4>1, <4>3, <4>4, Zenon
    <3>2. queue[i] = run[i] /\ run[i] = old[k + i] /\ old[k + i] = routes[k + i]
      BY <3>1, <1>1, <1>2
    <3> QED  BY <3>2, Zenon
  <2>2. CASE i > Len(run)
    <3>1. /\ i \in (Len(run) + 1)..(Len(run) + Len(new)) /\ i - Len(run) \in 1..Len(new)
          /\ k + i = Len(old) + (i - Len(run))
      <4>1. i \in Nat /\ Len(run) < i /\ i <= Len(run) + Len(new)
        BY <2>2, <1>2
      <4>2. PICK m \in Nat : m = Len(run)
        BY <1>2
      <4>3. PICK n \in Nat : n = Len(new)
        BY <1>2
      <4>4. k \in Nat /\ k + m = Len(old)
        BY <1>1, <1>3, <4>2
      <4>5. i \in Nat /\ m < i /\ i <= m + n
        BY <4>1, <4>2, <4>3, Zenon
      <4>6. i \in (m + 1)..(m + n) /\ i - m \in 1..n /\ k + i = (k + m) + (i - m)
        BY <4>4, <4>5
      <4> QED  BY <4>2, <4>3, <4>4, <4>6, Zenon
    <3>2. routes[Len(old) + (i - Len(run))] = new[i - Len(run)]
      BY <3>1, <1>2
    <3>3. queue[i] = new[i - Len(run)]
      BY <3>1, <1>2
    <3> QED  BY <3>1, <3>2, <3>3
  <2> QED  BY <2>1, <2>2, <1>2
<1> QED
  BY <1>1, <1>5, <1>6, <1>7, Zenon DEF Trails, routes, queue

\* flushBacklog: what waited is sent, and nothing waits any more.
LEMMA FlushBacklogGood ==
  ASSUME NEW s, NEW lost, Sound(s, lost, {}), s.worker # NoWorker
  PROVE  /\ Good(FlushBacklog(s), lost) /\ Fails(s, FlushBacklog(s))
<1> DEFINE c == [s EXCEPT !.broker.backlog = <<>>]
           q == FlushBacklog(s)
<1>1. s \in Handled /\ s.worker \in ComputeState /\ s.broker.backlog \in Seq(Int)
  BY Computes DEF Sound, Shape, Handled, BrokerState
<1>2. <<>> \in Seq(Int)
  OBVIOUS
<1>3. /\ c \in Handled /\ c.worker = s.worker /\ c.status = s.status /\ c.log = s.log
      /\ c.broker.backlog = <<>> /\ c.broker.routes = s.broker.routes
      /\ c.broker.ready = s.broker.ready /\ c.broker.restore = s.broker.restore
      /\ c.broker.retiring = s.broker.retiring /\ c.broker.canHost = s.broker.canHost
      /\ c.broker.holders = s.broker.holders /\ c.broker.kind = s.broker.kind
      /\ c.broker.ports = s.broker.ports /\ c.broker.recruit = s.broker.recruit
  BY <1>1, <1>2 DEF Handled, BrokerState
<1>4. q = SendAll(c, s.broker.backlog)
  BY DEF FlushBacklog
<1> HIDE DEF c, q
<1>5. /\ q \in Handled /\ q.worker \in ComputeState
      /\ q.worker.host = s.worker.host /\ q.worker.alive = s.worker.alive
      /\ q.worker.queue = s.worker.queue \o s.broker.backlog
      /\ q.broker.routes = s.broker.routes \o s.broker.backlog
      /\ q.broker.backlog = <<>>
      /\ q.broker.ready = s.broker.ready /\ q.broker.restore = s.broker.restore
      /\ q.broker.retiring = s.broker.retiring /\ q.broker.canHost = s.broker.canHost
      /\ q.broker.holders = s.broker.holders /\ q.broker.kind = s.broker.kind
      /\ q.broker.ports = s.broker.ports /\ q.broker.recruit = s.broker.recruit
      /\ q.status = s.status /\ q.log = s.log
  <2>1. s.broker.backlog \in Seq(Int) /\ c \in Handled /\ c.worker \in ComputeState
    BY <1>1, <1>3
  <2> DEFINE d == SendAll(c, s.broker.backlog)
  <2>2. /\ d \in Handled /\ d.worker \in ComputeState
        /\ d.worker.host = c.worker.host /\ d.worker.alive = c.worker.alive
        /\ d.worker.queue = c.worker.queue \o s.broker.backlog
        /\ d.broker.routes = c.broker.routes \o s.broker.backlog
        /\ d.broker.backlog = c.broker.backlog
        /\ d.broker.ready = c.broker.ready /\ d.broker.restore = c.broker.restore
        /\ d.broker.retiring = c.broker.retiring /\ d.broker.canHost = c.broker.canHost
        /\ d.broker.holders = c.broker.holders /\ d.broker.kind = c.broker.kind
        /\ d.broker.ports = c.broker.ports /\ d.broker.recruit = c.broker.recruit
        /\ d.status = c.status /\ d.log = c.log
    BY <2>1, SendAllDoes, Zenon
  <2> QED  BY <2>2, <1>3, <1>4
<1>6. q.worker # NoWorker
  BY <1>5, Computes
<1>7. Shape(q)
  BY <1>5 DEF Sound, Shape
<1> DEFINE old == s.broker.routes
           new == s.broker.backlog
<1>8. Fine(old \o new) /\ old \in Seq(Int) /\ new \in Seq(Int)
  BY ChainJoined DEF Sound, Accounted, Chain, Fine
<1>9. \A e : Routed(q, e) <=> Routed(s, e) \/ Waits(s, e)
  <2>1. q.broker.routes = old \o new /\ s.broker.routes = old /\ s.broker.backlog = new
    BY <1>5
  <2> HIDE DEF old, new
  <2>2. \A e : Contains(old \o new, e) <=> Contains(old, e) \/ Contains(new, e)
    BY <1>8, JoinedMembers
  <2> QED  BY <2>1, <2>2, Zenon DEF Routed, Waits
<1>10. \A e : ~Waits(q, e)
  BY <1>5 DEF Waits, Contains
<1>11. Accounted(q, {})
  <2>1. Chain(q.broker.routes, q.broker.backlog)
    <3>1. Fine(<<>>) /\ DOMAIN <<>> = {}
      BY DEF Fine, IsInjective
    <3>2. Fine(q.broker.routes) /\ q.broker.backlog = <<>>
      BY <1>5, <1>8
    <3> QED  BY <3>1, <3>2 DEF Chain
  <2>2. \A id : Routed(q, id) \/ Waits(q, id) =>
                   id \in (Numbers(q) \ {}) \cup {Restore, Release}
    BY <1>5, <1>9, <1>10 DEF Sound, Accounted, Numbers
  <2>3. \A id \in Numbers(q) :
           q.status[id] = "pending" <=> Routed(q, id) \/ Waits(q, id) \/ id \in {}
    BY <1>5, <1>9, <1>10 DEF Sound, Accounted, Numbers
  <2>4. {} \subseteq Numbers(q) /\ ~Waits(q, Release)
    BY <1>10
  <2> QED  BY <2>1, <2>2, <2>3, <2>4, Zenon DEF Accounted
<1>12. Gates(q, lost)
  BY <1>5, <1>6, <1>9, <1>10 DEF Sound, Gates, Accounted
<1>13. Linked(q, lost)
  <2>1. s.worker.queue \in Seq(Int) /\ (s.worker.alive => Trails(old, s.worker.queue, lost))
    BY <1>1, <1>5 DEF Sound, Linked, ComputeState
  <2>2. s.worker.alive => Trails(old \o new, s.worker.queue \o new, lost)
    BY <1>8, <2>1, TrailsJoined, Zenon
  <2> QED  BY <1>5, <1>6, <2>2 DEF Linked
<1>14. Flushed(q) /\ Fails(s, q)
  BY <1>5 DEF Flushed, Fails
<1> QED
  BY <1>7, <1>11, <1>12, <1>13, <1>14 DEF Good, Sound, q

\* stopRecruitment
LEMMA StopRecruitmentGood ==
  ASSUME NEW s, NEW lost, Good(s, lost)
  PROVE  /\ Good(StopRecruitment(s), lost) /\ Fails(s, StopRecruitment(s))
         /\ StopRecruitment(s).worker = s.worker /\ StopRecruitment(s).broker.canHost = s.broker.canHost
         /\ StopRecruitment(s).broker.ports = s.broker.ports
<1> DEFINE q == StopRecruitment(s)
<1>1. q = [s EXCEPT !.broker.recruit = Nobody]
  BY DEF StopRecruitment
<1>2. Nobody \in [asked : SUBSET Tabs, timer : BOOLEAN, on : BOOLEAN] /\ ~Nobody.on
  BY DEF Nobody
<1>3. s \in Handled
  BY DEF Good, Sound, Shape
<1> HIDE DEF q
<1>4. q \in Handled /\ SameRouting(s, q)
  BY <1>3, <1>1, <1>2 DEF Handled, BrokerState, SameRouting
<1>5. /\ q.broker.recruit = Nobody /\ q.broker.ports = s.broker.ports
      /\ q.broker.holders = s.broker.holders /\ q.broker.kind = s.broker.kind
      /\ q.status = s.status /\ q.log = s.log
  BY <1>3, <1>1 DEF Handled, BrokerState
<1>6. Shape(q)
  BY <1>4, <1>5 DEF Good, Sound, Shape
<1> QED
  BY <1>2, <1>4, <1>5, <1>6, Framed DEF Good, q, SameRouting

\* A new compute of which the broker knows nothing yet.
LEMMA Fresh ==
  ASSUME NEW s, NEW lost, Sound(s, lost, {}), s.worker = NoWorker,
         NEW host \in Tabs \cup {Host}, NEW alive \in BOOLEAN,
         host = Host => s.broker.canHost,
         NEW a, Shape(a), a.worker = Worker(host, alive),
         a.status = s.status, a.log = s.log,
         a.broker.routes = s.broker.routes, a.broker.backlog = s.broker.backlog,
         a.broker.canHost = s.broker.canHost, ~a.broker.restore, ~a.broker.retiring,
         ~a.broker.recruit.on
  PROVE  Sound(a, lost, {}) /\ a.worker # NoWorker
<1>1. /\ a.worker.host = host /\ a.worker.alive = alive /\ a.worker.queue = <<>>
  BY DEF Worker
<1>2. a.worker # NoWorker
  <2>1. host # "none"
    BY BrokerConstants DEF Host
  <2> QED  BY <2>1, <1>1 DEF NoWorker
<1>3. Accounted(a, {})
  BY DEF Sound, Accounted, Routed, Waits, Numbers
<1>4. Routed(s, Release) => lost # {}
  BY DEF Sound, Linked, Routed, Contains, Accounted, Chain, Fine
<1>5. Gates(a, lost)
  BY <1>1, <1>4 DEF Sound, Gates, Routed
<1>6. Linked(a, lost)
  <2>1. s.broker.routes \in Seq(Int)
    BY DEF Sound, Accounted, Chain, Fine
  <2>2. Len(s.broker.routes) - Len(<<>>) = Len(s.broker.routes) /\ Len(s.broker.routes) \in Nat
    BY <2>1
  <2>3. DOMAIN s.broker.routes = 1..Len(s.broker.routes) /\ DOMAIN <<>> = {}
    BY <2>1
  <2>4. \A i \in DOMAIN s.broker.routes : s.broker.routes[i] \in lost
    BY DEF Sound, Linked
  <2> QED  BY <1>1, <1>2, <2>2, <2>3, <2>4 DEF Linked, Trails
<1> QED
  BY <1>2, <1>3, <1>5, <1>6 DEF Sound

\* What a sequence with one more element contains.
LEMMA AppendedMembers ==
  ASSUME NEW S, NEW x \in Seq(S), NEW e \in S, NEW f
  PROVE  Contains(x \o <<e>>, f) <=> Contains(x, f) \/ f = e
<1>1. <<e>> \in Seq(S)
  OBVIOUS
<1>2. Contains(<<e>>, f) <=> f = e
  BY DEF Contains
<1> QED
  BY <1>1, <1>2, JoinedMembers

\* The broker's own requests have no place in the order of the tabs'.
LEMMA ChainOwn ==
  ASSUME NEW x, NEW y, Chain(x, y), NEW e \in {Restore, Release},
         ~Contains(x, e), ~Contains(y, e)
  PROVE  Chain(x \o <<e>>, y)
<1>1. x \in Seq(Int) /\ y \in Seq(Int) /\ e \in Int /\ e <= 0
  BY DEF Chain, Fine, Restore, Release
<1>2. Chain(x, <<e>>)
  BY <1>1 DEF Chain, Fine, Contains, IsInjective
<1>3. Fine(x \o <<e>>)
  BY <1>2, ChainJoined
<1> DEFINE z == x \o <<e>>
<1>4. /\ DOMAIN z = 1..(Len(x) + 1) /\ DOMAIN x = 1..Len(x) /\ Len(x) \in Nat
      /\ \A i \in 1..Len(x) : z[i] = x[i]
      /\ z[Len(x) + 1] = e
  BY <1>1
<1>5. ASSUME NEW i \in DOMAIN z, NEW j \in DOMAIN y
      PROVE  z[i] # y[j] /\ (y[j] > 0 => z[i] < y[j])
  <2>1. CASE i \in DOMAIN x
    BY <2>1, <1>4 DEF Chain
  <2>2. CASE i = Len(x) + 1
    BY <2>2, <1>1, <1>4 DEF Contains
  <2> QED  BY <2>1, <2>2, <1>4
<1> QED
  BY <1>3, <1>5 DEF Chain

\* A sequence of requests with one more is one.
LEMMA OwnAppended ==
  ASSUME NEW x \in Seq(Int), NEW e \in Int
  PROVE  \E y \in Seq(Int) : y = x \o <<e>> /\ y = Append(x, e)
<1>1. Append(x, e) = x \o <<e>> /\ Append(x, e) \in Seq(Int)
  OBVIOUS
<1> QED  BY <1>1, Zenon

\* The broker sends a compute a request of its own.
LEMMA OwnSent ==
  ASSUME NEW s, NEW lost, Sound(s, lost, {}), s.worker # NoWorker,
         NEW e \in {Restore, Release}, ~Routed(s, e), ~Waits(s, e),
         NEW q, Shape(q), q.worker # NoWorker,
         q.worker.host = s.worker.host, q.worker.alive = s.worker.alive,
         q.worker.queue = s.worker.queue \o <<e>>,
         q.broker.routes = s.broker.routes \o <<e>>,
         q.broker.backlog = s.broker.backlog, q.broker.canHost = s.broker.canHost,
         q.status = s.status, q.log = s.log,
         ~q.broker.ready, ~q.broker.recruit.on, q.broker.restore = s.broker.restore,
         s.broker.retiring => q.broker.retiring,
         q.broker.retiring => s.worker.host = Host,
         e = Release => q.broker.retiring
  PROVE  Good(q, lost) /\ Fails(s, q)
<1>1. /\ s.worker \in ComputeState /\ s.worker.queue \in Seq(Int)
      /\ s.broker.routes \in Seq(Int) /\ e \in Int /\ <<e>> \in Seq(Int)
  BY Computes DEF Sound, Shape, Handled, BrokerState, ComputeState, Restore, Release
<1>2. \A f : Routed(q, f) <=> Routed(s, f) \/ f = e
  <2>1. \A f : Contains(s.broker.routes \o <<e>>, f) <=> Contains(s.broker.routes, f) \/ f = e
    <3>1. \A x \in Seq(Int) : \A f : Contains(x \o <<e>>, f) <=> Contains(x, f) \/ f = e
      BY <1>1, AppendedMembers, ZenonT(60)
    <3> QED  BY <3>1, <1>1, Zenon
  <2> QED  BY <2>1, Zenon DEF Routed
<1>3. Accounted(q, {})
  <2>1. Chain(q.broker.routes, q.broker.backlog)
    BY ChainOwn DEF Sound, Accounted, Routed, Waits
  <2>2. \A f : Routed(q, f) \/ Waits(q, f) => f \in (Numbers(q) \ {}) \cup {Restore, Release}
    BY <1>2 DEF Sound, Accounted, Waits, Numbers
  <2>3. \A f \in Numbers(q) : f # e
    BY DEF Numbers, Restore, Release
  <2>4. \A f \in Numbers(q) : q.status[f] = "pending" <=> Routed(q, f) \/ Waits(q, f) \/ f \in {}
    BY <1>2, <2>3 DEF Sound, Accounted, Waits, Numbers
  <2>5. ~Waits(q, Release) /\ {} \subseteq Numbers(q)
    BY DEF Sound, Accounted, Waits
  <2> QED  BY <2>1, <2>2, <2>4, <2>5, Zenon DEF Accounted
<1>4. Gates(q, lost)
  BY <1>2 DEF Sound, Gates, Waits, Restore, Release
<1>5. Linked(q, lost)
  <2>1. s.worker.alive => Trails(s.broker.routes \o <<e>>, s.worker.queue \o <<e>>, lost)
    BY <1>1, TrailsJoined DEF Sound, Linked
  <2> QED  BY <2>1 DEF Linked
<1>6. Flushed(q) /\ Fails(s, q)
  BY DEF Flushed, Fails
<1> QED
  BY <1>3, <1>4, <1>5, <1>6 DEF Good, Sound

\* adoptComputePort, on behalf of a host that may host
LEMMA AdoptGood ==
  ASSUME NEW s, NEW lost, Good(s, lost), s.worker = NoWorker,
         NEW host \in Tabs \cup {Host}, NEW alive \in BOOLEAN,
         host = Host => s.broker.canHost
  PROVE  /\ Good(AdoptComputePort(s, host, alive), lost)
         /\ Fails(s, AdoptComputePort(s, host, alive))
<1> DEFINE p == StopRecruitment(s)
           a == [p EXCEPT !.worker = Worker(host, alive), !.broker.restore = FALSE,
                          !.broker.retiring = FALSE, !.broker.probing = FALSE]
           w == Worker(host, alive)
<1>1. /\ Good(p, lost) /\ Fails(s, p) /\ p.worker = NoWorker /\ p.broker.canHost = s.broker.canHost
  BY StopRecruitmentGood, Zenon
<1>2. /\ p.broker.recruit = Nobody /\ ~Nobody.on
      /\ p.broker.restore = s.broker.restore /\ p.broker.kind = s.broker.kind
  BY DEF Good, Sound, Shape, Handled, BrokerState, StopRecruitment, Nobody
<1>3. w \in ComputeState /\ w.host = host /\ w.alive = alive /\ w.queue = <<>>
  BY DEF Worker, ComputeState, Kinds
<1>4. p \in Handled
  BY <1>1 DEF Good, Sound, Shape
<1> HIDE DEF p, w
<1>5. /\ a \in Handled /\ a.worker = w /\ a.status = p.status /\ a.log = p.log
      /\ a.broker.routes = p.broker.routes /\ a.broker.backlog = p.broker.backlog
      /\ a.broker.canHost = p.broker.canHost /\ ~a.broker.restore /\ ~a.broker.retiring
      /\ a.broker.recruit = p.broker.recruit /\ a.broker.ports = p.broker.ports
      /\ a.broker.holders = p.broker.holders /\ a.broker.kind = p.broker.kind
      /\ a.broker.ready = p.broker.ready
  <2>1. a = [p EXCEPT !.worker = w, !.broker.restore = FALSE,
                      !.broker.retiring = FALSE, !.broker.probing = FALSE]
    BY DEF w
  <2> HIDE DEF a
  <2> QED  BY <1>3, <1>4, <2>1, ZenonT(60) DEF Handled, BrokerState
<1>6. CASE s.broker.restore
  <2>1. PICK k \in Kinds : k = IF s.broker.kind = "none" THEN "opfs" ELSE s.broker.kind
    BY DEF Good, Sound, Shape, Handled, BrokerState, Kinds
  <2> DEFINE q == AdoptComputePort(s, host, alive)
  <2>2. q = [a EXCEPT !.broker.restoring = k, !.broker.routes = Append(@, Restore),
                      !.worker.queue = Append(@, Restore)]
    BY <1>6, <2>1, Zenon DEF AdoptComputePort, p, w
  <2>3. Shape(a)
    BY <1>1, <1>5 DEF Good, Sound, Shape
  <2>4. a.worker = Worker(host, alive)
    BY <1>5 DEF w
  <2> HIDE DEF a, q
  <2>5. Sound(a, lost, {}) /\ a.worker # NoWorker
    BY <1>1, <1>2, <1>5, <2>3, <2>4, Fresh DEF Good
  <2>6. ~Routed(a, Restore) /\ ~Waits(a, Restore) /\ ~a.broker.ready
    <3>1. ~Routed(p, Restore) /\ ~Waits(p, Restore) /\ ~p.broker.ready
      BY <1>1, <1>2, <1>6 DEF Good, Sound, Gates
    <3> QED  BY <3>1, <1>5 DEF Routed, Waits
  <2>7. /\ a.broker.routes \in Seq(Int) /\ a.worker.queue \in Seq(Int) /\ Restore \in Int
        /\ a.worker \in ComputeState
    BY <1>3, <1>5 DEF Handled, BrokerState, ComputeState, Restore
  <2>8. PICK x \in Seq(Int) : x = a.broker.routes \o <<Restore>> /\ x = Append(a.broker.routes, Restore)
    BY <2>7, OwnAppended, Zenon
  <2>9. PICK y \in Seq(Int) : y = a.worker.queue \o <<Restore>> /\ y = Append(a.worker.queue, Restore)
    BY <2>7, OwnAppended, Zenon
  <2>10. q = [a EXCEPT !.broker.restoring = k, !.broker.routes = x, !.worker.queue = y]
    BY <2>2, <2>8, <2>9, Zenon
  <2>11. /\ q \in Handled /\ q.worker \in ComputeState
         /\ q.worker.host = a.worker.host /\ q.worker.alive = a.worker.alive
         /\ q.worker.queue = y /\ q.status = a.status /\ q.log = a.log
    BY <1>5, <2>7, <2>10, ZenonT(60) DEF Handled, BrokerState, ComputeState
  <2>12. /\ q.broker.routes = x /\ q.broker.backlog = a.broker.backlog
         /\ q.broker.canHost = a.broker.canHost /\ q.broker.restore = a.broker.restore
         /\ q.broker.retiring = a.broker.retiring /\ q.broker.ready = a.broker.ready
         /\ q.broker.recruit = a.broker.recruit /\ q.broker.ports = a.broker.ports
         /\ q.broker.holders = a.broker.holders /\ q.broker.kind = a.broker.kind
    BY <1>5, <2>7, <2>10 DEF Handled, BrokerState, ComputeState
  <2>13. Shape(q) /\ q.worker # NoWorker
    BY <2>3, <2>11, <2>12, Computes DEF Shape
  <2>14. Good(q, lost) /\ Fails(a, q)
    <3>1. /\ ~q.broker.ready /\ ~q.broker.recruit.on /\ q.broker.restore = a.broker.restore
          /\ ~a.broker.retiring /\ ~q.broker.retiring /\ Restore # Release
      BY <1>2, <1>5, <2>6, <2>12 DEF Restore, Release
    <3> QED  BY <3>1, <2>5, <2>6, <2>8, <2>9, <2>11, <2>12, <2>13, OwnSent
  <2>15. Fails(s, a)
    BY <1>1, <1>5 DEF Fails
  <2> QED  BY <2>14, <2>15, FailsOnwards DEF q
<1>7. CASE ~s.broker.restore
  <2> DEFINE r == [a EXCEPT !.broker.ready = TRUE]
  <2>1. AdoptComputePort(s, host, alive) = FlushBacklog(r)
    BY <1>7, Zenon DEF AdoptComputePort, p, w
  <2>2. a.worker = Worker(host, alive)
    BY <1>5 DEF w
  <2> HIDE DEF a
  <2>3. /\ r \in Handled /\ r.worker = a.worker /\ r.status = a.status /\ r.log = a.log
        /\ r.broker.routes = a.broker.routes /\ r.broker.backlog = a.broker.backlog
        /\ r.broker.canHost = a.broker.canHost /\ r.broker.restore = a.broker.restore
        /\ r.broker.retiring = a.broker.retiring /\ r.broker.ports = a.broker.ports
        /\ r.broker.recruit = a.broker.recruit
        /\ r.broker.holders = a.broker.holders /\ r.broker.kind = a.broker.kind
    BY <1>5 DEF Handled, BrokerState
  <2> HIDE DEF r
  <2>4. Shape(r)
    BY <1>1, <1>5, <2>3 DEF Good, Sound, Shape
  <2>5. Sound(r, lost, {}) /\ r.worker # NoWorker
    BY <1>1, <1>2, <1>5, <2>2, <2>3, <2>4, Fresh DEF Good
  <2>6. Good(FlushBacklog(r), lost) /\ Fails(r, FlushBacklog(r))
    BY <2>5, FlushBacklogGood
  <2>7. Fails(s, r)
    BY <1>1, <1>5, <2>3 DEF Fails
  <2> QED  BY <2>1, <2>6, <2>7, FailsOnwards
<1> QED
  BY <1>6, <1>7 DEF Good, Sound, Shape, Handled, BrokerState

\* failBacklog: what waited has failed, once.
LEMMA FailBacklogGood ==
  ASSUME NEW s, NEW lost, Good(s, lost), s.worker = NoWorker
  PROVE  Good(FailBacklog(s), lost) /\ Fails(s, FailBacklog(s))
<1> DEFINE failed == ToSet(s.broker.backlog) \ {Restore}
           rest == s.broker.holders \ {s.log[id].tab : id \in {i \in failed : s.log[i].undo}}
           become == [id \in DOMAIN s.status |->
                        IF id \notin failed THEN s.status[id]
                        ELSE IF s.status[id] = "pending" THEN "failed" ELSE "twice"]
           told == [t \in Tabs |-> FailedDriver(s, t, failed)]
           q == FailBacklog(s)
<1>1. /\ s \in Handled /\ s.broker.backlog \in Seq(Int) /\ s.status \in Seq(Response)
      /\ Len(s.status) = Len(s.log) /\ s.broker.kind \in Kinds /\ s.broker.holders \subseteq Tabs
      /\ s.driver \in [Tabs -> Drivers]
  BY DEF Good, Sound, Shape, Handled, BrokerState
<1>2. \A id : id \in failed <=> Waits(s, id) /\ id # Restore
  BY <1>1 DEF ToSet, Waits, Contains
<1>3. \A id \in failed : id \in Numbers(s) /\ s.status[id] = "pending"
  BY <1>2, Zenon DEF Good, Sound, Accounted
<1>4. DOMAIN s.status = Numbers(s)
  BY <1>1 DEF Numbers
<1>5. /\ become \in Seq(Response) /\ Len(become) = Len(s.log)
      /\ \A id \in Numbers(s) : become[id] = IF id \in failed THEN "failed" ELSE s.status[id]
  <2>1. \A id \in Numbers(s) : become[id] = IF id \in failed THEN "failed" ELSE s.status[id]
    BY <1>3, <1>4
  <2>2. \A id \in Numbers(s) : s.status[id] \in Response
    BY <1>1, <1>4
  <2>3. \A id \in Numbers(s) : become[id] \in Response
    BY <2>1, <2>2 DEF Response
  <2>4. become \in [1..Len(s.log) -> Response] /\ Len(s.log) \in Nat
    <3>1. become = [id \in 1..Len(s.log) |-> IF id \in failed THEN "failed" ELSE s.status[id]]
      BY <1>3, <1>4 DEF Numbers
    <3>2. Len(s.log) \in Nat
      BY <1>1
    <3> HIDE DEF become, failed
    <3>3. \A id \in 1..Len(s.log) : (IF id \in failed THEN "failed" ELSE s.status[id]) \in Response
      BY <2>2 DEF Numbers, Response
    <3> QED  BY <3>1, <3>2, <3>3
  <2> HIDE DEF become
  <2> QED  BY <2>1, <2>4
<1>6. told \in [Tabs -> Drivers]
  <2>1. \A t \in Tabs : FailedDriver(s, t, failed) \in Drivers
    BY <1>1, Zenon DEF FailedDriver, Drivers
  <2> QED  BY <2>1
<1>7. PICK k \in Kinds : k = IF rest = {} THEN "none" ELSE s.broker.kind
  BY <1>1 DEF Kinds
<1>8. PICK b \in BOOLEAN : b = (s.broker.ready \/ Restore \in ToSet(s.broker.backlog))
  OBVIOUS
<1>9. q = [s EXCEPT !.broker.backlog = <<>>, !.broker.ready = b, !.broker.holders = rest,
                    !.broker.kind = k, !.status = become, !.driver = told]
  BY <1>7, <1>8, Zenon DEF FailBacklog
<1>10. rest \subseteq Tabs /\ <<>> \in Seq(Int)
  BY <1>1
<1> HIDE DEF failed, rest, become, told, q
<1>11. /\ q \in Handled /\ q.worker = s.worker /\ q.status = become /\ q.log = s.log
  BY <1>1, <1>5, <1>6, <1>9, <1>10, ZenonT(60) DEF Handled, BrokerState
<1>12. /\ q.broker.backlog = <<>> /\ q.broker.routes = s.broker.routes
       /\ q.broker.ready = b /\ q.broker.restore = s.broker.restore
       /\ q.broker.retiring = s.broker.retiring /\ q.broker.canHost = s.broker.canHost
       /\ q.broker.holders = rest /\ q.broker.kind = k
       /\ q.broker.ports = s.broker.ports /\ q.broker.recruit = s.broker.recruit
  BY <1>1, <1>9 DEF Handled, BrokerState
<1>13. Shape(q)
  <2>1. (k = "none") <=> (rest = {})
    BY <1>7 DEF Good, Sound, Shape, rest
  <2>2. Len(q.status) = Len(q.log)
    BY <1>5, <1>11
  <2> QED  BY <1>11, <1>12, <2>1, <2>2 DEF Good, Sound, Shape
<1>14. \A e : ~Waits(q, e) /\ (Routed(q, e) <=> Routed(s, e))
  BY <1>12 DEF Waits, Routed, Contains
<1>15. \A e \in Numbers(s) : Waits(s, e) => ~Routed(s, e)
  BY SMTT(30) DEF Good, Sound, Accounted, Chain, Fine, Waits, Routed, Contains
<1>16. \A e \in Numbers(s) : e # Restore
  BY DEF Numbers, Restore
<1>17. Accounted(q, {})
  <2>1. Chain(q.broker.routes, q.broker.backlog)
    <3>1. Fine(<<>>) /\ DOMAIN <<>> = {}
      BY DEF Fine, IsInjective
    <3> QED  BY <3>1, <1>12 DEF Good, Sound, Accounted, Chain
  <2>2. \A id : Routed(q, id) \/ Waits(q, id) => id \in (Numbers(q) \ {}) \cup {Restore, Release}
    BY <1>11, <1>14 DEF Good, Sound, Accounted, Numbers
  <2>3. \A id \in Numbers(q) :
           q.status[id] = "pending" <=> Routed(q, id) \/ Waits(q, id) \/ id \in {}
    <3> TAKE id \in Numbers(q)
    <3>1. id \in Numbers(s)
      BY <1>11 DEF Numbers
    <3>2. q.status[id] = IF id \in failed THEN "failed" ELSE s.status[id]
      BY <1>5, <1>11, <3>1
    <3>3. s.status[id] = "pending" <=> Routed(s, id) \/ Waits(s, id)
      BY <3>1 DEF Good, Sound, Accounted
    <3> QED  BY <3>1, <3>2, <3>3, <1>2, <1>14, <1>15, <1>16
  <2> QED  BY <2>1, <2>2, <2>3, <1>14, Zenon DEF Accounted
<1>18. Gates(q, lost)
  <2>1. Waits(s, Restore) <=> Restore \in ToSet(s.broker.backlog)
    BY <1>1 DEF ToSet, Waits, Contains
  <2> QED  BY <2>1, <1>8, <1>11, <1>12, <1>14 DEF Good, Sound, Gates
<1>19. Linked(q, lost)
  BY <1>11, <1>12 DEF Good, Sound, Linked
<1>20. Flushed(q) /\ Fails(s, q)
  <2>1. \A id \in Numbers(s) : \/ q.status[id] = s.status[id]
                               \/ s.status[id] = "pending" /\ q.status[id] = "failed"
    BY <1>3, <1>5, <1>11
  <2> QED  BY <2>1, <1>11, <1>12 DEF Flushed, Fails
<1> QED
  BY <1>13, <1>17, <1>18, <1>19, <1>20 DEF Good, Sound, q

\* A control posted to a tab.
LEMMA ControlGood ==
  ASSUME NEW s, NEW lost, Good(s, lost), NEW t \in Tabs, NEW c \in ControlMessage
  PROVE  /\ Good(Control(s, t, c), lost) /\ Fails(s, Control(s, t, c))
         /\ Control(s, t, c).broker = s.broker /\ Control(s, t, c).worker = s.worker
<1> DEFINE q == Control(s, t, c)
<1>1. s \in Handled /\ s.inbox[t] \in Seq(ControlMessage)
  BY DEF Good, Sound, Shape, Handled
<1>2. PICK x \in Seq(ControlMessage) : x = Append(s.inbox[t], c)
  <2>1. \A x \in Seq(ControlMessage) : Append(x, c) \in Seq(ControlMessage)
    OBVIOUS
  <2> QED  BY <2>1, <1>1, Zenon
<1>3. q = IF s.conn[t] = "live" THEN [s EXCEPT !.inbox[t] = x] ELSE s
  BY <1>2, Zenon DEF Control
<1> HIDE DEF q
<1>4. q \in Handled /\ q.broker = s.broker /\ q.worker = s.worker /\ q.status = s.status
      /\ q.log = s.log
  BY <1>1, <1>3 DEF Handled
<1>5. Shape(q) /\ SameRouting(s, q)
  BY <1>4 DEF Good, Sound, Shape, SameRouting
<1>6. q.broker.recruit.on => s.worker = NoWorker
  BY <1>4 DEF Good, Sound, Gates
<1> QED
  BY <1>4, <1>5, <1>6, Framed DEF Good, q

\* requestSpawn: a compute of the broker's own, of a tab, or nobody's.
LEMMA RequestSpawnGood ==
  ASSUME NEW s, NEW lost, Good(s, lost), NEW preferred \in Seq(Tabs)
  PROVE  Good(RequestSpawn(s, preferred), lost) /\ Fails(s, RequestSpawn(s, preferred))
<1> DEFINE ports == preferred \o Reverse(s.broker.ports)
           candidates == {i \in DOMAIN ports : ports[i] \notin s.broker.recruit.asked}
           asker == ports[Min(candidates)]
           q == RequestSpawn(s, preferred)
<1>1. /\ s \in Handled /\ s.broker.ports \in Seq(Tabs) /\ s.broker.recruit.asked \subseteq Tabs
  BY DEF Good, Sound, Shape, Handled, BrokerState
<1>2. CASE s.worker # NoWorker
  <2>1. q = StopRecruitment(s)
    BY <1>2 DEF RequestSpawn
  <2> QED  BY <2>1, StopRecruitmentGood
<1>3. CASE s.worker = NoWorker /\ s.broker.canHost
  <2>1. q = AdoptComputePort(s, Host, TRUE)
    BY <1>3 DEF RequestSpawn
  <2>2. Good(AdoptComputePort(s, Host, TRUE), lost) /\ Fails(s, AdoptComputePort(s, Host, TRUE))
    <3>1. \A alive \in BOOLEAN : /\ Good(AdoptComputePort(s, Host, alive), lost)
                                 /\ Fails(s, AdoptComputePort(s, Host, alive))
      BY <1>3, AdoptGood
    <3> QED  BY <3>1, Zenon
  <2> QED  BY <2>1, <2>2, Zenon
<1>4. CASE s.worker = NoWorker /\ ~s.broker.canHost /\ candidates = {}
  <2>1. q = FailBacklog(StopRecruitment(s))
    BY <1>4, Zenon DEF RequestSpawn
  <2>2. Good(StopRecruitment(s), lost) /\ Fails(s, StopRecruitment(s)) /\ StopRecruitment(s).worker = NoWorker
    BY <1>4, StopRecruitmentGood
  <2>3. Good(q, lost) /\ Fails(StopRecruitment(s), q)
    BY <2>1, <2>2, FailBacklogGood
  <2> QED  BY <2>2, <2>3, FailsOnwards
<1>5. CASE s.worker = NoWorker /\ ~s.broker.canHost /\ candidates # {}
  <2>1. Min(candidates) \in candidates
    <3>1. candidates \subseteq Nat
      <4>1. Reverse(s.broker.ports) \in Seq(Tabs)
        BY <1>1 DEF Reverse
      <4>2. DOMAIN ports \subseteq Nat
        BY <4>1
      <4> QED  BY <4>2
    <3> HIDE DEF candidates
    <3>2. PICK m \in candidates : \A y \in candidates : m <= y
      <4>1. PICK m \in candidates : \A y \in candidates : ~(<<y, m>> \in OpToRel(<, Nat))
        BY <3>1, <1>5, NatLessThanWellFounded, WFMin
      <4>2. \A y \in candidates : ~(y < m)
        BY <4>1, <3>1 DEF OpToRel
      <4> QED  BY <4>2, <3>1
    <3> QED  BY <3>2, Zenon DEF Min
  <2>2. asker \in Tabs
    <3>1. Reverse(s.broker.ports) \in Seq(Tabs)
      BY <1>1 DEF Reverse
    <3>2. ports \in Seq(Tabs)
      BY <3>1
    <3>3. Min(candidates) \in DOMAIN ports
      BY <2>1
    <3> HIDE DEF ports, candidates
    <3> QED  BY <3>2, <3>3
  <2> DEFINE c == Control(s, asker, "spawn")
             r == [asked |-> c.broker.recruit.asked \cup {asker}, timer |-> TRUE, on |-> TRUE]
  <2>3. q = [c EXCEPT !.broker.recruit = r]
    BY <1>5, Zenon DEF RequestSpawn
  <2>4. Good(c, lost) /\ Fails(s, c) /\ c.broker = s.broker /\ c.worker = NoWorker
    BY <2>2, <1>5, ControlGood DEF ControlMessage
  <2>5. r \in [asked : SUBSET Tabs, timer : BOOLEAN, on : BOOLEAN]
    BY <2>4, <2>2, <1>1
  <2>6. c \in Handled
    BY <2>4 DEF Good, Sound, Shape
  <2> HIDE DEF c, r, q
  <2>7. q \in Handled /\ SameRouting(c, q)
    BY <2>3, <2>5, <2>6 DEF Handled, BrokerState, SameRouting
  <2>8. /\ q.broker.ports = c.broker.ports
        /\ q.broker.holders = c.broker.holders /\ q.broker.kind = c.broker.kind
    BY <2>3, <2>5, <2>6 DEF Handled, BrokerState
  <2>9. Shape(q)
    BY <2>4, <2>7, <2>8 DEF Good, Sound, Shape, SameRouting
  <2>10. Good(q, lost) /\ Fails(c, q)
    BY <2>4, <2>7, <2>9, Framed DEF Good
  <2> QED  BY <2>4, <2>10, FailsOnwards DEF q
<1> QED
  BY <1>2, <1>3, <1>4, <1>5 DEF Good, Sound, Shape, Handled, BrokerState

\* restartRecruitment
LEMMA RestartGood ==
  ASSUME NEW s, NEW lost, Good(s, lost)
  PROVE  Good(RestartRecruitment(s, <<>>), lost) /\ Fails(s, RestartRecruitment(s, <<>>))
<1>1. Good(StopRecruitment(s), lost) /\ Fails(s, StopRecruitment(s))
  BY StopRecruitmentGood
<1>2. <<>> \in Seq(Tabs)
  OBVIOUS
<1>3. /\ Good(RequestSpawn(StopRecruitment(s), <<>>), lost)
      /\ Fails(StopRecruitment(s), RequestSpawn(StopRecruitment(s), <<>>))
  BY <1>1, <1>2, RequestSpawnGood
<1> QED
  BY <1>1, <1>3, FailsOnwards DEF RestartRecruitment

\* A route is deleted where it is; what follows keeps its order.
LEMMA ChainRemoved ==
  ASSUME NEW x, NEW y, Chain(x, y), NEW e
  PROVE  /\ Chain(RemoveFirst(x, e), y)
         /\ \A f : Contains(RemoveFirst(x, e), f) <=> Contains(x, f) /\ f # e
<1> DEFINE r == RemoveFirst(x, e)
<1>1. x \in Seq(Int) /\ IsInjective(x) /\ y \in Seq(Int)
  BY DEF Chain, Fine
<1>2. CASE \A i \in DOMAIN x : x[i] # e
  <2>1. r = x
    BY <1>1, <1>2, FirstRemoved, ZenonT(40)
  <2>2. \A f : Contains(x, f) <=> Contains(x, f) /\ f # e
    BY <1>1, <1>2 DEF Contains
  <2> QED  BY <2>1, <2>2, Zenon
<1>3. ASSUME NEW k \in DOMAIN x, x[k] = e
      PROVE  Chain(r, y) /\ \A f : Contains(r, f) <=> Contains(x, f) /\ f # e
  <2>1. /\ r \in Seq(Int) /\ Len(r) = Len(x) - 1
        /\ \A i \in 1..(Len(x) - 1) : r[i] = IF i < k THEN x[i] ELSE x[i + 1]
    BY <1>1, <1>3, FirstRemoved, SMTT(30)
  <2>2. Len(x) \in Nat /\ DOMAIN x = 1..Len(x) /\ k \in 1..Len(x) /\ DOMAIN r = 1..(Len(x) - 1)
    BY <1>1, <1>3, <2>1
  <2> DEFINE At(i) == IF i < k THEN i ELSE i + 1
  <2> HIDE DEF r
  <2>3. \A i \in DOMAIN r : At(i) \in DOMAIN x /\ At(i) # k /\ r[i] = x[At(i)]
    BY <2>1, <2>2
  <2>4. \A i, j \in DOMAIN r : i < j => At(i) < At(j)
    BY <2>2
  <2>5. \A j \in DOMAIN x : j # k => \E i \in DOMAIN r : At(i) = j
    <3> TAKE j \in DOMAIN x
    <3> HAVE j # k
    <3>1. CASE j < k
      <4>1. j \in DOMAIN r /\ At(j) = j
        BY <3>1, <2>2
      <4> QED  BY <4>1
    <3>2. CASE j > k
      <4>1. j - 1 \in DOMAIN r /\ At(j - 1) = j
        BY <3>2, <2>2
      <4> QED  BY <4>1
    <3> QED  BY <3>1, <3>2, <2>2
  <2> HIDE DEF At
  <2>6. \A i, j \in DOMAIN r : i # j => At(i) # At(j)
    <3>1. \A i, j \in DOMAIN r : i # j => i < j \/ j < i
      BY <2>2
    <3>2. \A i \in DOMAIN r : At(i) \in Int
      BY <2>2, <2>3
    <3> QED  BY <3>1, <3>2, <2>4
  <2>7. Fine(r)
    <3>1. ASSUME NEW i \in DOMAIN r, NEW j \in DOMAIN r, i # j  PROVE  r[i] # r[j]
      BY <3>1, <2>3, <2>6, <1>1 DEF IsInjective
    <3>2. ASSUME NEW i \in DOMAIN r, NEW j \in DOMAIN r, i < j, r[j] > 0  PROVE  r[i] < r[j]
      <4>1. At(i) \in DOMAIN x /\ At(j) \in DOMAIN x /\ At(i) < At(j) /\ x[At(j)] > 0
        BY <3>2, <2>3, <2>4
      <4>2. x[At(i)] < x[At(j)]
        BY <4>1 DEF Chain, Fine
      <4> QED  BY <4>2, <2>3
    <3> QED  BY <3>1, <3>2, <2>1, Zenon DEF Fine, IsInjective
  <2>8. Chain(r, y)
    BY <2>3, <2>7 DEF Chain
  <2>9. \A f : Contains(r, f) <=> Contains(x, f) /\ f # e
    <3>1. DOMAIN r = 1..Len(r)
      BY <2>1
    <3>2. \A f : Contains(r, f) <=> \E i \in DOMAIN r : r[i] = f
      BY <3>1 DEF Contains
    <3>3. \A f : Contains(x, f) <=> \E i \in DOMAIN x : x[i] = f
      BY <2>2 DEF Contains
    <3>4. ASSUME NEW f, NEW i \in DOMAIN r, r[i] = f  PROVE  Contains(x, f) /\ f # e
      BY <3>4, <3>3, <2>3, <1>3, <1>1 DEF IsInjective
    <3>5. ASSUME NEW j \in DOMAIN x, x[j] # e  PROVE  Contains(r, x[j])
      <4>1. j # k
        BY <3>5, <1>3
      <4>2. PICK i \in DOMAIN r : At(i) = j
        BY <4>1, <2>5
      <4>3. r[i] = x[j]
        BY <4>2, <2>3
      <4> QED  BY <4>3, <3>2
    <3> QED  BY <3>2, <3>3, <3>4, <3>5
  <2> QED  BY <2>8, <2>9
<1> QED
  BY <1>2, <1>3

\* finishEpochReset: stranded requests wait in front of the backlog.
LEMMA FinishGood ==
  ASSUME NEW s, NEW lost, Good(s, lost)
  PROVE  Good(FinishEpochReset(s), lost) /\ Fails(s, FinishEpochReset(s))
<1> DEFINE p == StopRecruitment(s)
           pending == RemoveFirst(s.broker.routes, Release)
           waiting == pending \o s.broker.backlog
           opens == \E i \in DOMAIN waiting :
                       waiting[i] = Restore \/ s.log[waiting[i]].op = "open"
           again == s.broker.holders # {} /\ ~opens
           r == [p EXCEPT
                   !.worker = NoWorker, !.broker.ready = FALSE,
                   !.broker.retiring = FALSE, !.broker.probing = FALSE,
                   !.broker.routes = <<>>, !.broker.backlog = waiting,
                   !.broker.restore = again]
<1>1. FinishEpochReset(s) = IF waiting = <<>> THEN r ELSE RestartRecruitment(r, <<>>)
  BY Zenon DEF FinishEpochReset
<1>2. Chain(s.broker.routes, s.broker.backlog)
  BY DEF Good, Sound, Accounted
<1>3. /\ Chain(pending, s.broker.backlog)
      /\ \A f : Contains(pending, f) <=> Contains(s.broker.routes, f) /\ f # Release
  BY <1>2, ChainRemoved, ZenonT(40)
<1>4. pending \in Seq(Int) /\ s.broker.backlog \in Seq(Int)
  BY <1>3 DEF Chain, Fine
<1>5. Fine(waiting)
  BY <1>3, ChainJoined, Zenon
<1>6. \A f : Contains(waiting, f) <=> Contains(pending, f) \/ Contains(s.broker.backlog, f)
  BY <1>4, JoinedMembers
<1> HIDE DEF pending
<1>7. waiting \in Seq(Int)
  BY <1>5 DEF Fine
<1> HIDE DEF waiting
<1>8. Contains(waiting, Restore) => opens
  BY <1>7 DEF Contains
<1>9. PICK a \in BOOLEAN : a = again
  OBVIOUS
<1>10. /\ Good(p, lost) /\ Fails(s, p) /\ p.broker.canHost = s.broker.canHost
  BY StopRecruitmentGood, Zenon
<1>11. p.broker.recruit = Nobody /\ ~Nobody.on /\ p \in Handled /\ <<>> \in Seq(Int)
  <2>1. p.broker.recruit = Nobody
    BY DEF Good, Sound, Shape, Handled, BrokerState, StopRecruitment
  <2>2. p \in Handled
    BY <1>10 DEF Good, Sound, Shape
  <2> QED  BY <2>1, <2>2 DEF Nobody
<1>12. r = [p EXCEPT
              !.worker = NoWorker, !.broker.ready = FALSE,
              !.broker.retiring = FALSE, !.broker.probing = FALSE,
              !.broker.routes = <<>>, !.broker.backlog = waiting,
              !.broker.restore = a]
  BY <1>9, Zenon
<1>13. a => ~Contains(waiting, Restore)
  BY <1>8, <1>9
<1> HIDE DEF r, p
<1>14. r \in Handled /\ r.worker = NoWorker /\ r.status = p.status /\ r.log = p.log
  <2> DEFINE b == [p.broker EXCEPT
                     !.ready = FALSE, !.retiring = FALSE, !.probing = FALSE,
                     !.routes = <<>>, !.backlog = waiting, !.restore = a]
  <2>1. p.broker \in BrokerState
    BY <1>11 DEF Handled
  <2>2. b \in BrokerState
    BY <2>1, <1>7, <1>11 DEF BrokerState
  <2>3. r = [p EXCEPT !.worker = NoWorker, !.broker = b]
    BY <1>11, <1>12, <2>1 DEF Handled, BrokerState
  <2> HIDE DEF b
  <2> QED  BY <2>2, <2>3, <1>11 DEF Handled
<1>15. /\ r.broker.routes = <<>> /\ r.broker.backlog = waiting /\ ~r.broker.ready
       /\ r.broker.restore = a /\ ~r.broker.retiring /\ r.broker.canHost = p.broker.canHost
       /\ r.broker.recruit = p.broker.recruit /\ r.broker.ports = p.broker.ports
       /\ r.broker.holders = p.broker.holders /\ r.broker.kind = p.broker.kind
  BY <1>7, <1>11, <1>12, ZenonT(60) DEF Handled, BrokerState
<1>16. Shape(r)
  BY <1>10, <1>14, <1>15 DEF Good, Sound, Shape
<1>17. /\ \A f : ~Routed(r, f)
       /\ \A f : Waits(r, f) <=> Contains(waiting, f)
  BY <1>15 DEF Routed, Waits, Contains
<1>18. Release # Restore /\ (\A f \in Numbers(s) : f # Release)
  BY DEF Numbers, Release, Restore
<1>19. \A f : Contains(waiting, f) <=> (Routed(s, f) /\ f # Release) \/ Waits(s, f)
  BY <1>3, <1>6, Zenon DEF Routed, Waits
<1>20. r.log = s.log /\ Numbers(r) = Numbers(s)
  BY <1>10, <1>14 DEF Fails, Numbers
<1>21. \A f \in Numbers(s) : r.status[f] = s.status[f]
  <2>1. p.status = s.status
    BY DEF p, StopRecruitment, Good, Sound, Shape, Handled
  <2> QED  BY <2>1, <1>14
<1>22. Accounted(r, {})
  <2>1. Chain(r.broker.routes, r.broker.backlog)
    <3>1. Fine(<<>>) /\ DOMAIN <<>> = {}
      BY DEF Fine, IsInjective
    <3> QED  BY <3>1, <1>5, <1>15 DEF Chain
  <2>2. \A f : Routed(r, f) \/ Waits(r, f) => f \in (Numbers(r) \ {}) \cup {Restore, Release}
    BY <1>17, <1>19, <1>20 DEF Good, Sound, Accounted
  <2>3. ~Waits(r, Release)
    BY <1>17, <1>19 DEF Good, Sound, Accounted
  <2>4. \A f \in Numbers(r) : r.status[f] = "pending" <=> Routed(r, f) \/ Waits(r, f) \/ f \in {}
    BY <1>17, <1>18, <1>19, <1>20, <1>21 DEF Good, Sound, Accounted
  <2> QED  BY <2>1, <2>2, <2>3, <2>4, Zenon DEF Accounted
<1>23. Gates(r, lost)
  <2>1. NoWorker.host # Host
    BY DEF NoWorker, Host
  <2> QED  BY <2>1, <1>10, <1>11, <1>13, <1>14, <1>15, <1>17 DEF Good, Sound, Gates
<1>24. Linked(r, lost)
  BY <1>14, <1>15 DEF Linked
<1>25. Good(r, lost) /\ Fails(s, r)
  BY <1>14, <1>16, <1>20, <1>21, <1>22, <1>23, <1>24 DEF Good, Sound, Flushed, Fails
<1>26. Good(RestartRecruitment(r, <<>>), lost) /\ Fails(r, RestartRecruitment(r, <<>>))
  BY <1>25, RestartGood
<1>27. CASE waiting = <<>>
  BY <1>1, <1>25, <1>27
<1>28. CASE waiting # <<>>
  BY <1>1, <1>25, <1>26, <1>28, FailsOnwards
<1> QED
  BY <1>27, <1>28

\* resetEpoch
LEMMA ResetEpochGood ==
  ASSUME NEW s, NEW lost, Good(s, lost)
  PROVE  Good(ResetEpoch(s), lost) /\ Fails(s, ResetEpoch(s))
<1>1. CASE s.worker = NoWorker \/ s.broker.retiring
  <2>1. ResetEpoch(s) = s
    BY <1>1, Zenon DEF ResetEpoch
  <2> QED  BY <2>1 DEF Fails
<1>2. CASE s.worker # NoWorker /\ ~s.broker.retiring /\ s.worker.host # Host
  <2>1. ResetEpoch(s) = FinishEpochReset(s)
    BY <1>2, Zenon DEF ResetEpoch
  <2> QED  BY <2>1, FinishGood
<1>3. CASE s.worker # NoWorker /\ ~s.broker.retiring /\ s.worker.host = Host
  <2> DEFINE q == ResetEpoch(s)
  <2>1. q = [s EXCEPT !.broker.ready = FALSE, !.broker.retiring = TRUE,
                      !.broker.routes = Append(@, Release),
                      !.worker.queue = Append(@, Release)]
    BY <1>3, Zenon DEF ResetEpoch
  <2>2. /\ s.broker.routes \in Seq(Int) /\ s.worker.queue \in Seq(Int) /\ Release \in Int
        /\ s.worker \in ComputeState /\ s \in Handled
    BY <1>3, Computes DEF Good, Sound, Shape, Handled, BrokerState, ComputeState, Release
  <2>3. PICK x \in Seq(Int) : x = s.broker.routes \o <<Release>> /\ x = Append(s.broker.routes, Release)
    BY <2>2, OwnAppended, Zenon
  <2>4. PICK y \in Seq(Int) : y = s.worker.queue \o <<Release>> /\ y = Append(s.worker.queue, Release)
    BY <2>2, OwnAppended, Zenon
  <2>5. q = [s EXCEPT !.broker.ready = FALSE, !.broker.retiring = TRUE,
                      !.broker.routes = x, !.worker.queue = y]
    BY <2>1, <2>3, <2>4, Zenon
  <2> HIDE DEF q
  <2>6. /\ q \in Handled /\ q.worker \in ComputeState
        /\ q.worker.host = s.worker.host /\ q.worker.alive = s.worker.alive
        /\ q.worker.queue = y /\ q.status = s.status /\ q.log = s.log
    BY <2>2, <2>5, ZenonT(60) DEF Handled, BrokerState, ComputeState
  <2>7. /\ q.broker.routes = x /\ q.broker.backlog = s.broker.backlog
        /\ q.broker.canHost = s.broker.canHost /\ q.broker.restore = s.broker.restore
        /\ q.broker.retiring /\ ~q.broker.ready
        /\ q.broker.recruit = s.broker.recruit /\ q.broker.ports = s.broker.ports
        /\ q.broker.holders = s.broker.holders /\ q.broker.kind = s.broker.kind
    BY <2>2, <2>5 DEF Handled, BrokerState, ComputeState
  <2>8. Shape(q) /\ q.worker # NoWorker
    BY <2>6, <2>7, Computes DEF Good, Sound, Shape
  <2>9. ~Routed(s, Release) /\ ~Waits(s, Release) /\ ~s.broker.recruit.on
    BY <1>3 DEF Good, Sound, Gates, Accounted
  <2>10. Sound(s, lost, {}) /\ Release \in {Restore, Release}
    BY DEF Good
  <2> QED
    BY <1>3, <2>3, <2>4, <2>6, <2>7, <2>8, <2>9, <2>10, OwnSent DEF q
<1> QED
  BY <1>1, <1>2, <1>3

\* releaseWhenIdle
LEMMA ReleaseWhenIdleGood ==
  ASSUME NEW s, NEW lost, Good(s, lost)
  PROVE  Good(ReleaseWhenIdle(s), lost) /\ Fails(s, ReleaseWhenIdle(s))
<1>1. ReleaseWhenIdle(s) = ResetEpoch(s) \/ ReleaseWhenIdle(s) = s
  BY DEF ReleaseWhenIdle
<1>2. Fails(s, s)
  BY DEF Fails
<1> QED
  BY <1>1, <1>2, ResetEpochGood

\* probeCompute
LEMMA ProbeComputeGood ==
  ASSUME NEW s, NEW lost, Good(s, lost)
  PROVE  Good(ProbeCompute(s), lost) /\ Fails(s, ProbeCompute(s))
<1>1. s \in Handled
  BY DEF Good, Sound, Shape
<1>2. CASE ProbeCompute(s) = s
  BY <1>2 DEF Fails
<1>3. CASE ProbeCompute(s) = [s EXCEPT !.broker.probing = TRUE]
  <2> DEFINE q == ProbeCompute(s)
  <2>1. q = [s EXCEPT !.broker.probing = TRUE]
    BY <1>3
  <2> HIDE DEF q
  <2>2. q \in Handled /\ SameRouting(s, q)
    BY <1>1, <2>1 DEF Handled, BrokerState, SameRouting
  <2>3. /\ q.broker.recruit = s.broker.recruit /\ q.broker.ports = s.broker.ports
        /\ q.broker.holders = s.broker.holders /\ q.broker.kind = s.broker.kind
        /\ q.status = s.status /\ q.log = s.log
    BY <1>1, <2>1 DEF Handled, BrokerState
  <2>4. Shape(q)
    BY <2>2, <2>3 DEF Good, Sound, Shape
  <2>5. q.broker.recruit.on => s.worker = NoWorker
    BY <2>3 DEF Good, Sound, Gates
  <2> QED  BY <2>2, <2>4, <2>5, Framed DEF Good, q
<1> QED
  BY <1>2, <1>3 DEF ProbeCompute

(*****************************************************************************)
(* The request in hand.                                                      *)
(*****************************************************************************)
\* rememberPort: the newest ports, each once.
LEMMA RememberPortSound ==
  ASSUME NEW s, NEW lost, NEW hand, Sound(s, lost, hand), NEW t \in Tabs
  PROVE  LET q == RememberPort(s, t)
         IN  /\ Sound(q, lost, hand) /\ (Flushed(s) => Flushed(q)) /\ Fails(s, q)
             /\ q.broker.holders = s.broker.holders /\ q.broker.kind = s.broker.kind
             /\ q.driver = s.driver /\ q.conn = s.conn /\ q.status = s.status
             /\ q.inbox = s.inbox
<1> DEFINE old == s.broker.ports
           others == RemoveFirst(old, t)
           ports == Append(others, t)
           kept == IF Len(ports) > Candidates THEN Tail(ports) ELSE ports
           q == RememberPort(s, t)
<1>1. s \in Handled /\ old \in Seq(Tabs) /\ IsInjective(old) /\ Len(old) <= Candidates
  BY DEF Sound, Shape, Handled, BrokerState
<1>2. /\ others \in Seq(Tabs) /\ IsInjective(others) /\ Len(others) <= Len(old)
      /\ \A i \in DOMAIN others : others[i] # t
  <2>1. CASE \A i \in DOMAIN old : old[i] # t
    <3>1. others = old
      <4> HIDE DEF old
      <4> QED  BY <1>1, <2>1, FirstRemoved
    <3> QED  BY <3>1, <2>1, <1>1
  <2>2. ASSUME NEW k \in DOMAIN old, old[k] = t
        PROVE  /\ others \in Seq(Tabs) /\ IsInjective(others) /\ Len(others) <= Len(old)
               /\ \A i \in DOMAIN others : others[i] # t
    <3> HIDE DEF old
    <3>1. /\ others \in Seq(Tabs) /\ Len(others) = Len(old) - 1
          /\ \A i \in 1..(Len(old) - 1) : others[i] = IF i < k THEN old[i] ELSE old[i + 1]
      BY <1>1, <2>2, FirstRemoved
    <3>2. /\ Len(old) \in Nat /\ DOMAIN old = 1..Len(old) /\ k \in 1..Len(old)
          /\ DOMAIN others = 1..(Len(old) - 1)
      BY <1>1, <2>2, <3>1
    <3> DEFINE At(i) == IF i < k THEN i ELSE i + 1
    <3> HIDE DEF others
    <3>3. \A i \in DOMAIN others : At(i) \in DOMAIN old /\ At(i) # k /\ others[i] = old[At(i)]
      BY <3>1, <3>2
    <3>4. \A i, j \in DOMAIN others : i # j => At(i) # At(j)
      BY <3>2
    <3> HIDE DEF At
    <3>5. IsInjective(others) /\ \A i \in DOMAIN others : others[i] # t
      BY <3>3, <3>4, <1>1, <2>2 DEF IsInjective
    <3> QED  BY <3>1, <3>2, <3>5
  <2> QED  BY <2>1, <2>2
<1> HIDE DEF others
<1>3. /\ ports \in Seq(Tabs) /\ Len(ports) = Len(others) + 1 /\ Len(others) \in Nat
      /\ \A i \in 1..Len(others) : ports[i] = others[i]
      /\ ports[Len(others) + 1] = t
      /\ DOMAIN ports = 1..Len(ports) /\ DOMAIN others = 1..Len(others)
  BY <1>2
<1>4. IsInjective(ports)
  <2> HIDE DEF ports
  <2> QED  BY <1>2, <1>3 DEF IsInjective
<1>5. Candidates \in Nat /\ Len(old) \in Nat
  BY <1>1, BrokerConstants
<1> HIDE DEF ports
<1>6. kept \in Seq(Tabs) /\ IsInjective(kept) /\ Len(kept) <= Candidates
  <2>1. CASE Len(ports) > Candidates
    <3>1. ports # <<>> /\ Len(ports) <= Candidates + 1
      BY <1>1, <1>2, <1>3, <1>5, <2>1
    <3>2. /\ Tail(ports) \in Seq(Tabs) /\ Len(Tail(ports)) = Len(ports) - 1
          /\ \A i \in 1..(Len(ports) - 1) : Tail(ports)[i] = ports[i + 1]
          /\ DOMAIN Tail(ports) = 1..(Len(ports) - 1)
      BY <1>3, <3>1
    <3>3. IsInjective(Tail(ports))
      BY <1>3, <1>4, <3>2 DEF IsInjective
    <3>4. Len(Tail(ports)) <= Candidates
      BY <1>3, <1>5, <3>1, <3>2
    <3> QED  BY <2>1, <3>2, <3>3, <3>4
  <2>2. CASE ~(Len(ports) > Candidates)
    BY <2>2, <1>3, <1>4, <1>5
  <2> QED  BY <2>1, <2>2
<1>7. q = [s EXCEPT !.broker.ports = kept]
  BY Zenon DEF RememberPort, ports, others
<1> HIDE DEF kept, q, old
<1>8. q \in Handled /\ SameRouting(s, q) /\ q.driver = s.driver /\ q.conn = s.conn /\ q.inbox = s.inbox
  BY <1>1, <1>6, <1>7 DEF Handled, BrokerState, SameRouting
<1>9. /\ q.broker.recruit = s.broker.recruit /\ q.broker.ports = kept
      /\ q.broker.holders = s.broker.holders /\ q.broker.kind = s.broker.kind
      /\ q.status = s.status /\ q.log = s.log
  BY <1>1, <1>7 DEF Handled, BrokerState
<1>10. Shape(q)
  BY <1>6, <1>8, <1>9 DEF Sound, Shape
<1>11. q.broker.recruit.on => s.worker = NoWorker
  BY <1>9 DEF Sound, Gates
<1> QED
  BY <1>8, <1>9, <1>10, <1>11, Framed DEF q

\* An answer is one of two.
LEMMA Outcomes ==
  ASSUME NEW ok \in BOOLEAN
  PROVE  Outcome(ok) \in {"ok", "failed"} /\ (Outcome(ok) = "ok" => ok)
  BY DEF Outcome

\* The request in hand is answered.
LEMMA AnswerSound ==
  ASSUME NEW s, NEW lost, NEW id, Sound(s, lost, {id}), NEW ok \in BOOLEAN
  PROVE  LET q == Answer(s, id, ok)
         IN  /\ Sound(q, lost, {}) /\ (Flushed(s) => Flushed(q))
             /\ Answered(s, q, id, Outcome(ok))
<1> DEFINE r == s.log[id]
           t == r.tab
           told == s.conn[t] = "live"
           left == r.op \in {"close", "destroy"} /\ s.driver[t] # "destroyed"
           q == Answer(s, id, ok)
<1>1. /\ s \in Handled /\ id \in Numbers(s) /\ s.status[id] = "pending"
      /\ Len(s.status) = Len(s.log)
  BY DEF Sound, Shape, Accounted
<1>2. r \in Request /\ t \in Tabs /\ s.status \in Seq(Response) /\ id \in DOMAIN s.status
  <2>1. s.log \in Seq(Request) /\ s.status \in Seq(Response) /\ Len(s.log) \in Nat
    BY <1>1 DEF Handled
  <2>2. id \in 1..Len(s.log) /\ id \in DOMAIN s.status
    BY <1>1, <2>1 DEF Numbers
  <2>3. r \in Request
    BY <2>1, <2>2
  <2> QED  BY <2>1, <2>2, <2>3 DEF Request
<1>3. PICK v \in Response : v = Outcome(ok)
  BY Outcomes DEF Response
<1>4. PICK d \in Drivers : d = IF told THEN Settled(r.op, ok, s.driver[t]) ELSE s.driver[t]
  <2>1. s.driver[t] \in Drivers
    BY <1>1, <1>2 DEF Handled
  <2>2. Settled(r.op, ok, s.driver[t]) \in Drivers
    BY <2>1 DEF Settled, Drivers
  <2> QED  BY <2>1, <2>2
<1>5. PICK c \in {"away", "live", "closed", "gone"} :
        c = IF told /\ ok /\ s.conn[t] = "live" /\ r.op \in {"close", "destroy"}
               /\ s.driver[t] # "destroyed" THEN "closed" ELSE s.conn[t]
  BY <1>1, <1>2 DEF Handled
<1>6. PICK x \in Seq(ControlMessage) :
        x = IF told /\ ok /\ r.op \in {"close", "destroy"}
               /\ s.driver[t] # "destroyed" THEN <<>> ELSE s.inbox[t]
  <2>1. <<>> \in Seq(ControlMessage) /\ s.inbox[t] \in Seq(ControlMessage)
    BY <1>1, <1>2 DEF Handled
  <2> QED  BY <2>1
<1>7. q = [s EXCEPT !.status[id] = v, !.driver[t] = d, !.conn[t] = c, !.inbox[t] = x]
  BY <1>1, <1>3, <1>4, <1>5, <1>6, Zenon DEF Answer, Outcome
<1> HIDE DEF r, t, told, left, q
<1>8. [s.status EXCEPT ![id] = v] \in Seq(Response)
  BY <1>2
<1>9. /\ q \in Handled /\ q.broker = s.broker /\ q.worker = s.worker /\ q.log = s.log
      /\ q.status = [s.status EXCEPT ![id] = v]
  BY <1>1, <1>2, <1>7, <1>8 DEF Handled
<1>10. Len(q.status) = Len(s.status)
  BY <1>2, <1>9
<1>11. Shape(q)
  BY <1>9, <1>10 DEF Sound, Shape
<1>12. /\ v # "pending"
       /\ \A f \in Numbers(s) : q.status[f] = IF f = id THEN v ELSE s.status[f]
  <2>1. v # "pending"
    BY <1>3, Outcomes
  <2>2. DOMAIN s.status = Numbers(s)
    BY <1>1, <1>2 DEF Numbers
  <2> QED  BY <2>1, <2>2, <1>9
<1>13. /\ Numbers(q) = Numbers(s)
       /\ \A f : Routed(q, f) <=> Routed(s, f)
       /\ \A f : Waits(q, f) <=> Waits(s, f)
  BY <1>9 DEF Numbers, Routed, Waits
<1>14. Accounted(q, {})
  <2>1. id # Restore /\ id # Release
    BY <1>1 DEF Numbers, Restore, Release
  <2>2. \A f : Routed(s, f) \/ Waits(s, f) => f # id
    BY <2>1 DEF Sound, Accounted
  <2>3. \A f : Routed(q, f) \/ Waits(q, f) => f \in (Numbers(q) \ {}) \cup {Restore, Release}
    BY <1>13 DEF Sound, Accounted
  <2>4. \A f \in Numbers(q) : q.status[f] = "pending" <=> Routed(q, f) \/ Waits(q, f) \/ f \in {}
    BY <1>12, <1>13, <2>2 DEF Sound, Accounted
  <2> QED  BY <1>9, <1>13, <2>3, <2>4 DEF Sound, Accounted
<1>15. Gates(q, lost) /\ Linked(q, lost) /\ (Flushed(s) => Flushed(q))
  BY <1>9 DEF Sound, Gates, Linked, Flushed, Routed, Waits
<1> QED
  <2>1. Answered(s, q, id, v)
    BY <1>9 DEF Answered
  <2>2. Sound(q, lost, {}) /\ (Flushed(s) => Flushed(q))
    BY <1>9, <1>11, <1>14, <1>15 DEF Sound
  <2> QED  BY <2>1, <2>2, <1>3, Zenon DEF q

\* onFailure of an open
LEMMA UndoHolderSound ==
  ASSUME NEW s, NEW lost, NEW hand, Sound(s, lost, hand), NEW id
  PROVE  LET q == UndoHolder(s, id)
         IN  Sound(q, lost, hand) /\ (Flushed(s) => Flushed(q)) /\ q.log = s.log /\ q.status = s.status
<1> DEFINE rest == s.broker.holders \ {s.log[id].tab}
           q == UndoHolder(s, id)
<1>1. s \in Handled /\ s.broker.kind \in Kinds /\ s.broker.holders \subseteq Tabs
  BY DEF Sound, Shape, Handled, BrokerState
<1>2. CASE ~s.log[id].undo
  BY <1>2 DEF UndoHolder
<1>3. CASE s.log[id].undo
  <2>1. PICK k \in Kinds : k = IF rest = {} THEN "none" ELSE s.broker.kind
    BY <1>1 DEF Kinds
  <2>2. q = [s EXCEPT !.broker.holders = rest, !.broker.kind = k]
    BY <1>3, <2>1, Zenon DEF UndoHolder
  <2>3. rest \subseteq Tabs /\ ((k = "none") <=> (rest = {}))
    BY <1>1, <2>1 DEF Sound, Shape
  <2> HIDE DEF rest, q
  <2>4. q \in Handled /\ SameRouting(s, q)
    BY <1>1, <2>2, <2>3 DEF Handled, BrokerState, SameRouting
  <2>5. /\ q.broker.recruit = s.broker.recruit /\ q.broker.ports = s.broker.ports
        /\ q.broker.holders = rest /\ q.broker.kind = k
        /\ q.status = s.status /\ q.log = s.log
    BY <1>1, <2>2 DEF Handled, BrokerState
  <2>6. Shape(q)
    BY <2>3, <2>4, <2>5 DEF Sound, Shape
  <2>7. q.broker.recruit.on => s.worker = NoWorker
    BY <2>5 DEF Sound, Gates
  <2> QED  BY <2>4, <2>5, <2>6, <2>7, Framed DEF q
<1> QED
  BY <1>2, <1>3

\* The newest request in hand is sent or waits.
LEMMA ForwardGood ==
  ASSUME NEW s, NEW lost, NEW id, Sound(s, lost, {id}), Flushed(s), id = Len(s.log)
  PROVE  Good(Forward(s, id), lost) /\ Fails(s, Forward(s, id))
<1>1. /\ s \in Handled /\ id \in Numbers(s) /\ id \in Int /\ id > 0 /\ <<id>> \in Seq(Int)
      /\ s.broker.backlog \in Seq(Int) /\ s.broker.routes \in Seq(Int)
      /\ id # Restore /\ id # Release
  BY DEF Sound, Shape, Accounted, Handled, BrokerState, Numbers, Restore, Release
<1>2. /\ \A f : Routed(s, f) \/ Waits(s, f) => f < id
      /\ s.status[id] = "pending"
  <2>1. \A f \in Numbers(s) : f # id => f < id
    BY <1>1 DEF Numbers
  <2>2. Restore < id /\ Release < id
    BY <1>1 DEF Restore, Release
  <2>3. \A f : Routed(s, f) \/ Waits(s, f) => f \in (Numbers(s) \ {id}) \cup {Restore, Release}
    BY DEF Sound, Accounted
  <2>4. s.status[id] = "pending"
    BY <1>1 DEF Sound, Accounted
  <2> QED  BY <2>1, <2>2, <2>3, <2>4
<1>3. /\ \A i \in DOMAIN s.broker.routes : s.broker.routes[i] < id
      /\ \A i \in DOMAIN s.broker.backlog : s.broker.backlog[i] < id
  BY <1>1, <1>2 DEF Routed, Waits, Contains
<1>4. Fine(<<id>>) /\ Fine(<<>>) /\ DOMAIN <<>> = {} /\ DOMAIN <<id>> = {1} /\ <<id>>[1] = id
  BY <1>1 DEF Fine, IsInjective
<1>5. \A x \in Seq(Int) : \A f : Contains(x \o <<id>>, f) <=> Contains(x, f) \/ f = id
  BY <1>1, AppendedMembers
<1>6. CASE s.worker # NoWorker /\ s.broker.ready
  <2> DEFINE q == SendAll(s, <<id>>)
  <2>1. Forward(s, id) = q
    BY <1>6, Zenon DEF Forward, Send
  <2>2. s.broker.backlog = <<>> /\ s.worker \in ComputeState
    BY <1>1, <1>6, Computes DEF Flushed, Handled
  <2>3. /\ q \in Handled /\ q.worker \in ComputeState
        /\ q.worker.host = s.worker.host /\ q.worker.alive = s.worker.alive
        /\ q.worker.queue = s.worker.queue \o <<id>>
        /\ q.broker.routes = s.broker.routes \o <<id>>
        /\ q.broker.backlog = s.broker.backlog
        /\ q.broker.ready = s.broker.ready /\ q.broker.restore = s.broker.restore
        /\ q.broker.retiring = s.broker.retiring /\ q.broker.canHost = s.broker.canHost
        /\ q.broker.holders = s.broker.holders /\ q.broker.kind = s.broker.kind
        /\ q.broker.ports = s.broker.ports /\ q.broker.recruit = s.broker.recruit
        /\ q.status = s.status /\ q.log = s.log
    BY <1>1, <2>2, SendAllDoes, Zenon
  <2> HIDE DEF q
  <2>4. q.worker # NoWorker
    BY <2>3, Computes
  <2>5. Shape(q)
    BY <2>3 DEF Sound, Shape
  <2>6. /\ \A f : Routed(q, f) <=> Routed(s, f) \/ f = id
        /\ \A f : ~Waits(q, f) /\ ~Waits(s, f)
    <3>1. \A f : Contains(s.broker.routes \o <<id>>, f) <=> Contains(s.broker.routes, f) \/ f = id
      BY <1>1, <1>5, Zenon
    <3>2. \A f : Routed(q, f) <=> Routed(s, f) \/ f = id
      BY <3>1, <2>3, Zenon DEF Routed
    <3> QED  BY <3>2, <2>2, <2>3 DEF Waits, Contains
  <2>7. Accounted(q, {})
    <3>1. Chain(s.broker.routes, <<id>>)
      BY <1>1, <1>3, <1>4 DEF Sound, Accounted, Chain
    <3>2. Fine(s.broker.routes \o <<id>>)
      BY <3>1, ChainJoined
    <3>3. Chain(q.broker.routes, q.broker.backlog)
      BY <3>2, <2>2, <2>3, <1>4 DEF Chain
    <3>4. \A f : Routed(q, f) \/ Waits(q, f) => f \in (Numbers(q) \ {}) \cup {Restore, Release}
      BY <1>1, <2>3, <2>6 DEF Sound, Accounted, Numbers
    <3>5. \A f \in Numbers(q) : q.status[f] = "pending" <=> Routed(q, f) \/ Waits(q, f) \/ f \in {}
      BY <1>2, <2>3, <2>6 DEF Sound, Accounted, Numbers
    <3>6. ~Waits(q, Release) /\ {} \subseteq Numbers(q)
      BY <2>6
    <3> QED  BY <3>3, <3>4, <3>5, <3>6, Zenon DEF Accounted
  <2>8. Gates(q, lost)
    BY <1>1, <1>6, <2>3, <2>4, <2>6 DEF Sound, Gates
  <2>9. Linked(q, lost)
    <3>1. s.worker.queue \in Seq(Int)
      BY <2>2 DEF ComputeState
    <3>2. s.worker.alive => Trails(s.broker.routes \o <<id>>, s.worker.queue \o <<id>>, lost)
      BY <3>1, <1>1, <1>6, TrailsJoined DEF Sound, Linked
    <3> QED  BY <3>2, <2>3, <2>4 DEF Linked
  <2>10. Flushed(q) /\ Fails(s, q)
    BY <2>2, <2>3 DEF Flushed, Fails
  <2> QED  BY <2>1, <2>5, <2>7, <2>8, <2>9, <2>10 DEF Good, Sound
<1>7. CASE ~(s.worker # NoWorker /\ s.broker.ready)
  <2> DEFINE q == [s EXCEPT !.broker.backlog = Append(@, id)]
  <2>1. PICK x \in Seq(Int) : x = s.broker.backlog \o <<id>> /\ x = Append(s.broker.backlog, id)
    BY <1>1, OwnAppended, Zenon
  <2>2. q = [s EXCEPT !.broker.backlog = x]
    BY <2>1, Zenon
  <2> HIDE DEF q
  <2>3. q \in Handled /\ q.worker = s.worker /\ q.status = s.status /\ q.log = s.log
    BY <1>1, <2>2 DEF Handled, BrokerState
  <2>4. /\ q.broker.routes = s.broker.routes /\ q.broker.backlog = x
        /\ q.broker.ready = s.broker.ready /\ q.broker.restore = s.broker.restore
        /\ q.broker.retiring = s.broker.retiring /\ q.broker.canHost = s.broker.canHost
        /\ q.broker.holders = s.broker.holders /\ q.broker.kind = s.broker.kind
        /\ q.broker.ports = s.broker.ports /\ q.broker.recruit = s.broker.recruit
    BY <1>1, <2>2 DEF Handled, BrokerState
  <2>5. Shape(q)
    BY <2>3, <2>4 DEF Sound, Shape
  <2>6. /\ \A f : Routed(q, f) <=> Routed(s, f)
        /\ \A f : Waits(q, f) <=> Waits(s, f) \/ f = id
    <3>1. \A f : Contains(s.broker.backlog \o <<id>>, f) <=> Contains(s.broker.backlog, f) \/ f = id
      BY <1>1, <1>5, Zenon
    <3>2. \A f : Waits(q, f) <=> Waits(s, f) \/ f = id
      BY <3>1, <2>1, <2>4, Zenon DEF Waits
    <3> QED  BY <3>2, <2>4 DEF Routed
  <2>7. Accounted(q, {})
    <3>1. Chain(s.broker.backlog, <<id>>)
      BY <1>1, <1>3, <1>4 DEF Sound, Accounted, Chain
    <3>2. Fine(x)
      BY <3>1, <2>1, ChainJoined
    <3>3. Chain(q.broker.routes, q.broker.backlog)
      <4>1. \A i \in DOMAIN x : (i \in DOMAIN s.broker.backlog /\ x[i] = s.broker.backlog[i]) \/ x[i] = id
        BY <1>1, <2>1, SMTT(30)
      <4> QED  BY <4>1, <3>2, <1>3, <2>4 DEF Sound, Accounted, Chain
    <3>4. \A f : Routed(q, f) \/ Waits(q, f) => f \in (Numbers(q) \ {}) \cup {Restore, Release}
      BY <1>1, <2>3, <2>6 DEF Sound, Accounted, Numbers
    <3>5. \A f \in Numbers(q) : q.status[f] = "pending" <=> Routed(q, f) \/ Waits(q, f) \/ f \in {}
      BY <1>2, <2>3, <2>6 DEF Sound, Accounted, Numbers
    <3>6. ~Waits(q, Release) /\ {} \subseteq Numbers(q)
      BY <1>1, <2>6 DEF Sound, Accounted
    <3> QED  BY <3>3, <3>4, <3>5, <3>6, Zenon DEF Accounted
  <2>8. Gates(q, lost)
    BY <1>1, <2>3, <2>4, <2>6 DEF Sound, Gates
  <2>9. Linked(q, lost)
    BY <2>3, <2>4 DEF Sound, Linked
  <2>10. Flushed(q) /\ Fails(s, q)
    BY <1>7, <2>3, <2>4 DEF Flushed, Fails
  <2>11. Good(q, lost) /\ Fails(s, q)
    BY <2>5, <2>7, <2>8, <2>9, <2>10 DEF Good, Sound
  <2>12. <<s.log[id].tab>> \in Seq(Tabs)
    <3>1. s.log \in Seq(Request) /\ id \in 1..Len(s.log)
      BY <1>1 DEF Handled, Numbers
    <3>2. s.log[id] \in Request
      BY <3>1
    <3>3. s.log[id].tab \in Tabs
      BY <3>2 DEF Request
    <3> QED  BY <3>3
  <2>13. /\ Good(RequestSpawn(q, <<s.log[id].tab>>), lost)
         /\ Fails(q, RequestSpawn(q, <<s.log[id].tab>>))
    BY <2>11, <2>12, RequestSpawnGood
  <2>14. Forward(s, id) = q \/ Forward(s, id) = RequestSpawn(q, <<s.log[id].tab>>)
    BY <1>7 DEF Forward, q
  <2> QED  BY <2>11, <2>13, <2>14, FailsOnwards
<1> QED
  BY <1>6, <1>7

(*****************************************************************************)
(* Steps, and what they must satisfy to be steps of the service.             *)
(*****************************************************************************)
\* After a handler, the state is the handler's result.
LEMMA Became ==
  ASSUME NEW s \in Handled, Become(s)
  PROVE  Now' = s
<1>1. s = [broker |-> s.broker, worker |-> s.worker, inbox |-> s.inbox, status |-> s.status,
           conn |-> s.conn, driver |-> s.driver, log |-> s.log]
  BY DEF Handled
<1>2. Now' = [broker |-> broker', worker |-> worker', inbox |-> inbox', status |-> status',
              conn |-> conn', driver |-> driver', log |-> log']
  BY DEF Now
<1> QED
  BY <1>1, <1>2 DEF Become

\* The state of the broker and its surroundings, field by field.
LEMMA NowFields ==
  /\ Now.broker = broker /\ Now.worker = worker /\ Now.inbox = inbox
  /\ Now.status = status /\ Now.conn = conn /\ Now.driver = driver /\ Now.log = log
  BY DEF Now

\* What a step must satisfy to be one of the service.
LEMMA ServiceStep ==
  ASSUME log \in Seq(Request), log' \in Seq(Request),
         \/ log' = log
         \/ Len(log') = Len(log) + 1 /\ \A i \in 1..Len(log) : log'[i] = log[i],
         \A id \in Ids : status[id] # "pending" => status'[id] = status[id],
         \A id \in Ids' : status'[id] = "ok" => id \in ran' \/ log'[id].op = "close",
         ran \subseteq ran',
         \A j \in ran' \ ran :
            j \in Ids /\ \A i \in Ids : i < j =>
               i \in ran' \/ status[i] # "pending" \/ i \in stranded,
         \A id \in Ids : id \in stranded => id \in stranded',
         \A id \in Ids : id \in stranded' => id \in stranded \/ status[id] = "pending"
  PROVE  Service!Next
<1> DEFINE req == [id \in Ids |-> [tab |-> log[id].tab, local |-> log[id].op = "close"]]
           was == [id \in Ids |-> IF id \in stranded THEN "failed" ELSE status[id]]
<1>1. Ids = 1..Len(log) /\ Ids' = 1..Len(log') /\ Len(log) \in Nat /\ Len(log') \in Nat
  BY DEF Ids
<1>2. Ids \subseteq Ids' /\ (\A i \in Ids : log'[i] = log[i])
  BY <1>1
<1>3. /\ req' = [id \in Ids' |-> [tab |-> log'[id].tab, local |-> log'[id].op = "close"]]
      /\ was' = [id \in Ids' |-> IF id \in stranded' THEN "failed" ELSE status'[id]]
  OBVIOUS
<1>4. Service!Post \/ req' = req
  <2>1. CASE log' = log
    <3>1. Ids' = Ids
      BY <2>1, <1>1
    <3> QED  BY <2>1, <3>1, <1>3
  <2>2. CASE Len(log') = Len(log) + 1 /\ \A i \in 1..Len(log) : log'[i] = log[i]
    <3> DEFINE R(id) == [tab |-> log[id].tab, local |-> log[id].op = "close"]
               T(id) == [tab |-> log'[id].tab, local |-> log'[id].op = "close"]
    <3>1. \A i \in Ids : R(i) = T(i)
      BY <1>2
    <3>2. req = [id \in 1..Len(log) |-> R(id)] /\ req' = [id \in 1..(Len(log) + 1) |-> T(id)]
      BY <1>1, <1>3, <2>2, Zenon
    <3> DEFINE n == Len(log)
    <3>3. n \in Nat
      BY <1>1
    <3> HIDE DEF R, T, req, n
    <3>4. req = [id \in 1..n |-> R(id)] /\ req' = [id \in 1..(n + 1) |-> T(id)]
      BY <3>2, Zenon DEF n
    <3>5. Len(req) = n /\ Len(req') = n + 1
      BY <3>3, <3>4
    <3>6. SubSeq(req', 1, n) = [id \in 1..n |-> T(id)]
      BY <3>3, <3>4
    <3>7. [id \in 1..n |-> T(id)] = req
      BY <3>1, <3>4, <1>1 DEF n
    <3> QED  BY <3>5, <3>6, <3>7, Zenon DEF Service!Post, req
  <2> QED  BY <2>1, <2>2
<1>5. Service!RunInOrder
  <2>1. ran \subseteq ran'
    OBVIOUS
  <2>2. ASSUME NEW j \in ran' \ ran, NEW i \in Ids', i < j
        PROVE  i \in ran' \/ was[i] # "pending"
    <3>1. j \in Ids
      OBVIOUS
    <3>2. i \in Ids
      BY <2>2, <3>1, <1>1
    <3>3. i \in ran' \/ status[i] # "pending" \/ i \in stranded
      BY <2>2, <3>2
    <3> QED  BY <3>2, <3>3
  <2>3. DOMAIN req' = Ids'
    BY <1>3
  <2> HIDE DEF req, was
  <2> QED
    BY <2>1, <2>2, <2>3, Zenon DEF Service!RunInOrder, Service!Earlier, req, was
<1>6. Service!AnswerOnce
  <2>1. ASSUME NEW i \in Ids, was[i] # "pending"  PROVE  was'[i] = was[i]
    BY <2>1, <1>2, <1>3
  <2>2. ASSUME NEW i \in Ids', was'[i] = "ok"  PROVE  i \in ran' \/ req'[i].local
    BY <2>2, <1>3
  <2>3. DOMAIN req = Ids /\ DOMAIN req' = Ids'
    BY <1>3
  <2> QED
    BY <2>1, <2>2, <2>3, Zenon DEF Service!AnswerOnce, Service!Ids
<1> QED
  BY <1>4, <1>5, <1>6, Zenon DEF Service!Next

\* A sequence with one more element has a name.
LEMMA AppendTyped ==
  ASSUME NEW S, NEW x \in Seq(S), NEW e \in S
  PROVE  \E y \in Seq(S) : y = Append(x, e)
<1>1. Append(x, e) \in Seq(S)
  OBVIOUS
<1> QED  BY <1>1, Zenon

\* The types that the invariant gives.
LEMMA Known ==
  ASSUME IInv
  PROVE  /\ Now \in Handled /\ log \in Seq(Request) /\ status \in Seq(Response)
         /\ Len(status) = Len(log) /\ Len(log) \in Nat
         /\ Ids = 1..Len(log) /\ Numbers(Now) = Ids
         /\ worker \in ComputeState \cup {NoWorker} /\ broker \in BrokerState
         /\ conn \in [Tabs -> {"away", "live", "closed", "gone"}]
         /\ driver \in [Tabs -> Drivers] /\ inbox \in [Tabs -> Seq(ControlMessage)]
  BY NowFields DEF IInv, Good, Sound, Shape, Handled, Ids, Numbers

\* A handler of the broker ran, and no request was posted or executed.
LEMMA QuietStep ==
  ASSUME IInv, NEW s, Good(s, stranded), Fails(Now, s), Become(s),
         ran' = ran, stranded' = stranded, PortsTyped'
  PROVE  IInv' /\ Service!Next
<1>1. Now' = s
  BY Became DEF Good, Sound, Shape
<1>2. Good(Now, stranded)'
  BY <1>1
<1>3. /\ log' = log
      /\ \A id \in Ids : \/ status'[id] = status[id]
                         \/ status[id] = "pending" /\ status'[id] = "failed"
  BY Known, NowFields DEF Fails, Become
<1>4. Ids' = Ids
  BY <1>3 DEF Ids
<1>5. RanTyped' /\ OkRan'
  BY <1>3, <1>4 DEF IInv, RanTyped, OkRan
<1>6. Service!Next
  BY <1>3, <1>4, <1>5, Known, ServiceStep DEF OkRan
<1> QED
  BY <1>2, <1>5, <1>6 DEF IInv

\* A tab posted a request, which the broker handled.
LEMMA PostedStep ==
  ASSUME IInv, NEW rec \in Request, NEW s, Good(s, stranded), s.log = Append(log, rec),
         \A id \in Ids : \/ s.status[id] = status[id]
                         \/ status[id] = "pending" /\ s.status[id] = "failed",
         s.status[Id] = "ok" => rec.op = "close",
         Posted(s)
  PROVE  IInv' /\ Service!Next
<1>1. Become(s) /\ ran' = ran /\ transit' = transit /\ stranded' = stranded
  BY DEF Posted
<1>2. Now' = s
  BY <1>1, Became DEF Good, Sound, Shape
<1>3. Good(Now, stranded)'
  BY <1>1, <1>2
<1>4. log' = Append(log, rec) /\ status' = s.status
  BY <1>1 DEF Become
<1>5. /\ log' \in Seq(Request) /\ Len(log') = Len(log) + 1 /\ log'[Id] = rec
      /\ \A i \in 1..Len(log) : log'[i] = log[i]
  BY <1>4, Known DEF Id
<1>7. /\ Ids = 1..Len(log) /\ Ids' = 1..(Len(log) + 1) /\ Len(log) \in Nat /\ Id = Len(log) + 1
      /\ Ids' = Ids \cup {Id}
  BY <1>5, Known DEF Ids, Id
<1>8. RanTyped'
  BY <1>1, <1>7 DEF RanTyped, IInv
<1>9. OkRan'
  <2> SUFFICES ASSUME NEW id \in Ids', status'[id] = "ok"
               PROVE  id \in ran' \/ log'[id].op = "close"
    BY DEF OkRan
  <2>1. CASE id \in Ids
    BY <2>1, <1>1, <1>4, <1>5, <1>7 DEF IInv, OkRan
  <2>2. CASE id = Id
    BY <2>2, <1>4, <1>5
  <2> QED  BY <2>1, <2>2, <1>7
<1>10. Service!Next
  <2>1. \A id \in Ids : status[id] # "pending" => status'[id] = status[id]
    BY <1>4
  <2>2. \A id \in Ids : id \in stranded' => id \in stranded
    BY <1>1
  <2>3. \A id \in Ids' : status'[id] = "ok" => id \in ran' \/ log'[id].op = "close"
    BY <1>9 DEF OkRan
  <2> QED  BY <2>1, <2>2, <2>3, <1>1, <1>5, Known, ServiceStep
<1> QED
  BY <1>1, <1>3, <1>8, <1>9, <1>10 DEF IInv, PortsTyped

\* A posted request is in hand, and its port remembered.
LEMMA Posting ==
  ASSUME IInv, NEW t \in Tabs, NEW op \in {"open", "join", "close", "work", "destroy"},
         NEW kind \in Kinds, NEW undo \in BOOLEAN
  PROVE  LET rec == [tab |-> t, op |-> op, kind |-> kind, undo |-> undo]
             p == Post(t, op, kind, undo)
         IN  /\ rec \in Request /\ Sound(p, stranded, {Id}) /\ Flushed(p)
             /\ p.log = Append(log, rec) /\ p.status = Append(status, "pending")
             /\ p.broker.holders = broker.holders /\ p.broker.kind = broker.kind
             /\ p.driver = driver /\ p.conn = conn /\ p.inbox = inbox
<1> DEFINE rec == [tab |-> t, op |-> op, kind |-> kind, undo |-> undo]
           b == [Now EXCEPT !.log = Append(@, rec), !.status = Append(@, "pending")]
           p == Post(t, op, kind, undo)
<1>1. rec \in Request
  BY DEF Request, Kinds
<1>2. PICK l \in Seq(Request) : l = Append(log, rec)
  BY <1>1, Known, AppendTyped, Zenon
<1>3. PICK u \in Seq(Response) : u = Append(status, "pending")
  <2>1. "pending" \in Response
    BY DEF Response
  <2> QED  BY <2>1, Known, AppendTyped, Zenon
<1>4. b = [Now EXCEPT !.log = l, !.status = u]
  BY <1>2, <1>3, NowFields, Zenon
<1>5. p = RememberPort(b, t)
  BY Zenon DEF Post
<1> HIDE DEF rec, b, p
<1>6. /\ b \in Handled /\ b.broker = broker /\ b.worker = worker /\ b.log = l
      /\ b.status = u /\ b.driver = driver /\ b.conn = conn /\ b.inbox = inbox
  BY <1>4, Known, NowFields DEF Handled
<1>7. /\ Len(l) = Len(log) + 1 /\ Len(u) = Len(log) + 1 /\ u[Id] = "pending"
      /\ \A i \in 1..Len(log) : u[i] = status[i]
  BY <1>2, <1>3, Known DEF Id
<1>8. Shape(b)
  BY <1>6, <1>7, NowFields DEF IInv, Good, Sound, Shape
<1>9. /\ \A f : Routed(b, f) <=> Routed(Now, f)
      /\ \A f : Waits(b, f) <=> Waits(Now, f)
  BY <1>6, NowFields DEF Routed, Waits
<1>10. /\ Numbers(Now) = 1..Len(log) /\ Numbers(b) = 1..(Len(log) + 1)
       /\ Id = Len(log) + 1 /\ Len(log) \in Nat
  BY <1>6, <1>7, Known DEF Numbers, Id
<1>11. Numbers(b) = Numbers(Now) \cup {Id} /\ Id \notin Numbers(Now) /\ Id # Restore /\ Id # Release
  BY <1>10 DEF Restore, Release
<1>12. Accounted(b, {Id})
  <2>1. \A f : Routed(Now, f) \/ Waits(Now, f) => f \in (Numbers(Now) \ {}) \cup {Restore, Release}
    BY DEF IInv, Good, Sound, Accounted
  <2>2. \A f : Routed(b, f) \/ Waits(b, f) => f \in (Numbers(b) \ {Id}) \cup {Restore, Release}
    BY <2>1, <1>9, <1>11
  <2>3. \A f \in Numbers(b) : b.status[f] = "pending" <=> Routed(b, f) \/ Waits(b, f) \/ f \in {Id}
    <3> TAKE f \in Numbers(b)
    <3>1. CASE f = Id
      BY <3>1, <1>6, <1>7
    <3>2. CASE f \in Numbers(Now)
      <4>1. status[f] = "pending" <=> Routed(Now, f) \/ Waits(Now, f)
        BY <3>2, NowFields DEF IInv, Good, Sound, Accounted
      <4>2. b.status[f] = status[f] /\ f # Id
        BY <3>2, <1>6, <1>7, <1>10
      <4> QED  BY <4>1, <4>2, <1>9
    <3> QED  BY <3>1, <3>2, <1>11
  <2>4. Chain(b.broker.routes, b.broker.backlog) /\ ~Waits(b, Release) /\ {Id} \subseteq Numbers(b)
    BY <1>6, <1>9, <1>11, NowFields DEF IInv, Good, Sound, Accounted
  <2> QED  BY <2>2, <2>3, <2>4, Zenon DEF Accounted
<1>13. Gates(b, stranded) /\ Linked(b, stranded) /\ Flushed(b)
  BY <1>6, <1>9, NowFields DEF IInv, Good, Sound, Gates, Linked, Flushed
<1>14. Sound(b, stranded, {Id})
  BY <1>8, <1>12, <1>13 DEF Sound
<1>15. /\ Sound(p, stranded, {Id}) /\ (Flushed(b) => Flushed(p)) /\ Fails(b, p)
       /\ p.broker.holders = b.broker.holders /\ p.broker.kind = b.broker.kind
       /\ p.driver = b.driver /\ p.conn = b.conn /\ p.status = b.status
       /\ p.inbox = b.inbox
  BY <1>5, <1>14, RememberPortSound
<1> QED
  BY <1>1, <1>2, <1>3, <1>6, <1>13, <1>15 DEF Fails, rec, p

\* What the handlers of the tabs' requests do besides.
LEMMA Recorded ==
  ASSUME NEW s, NEW lost, NEW hand, Sound(s, lost, hand), NEW q, q \in Handled,
         SameRouting(s, q), q.broker.recruit = s.broker.recruit,
         q.broker.ports = s.broker.ports,
         (q.broker.kind = "none") <=> (q.broker.holders = {})
  PROVE  Sound(q, lost, hand) /\ (Flushed(s) => Flushed(q))
<1>1. Shape(q)
  BY DEF Sound, Shape, SameRouting
<1>2. q.broker.recruit.on => s.worker = NoWorker
  BY DEF Sound, Gates
<1> QED
  BY <1>1, <1>2, Framed

\* A posted request that the broker forwards.
LEMMA ForwardedStep ==
  ASSUME IInv, NEW rec \in Request, NEW q, Sound(q, stranded, {Id}), Flushed(q),
         q.log = Append(log, rec), q.status = Append(status, "pending"),
         Posted(Forward(q, Id))
  PROVE  IInv' /\ Service!Next
<1> DEFINE s == Forward(q, Id)
<1>1. Id = Len(q.log) /\ Numbers(q) = Ids \cup {Id}
  BY Known DEF Id, Numbers
<1>2. Good(s, stranded) /\ Fails(q, s)
  BY <1>1, ForwardGood
<1>3. q.status[Id] = "pending" /\ \A id \in Ids : q.status[id] = status[id]
  BY Known DEF Id
<1> HIDE DEF s
<1>4. s.log = Append(log, rec)
  BY <1>2 DEF Fails
<1>5. \A id \in Ids : \/ s.status[id] = status[id]
                      \/ status[id] = "pending" /\ s.status[id] = "failed"
  BY <1>1, <1>2, <1>3 DEF Fails
<1>6. s.status[Id] # "ok"
  BY <1>1, <1>2, <1>3 DEF Fails
<1> QED
  BY <1>2, <1>4, <1>5, <1>6, PostedStep DEF s

\* A posted request that the broker answers itself.
LEMMA AnsweredStep ==
  ASSUME IInv, NEW rec \in Request, NEW q, Sound(q, stranded, {Id}), Flushed(q),
         q.log = Append(log, rec), q.status = Append(status, "pending"),
         NEW ok \in BOOLEAN, ok => rec.op = "close", Posted(Answer(q, Id, ok))
  PROVE  IInv' /\ Service!Next
<1> DEFINE s == Answer(q, Id, ok)
<1>1. \A b \in BOOLEAN :
         /\ Sound(Answer(q, Id, b), stranded, {}) /\ Flushed(Answer(q, Id, b))
         /\ Answered(q, Answer(q, Id, b), Id, Outcome(b))
  BY AnswerSound, Zenon
<1>2. Sound(s, stranded, {}) /\ Flushed(s) /\ Answered(q, s, Id, Outcome(ok))
  BY <1>1, Zenon
<1> HIDE DEF s
<1>3. PICK v \in Response : (v = "ok" => ok) /\ s.status = [q.status EXCEPT ![Id] = v]
  <2>1. Outcome(ok) \in Response /\ (Outcome(ok) = "ok" => ok)
    BY Outcomes DEF Response
  <2>2. s.status = [q.status EXCEPT ![Id] = Outcome(ok)]
    BY <1>2, Zenon DEF Answered
  <2> QED  BY <2>1, <2>2, Zenon
<1>4. /\ Id \in DOMAIN q.status /\ Ids \subseteq DOMAIN q.status
      /\ \A id \in Ids : id # Id /\ q.status[id] = status[id]
  BY Known DEF Id
<1>5. s.status[Id] = v /\ \A id \in Ids : s.status[id] = status[id]
  BY <1>3, <1>4
<1> QED
  <2>1. Good(s, stranded) /\ s.log = Append(log, rec) /\ (s.status[Id] = "ok" => rec.op = "close")
    BY <1>2, <1>3, <1>5 DEF Good, Answered
  <2> QED  BY <2>1, <1>5, PostedStep, Zenon DEF s

(*****************************************************************************)
(* What the tabs ask.                                                        *)
(*****************************************************************************)
DriverSet(p, q, t, d) == q = [p EXCEPT !.driver[t] = d]
HoldersSet(p, q, t, d, h, k) ==
    q = [p EXCEPT !.driver[t] = d, !.broker.holders = h, !.broker.kind = k]
InboxSet(p, q, t, d, h, k, x) ==
    q = [p EXCEPT !.driver[t] = d, !.broker.holders = h, !.broker.kind = k, !.inbox = x]

\* A driver, the holders and the inboxes are nothing the routing depends on.
LEMMA DriverHeld ==
  ASSUME NEW lost, NEW hand, NEW p, Sound(p, lost, hand), Flushed(p),
         NEW t \in Tabs, NEW d \in Drivers, NEW q, DriverSet(p, q, t, d)
  PROVE  /\ Sound(q, lost, hand) /\ Flushed(q)
         /\ q.log = p.log /\ q.status = p.status
<1>1. p \in Handled /\ ((p.broker.kind = "none") <=> (p.broker.holders = {}))
  BY DEF Sound, Shape
<1>2. q \in Handled /\ SameRouting(p, q) /\ q.broker = p.broker
  BY <1>1 DEF DriverSet, Handled, SameRouting
<1>3. Sound(q, lost, hand) /\ Flushed(q)
  BY <1>1, <1>2, Recorded
<1> QED
  BY <1>2, <1>3 DEF SameRouting

\* The same with the holders,
LEMMA HoldersHeld ==
  ASSUME NEW lost, NEW hand, NEW p, Sound(p, lost, hand), Flushed(p),
         NEW t \in Tabs, NEW d \in Drivers,
         NEW h \in SUBSET Tabs, NEW k \in Kinds, (k = "none") <=> (h = {}),
         NEW q, HoldersSet(p, q, t, d, h, k)
  PROVE  /\ Sound(q, lost, hand) /\ Flushed(q)
         /\ q.log = p.log /\ q.status = p.status
<1>1. p \in Handled
  BY DEF Sound, Shape
<1>2. q \in Handled /\ SameRouting(p, q)
  BY <1>1 DEF HoldersSet, Handled, BrokerState, SameRouting
<1>3. /\ q.broker.recruit = p.broker.recruit /\ q.broker.ports = p.broker.ports
      /\ q.broker.kind = k /\ q.broker.holders = h
  BY <1>1 DEF HoldersSet, Handled, BrokerState
<1>4. Sound(q, lost, hand) /\ Flushed(q)
  BY <1>2, <1>3, Recorded
<1> QED
  BY <1>2, <1>4 DEF SameRouting

\* and with the inboxes.
LEMMA InboxHeld ==
  ASSUME NEW lost, NEW hand, NEW p, Sound(p, lost, hand), Flushed(p),
         NEW t \in Tabs, NEW d \in Drivers,
         NEW h \in SUBSET Tabs, NEW k \in Kinds, (k = "none") <=> (h = {}),
         NEW x \in [Tabs -> Seq(ControlMessage)],
         NEW q, InboxSet(p, q, t, d, h, k, x)
  PROVE  /\ Sound(q, lost, hand) /\ Flushed(q)
         /\ q.log = p.log /\ q.status = p.status
<1>1. p \in Handled
  BY DEF Sound, Shape
<1>2. q \in Handled /\ SameRouting(p, q)
  BY <1>1 DEF InboxSet, Handled, BrokerState, SameRouting
<1>3. /\ q.broker.recruit = p.broker.recruit /\ q.broker.ports = p.broker.ports
      /\ q.broker.kind = k /\ q.broker.holders = h
  BY <1>1 DEF InboxSet, Handled, BrokerState
<1>4. Sound(q, lost, hand) /\ Flushed(q)
  BY <1>2, <1>3, Recorded
<1> QED
  BY <1>2, <1>4 DEF SameRouting

\* Open(t, kind): the open, the join, or the refusal of another kind.
LEMMA OpenStep ==
  ASSUME IInv, NEW t \in Tabs, NEW kind \in Storage[t], Open(t, kind)
  PROVE  IInv' /\ Service!Next
<1>1. /\ kind \in Kinds \ {"none"} /\ broker.holders \subseteq Tabs /\ "opening" \in Drivers
      /\ broker.holders \cup {t} # {} /\ broker.kind \in Kinds
      /\ inbox \in [Tabs -> Seq(ControlMessage)]
      /\ {"open", "join"} \subseteq {"open", "join", "close", "work", "destroy"}
  BY Known, BrokerConstants DEF BrokerState, Kinds, Drivers
<1>2. "opening" \in Drivers /\ kind \in Kinds
  BY <1>1
<1>3. CASE broker.holders # {} /\ broker.kind # kind
  <2>1. PICK no \in BOOLEAN : no = FALSE
    OBVIOUS
  <2> DEFINE p == Post(t, "open", kind, no)
             q == [p EXCEPT !.driver[t] = "opening"]
             rec == [tab |-> t, op |-> "open", kind |-> kind, undo |-> no]
  <2>2. Posted(Answer(q, Id, no))
    BY <1>3, <2>1, Zenon DEF Open
  <2>3. rec \in Request /\ p.log = Append(log, rec) /\ p.status = Append(status, "pending")
    BY <1>1, Posting
  <2>4. Sound(p, stranded, {Id}) /\ Flushed(p)
    BY <1>1, Posting
  <2>5. DriverSet(p, q, t, "opening")
    BY Zenon DEF DriverSet
  <2> HIDE DEF p, q
  <2>6. Sound(q, stranded, {Id}) /\ Flushed(q) /\ q.log = p.log /\ q.status = p.status
    BY <1>2, <2>4, <2>5, DriverHeld
  <2>7. no => rec.op = "close"
    BY <2>1
  <2> HIDE DEF p, q, rec
  <2> QED  BY <2>2, <2>3, <2>6, <2>7, AnsweredStep
<1>4. PICK h \in SUBSET Tabs : h = broker.holders \cup {t} /\ ((kind = "none") <=> (h = {}))
  <2>1. broker.holders \cup {t} \in SUBSET Tabs /\ kind # "none" /\ broker.holders \cup {t} # {}
    BY <1>1
  <2> QED  BY <2>1, Zenon
<1> DEFINE Opening(s) == [s EXCEPT !.driver[t] = "opening",
                            !.broker.holders = @ \cup {t}, !.broker.kind = kind]
<1>5. CASE broker.holders # {} /\ broker.kind = kind
  <2>1. PICK u \in BOOLEAN : u = (t \notin broker.holders)
    OBVIOUS
  <2> DEFINE p == Post(t, "join", kind, u)
             q == [p EXCEPT !.driver[t] = "opening",
                            !.broker.holders = h, !.broker.kind = kind]
             rec == [tab |-> t, op |-> "join", kind |-> kind, undo |-> u]
  <2>2. /\ rec \in Request /\ p.log = Append(log, rec) /\ p.status = Append(status, "pending")
        /\ p.broker.holders = broker.holders
    BY <1>1, Posting
  <2>3. Sound(p, stranded, {Id}) /\ Flushed(p)
    BY <1>1, Posting
  <2>4. Posted(Forward(q, Id))
    BY <1>5, <1>4, <2>1, <2>2, Zenon DEF Open
  <2>5. HoldersSet(p, q, t, "opening", h, kind)
    BY Zenon DEF HoldersSet
  <2> HIDE DEF p, q
  <2>6. Sound(q, stranded, {Id}) /\ Flushed(q) /\ q.log = p.log /\ q.status = p.status
    BY <1>2, <1>4, <2>3, <2>5, HoldersHeld
  <2> HIDE DEF p, q, rec
  <2> QED  BY <2>4, <2>2, <2>6, ForwardedStep
<1>6. CASE broker.holders = {}
  <2>1. PICK u \in BOOLEAN : u = TRUE
    OBVIOUS
  <2> DEFINE p == Post(t, "open", kind, u)
             q == [p EXCEPT !.driver[t] = "opening",
                            !.broker.holders = h, !.broker.kind = kind]
             rec == [tab |-> t, op |-> "open", kind |-> kind, undo |-> u]
  <2>2. /\ rec \in Request /\ p.log = Append(log, rec) /\ p.status = Append(status, "pending")
        /\ p.broker.holders = broker.holders
    BY <1>1, Posting
  <2>3. Sound(p, stranded, {Id}) /\ Flushed(p)
    BY <1>1, Posting
  <2>4. Posted(Forward(q, Id))
    BY <1>6, <1>4, <2>1, <2>2, Zenon DEF Open
  <2>5. HoldersSet(p, q, t, "opening", h, kind)
    BY Zenon DEF HoldersSet
  <2> HIDE DEF p, q
  <2>6. Sound(q, stranded, {Id}) /\ Flushed(q) /\ q.log = p.log /\ q.status = p.status
    BY <1>2, <1>4, <2>3, <2>5, HoldersHeld
  <2> HIDE DEF p, q, rec
  <2> QED  BY <2>4, <2>2, <2>6, ForwardedStep
<1> QED
  BY <1>3, <1>5, <1>6

\* Close(t)
LEMMA CloseStep ==
  ASSUME IInv, NEW t \in Tabs, Close(t)
  PROVE  IInv' /\ Service!Next
<1> DEFINE rest == broker.holders \ {t}
<1>1. /\ rest \subseteq Tabs /\ "closing" \in Drivers /\ broker.kind \in Kinds /\ "none" \in Kinds
      /\ inbox \in [Tabs -> Seq(ControlMessage)]
      /\ "close" \in {"open", "join", "close", "work", "destroy"}
      /\ (broker.kind = "none") <=> (broker.holders = {})
  BY Known, NowFields DEF BrokerState, Kinds, Drivers, IInv, Good, Sound, Shape
<1>2. PICK k \in Kinds : k = IF rest = {} THEN "none" ELSE broker.kind
  BY <1>1
<1>3. (k = "none") <=> (rest = {})
  BY <1>1, <1>2
<1>4. PICK no \in BOOLEAN : no = FALSE
  OBVIOUS
<1>5. PICK yes \in BOOLEAN : yes = TRUE
  OBVIOUS
<1> DEFINE p == Post(t, "close", "none", no)
           q == [p EXCEPT !.driver[t] = "closing", !.broker.holders = rest, !.broker.kind = k]
           rec == [tab |-> t, op |-> "close", kind |-> "none", undo |-> no]
<1>6. /\ rec \in Request /\ p.log = Append(log, rec) /\ p.status = Append(status, "pending")
      /\ p.broker.kind = broker.kind
  BY <1>1, Posting
<1>7. Sound(p, stranded, {Id}) /\ Flushed(p)
  BY <1>1, Posting
<1>8. rest \in SUBSET Tabs /\ "closing" \in Drivers
  BY <1>1
<1>9. Posted(IF rest # {} THEN Answer(q, Id, yes) ELSE Forward(q, Id))
  BY <1>2, <1>4, <1>5, <1>6, Zenon DEF Close
<1>10. rec.op = "close"
  OBVIOUS
<1>11. HoldersSet(p, q, t, "closing", rest, k)
  BY Zenon DEF HoldersSet
<1> HIDE DEF p, q, rec
<1>12. Sound(q, stranded, {Id}) /\ Flushed(q) /\ q.log = p.log /\ q.status = p.status
  BY <1>8, <1>3, <1>7, <1>11, HoldersHeld
<1>13. CASE rest # {}
  <2>1. Posted(Answer(q, Id, yes))
    BY <1>9, <1>13, Zenon
  <2> QED  BY <2>1, <1>6, <1>12, <1>10, AnsweredStep
<1>14. CASE rest = {}
  <2>1. Posted(Forward(q, Id))
    BY <1>9, <1>14, Zenon
  <2> QED  BY <2>1, <1>6, <1>12, ForwardedStep
<1> QED
  BY <1>13, <1>14

\* Destroy(t)
LEMMA DestroyStep ==
  ASSUME IInv, NEW t \in Tabs, Destroy(t)
  PROVE  IInv' /\ Service!Next
<1> DEFINE x == [y \in Tabs |->
                   IF y \in broker.holders \ {t} /\ conn[y] = "live"
                     THEN Append(inbox[y], "destroyed") ELSE inbox[y]]
<1>1. /\ {} \subseteq Tabs /\ "destroying" \in Drivers /\ "none" \in Kinds
      /\ "destroy" \in {"open", "join", "close", "work", "destroy"}
      /\ "destroyed" \in ControlMessage /\ inbox \in [Tabs -> Seq(ControlMessage)]
  BY Known DEF Kinds, Drivers, ControlMessage
<1>2. x \in [Tabs -> Seq(ControlMessage)]
  <2>1. \A y \in Tabs : inbox[y] \in Seq(ControlMessage) /\ Append(inbox[y], "destroyed") \in Seq(ControlMessage)
    <3>1. \A z \in Seq(ControlMessage) : Append(z, "destroyed") \in Seq(ControlMessage)
      BY <1>1
    <3> QED  BY <3>1, <1>1
  <2> QED  BY <2>1
<1>3. PICK no \in BOOLEAN : no = FALSE
  OBVIOUS
<1> DEFINE p == Post(t, "destroy", "none", no)
           q == [p EXCEPT !.driver[t] = "destroying", !.broker.holders = {}, !.broker.kind = "none",
                          !.inbox = x]
           rec == [tab |-> t, op |-> "destroy", kind |-> "none", undo |-> no]
<1>4. /\ rec \in Request /\ p.log = Append(log, rec) /\ p.status = Append(status, "pending")
      /\ p.inbox = inbox /\ p.conn = conn /\ Sound(p, stranded, {Id}) /\ Flushed(p)
  BY <1>1, Posting, ZenonT(60)
<1>5. Posted(Forward(q, Id))
  <2> DEFINE pf == Post(t, "destroy", "none", FALSE)
             y == [z \in Tabs |->
                     IF z \in broker.holders \ {t} /\ conn[z] = "live"
                       THEN Append(pf.inbox[z], "destroyed") ELSE pf.inbox[z]]
  <2>1. pf = p
    BY <1>3, Zenon
  <2>2. pf.inbox = inbox
    BY <2>1, <1>4, Zenon
  <2> HIDE DEF pf
  <2>3. y = x
    BY <2>2, Zenon
  <2>4. Posted(Forward([pf EXCEPT !.driver[t] = "destroying", !.broker.holders = {},
                                  !.broker.kind = "none", !.inbox = y], Id))
    BY Zenon DEF Destroy, pf
  <2> HIDE DEF y, x, p
  <2> QED  BY <2>1, <2>3, <2>4, Zenon
<1>6. InboxSet(p, q, t, "destroying", {}, "none", x)
  BY Zenon DEF InboxSet
<1>7. Sound(p, stranded, {Id}) /\ Flushed(p)
  BY <1>4
<1>8. {} \in SUBSET Tabs /\ "destroying" \in Drivers /\ "none" \in Kinds
  BY <1>1
<1>9. ("none" = "none") <=> ({} = {})
  OBVIOUS
<1> HIDE DEF p, q, rec, x
<1>10. Sound(q, stranded, {Id}) /\ Flushed(q) /\ q.log = p.log /\ q.status = p.status
  BY <1>2, <1>6, <1>7, <1>8, <1>9, InboxHeld, SMTT(30)
<1> QED
  BY <1>4, <1>5, <1>10, ForwardedStep

\* Work(t)
LEMMA WorkStep ==
  ASSUME IInv, NEW t \in Tabs, Work(t)
  PROVE  IInv' /\ Service!Next
<1>1. "work" \in {"open", "join", "close", "work", "destroy"} /\ "none" \in Kinds
  BY DEF Kinds
<1>2. PICK no \in BOOLEAN : no = FALSE
  OBVIOUS
<1> DEFINE p == Post(t, "work", "none", no)
           rec == [tab |-> t, op |-> "work", kind |-> "none", undo |-> no]
<1>3. /\ rec \in Request /\ p.log = Append(log, rec) /\ p.status = Append(status, "pending")
      /\ Sound(p, stranded, {Id}) /\ Flushed(p)
  BY <1>1, Posting
<1>4. Posted(Forward(p, Id))
  BY <1>2, Zenon DEF Work
<1> HIDE DEF p, rec
<1> QED
  BY <1>3, <1>4, ForwardedStep

(*****************************************************************************)
(* Connections, ports and timers.                                            *)
(*****************************************************************************)
\* A change of what routing does not depend on, between two good states.
LEMMA Alongside ==
  ASSUME NEW s, NEW q, NEW lost, Good(s, lost), q \in Handled, SameRouting(s, q),
         q.broker.recruit = s.broker.recruit, q.broker.ports = s.broker.ports,
         q.broker.kind = s.broker.kind, q.broker.holders = s.broker.holders
  PROVE  Good(q, lost) /\ Fails(s, q)
<1>1. (q.broker.kind = "none") <=> (q.broker.holders = {})
  BY DEF Good, Sound, Shape
<1>2. Sound(q, lost, {}) /\ Flushed(q)
  BY <1>1, Recorded DEF Good
<1>3. Fails(s, q)
  BY DEF Fails, SameRouting
<1> QED
  BY <1>2, <1>3 DEF Good

\* Connect(t)
LEMMA ConnectStep ==
  ASSUME IInv, NEW t \in Tabs, Connect(t)
  PROVE  IInv' /\ Service!Next
<1> DEFINE c == [Now EXCEPT !.conn[t] = "live"]
           m == RememberPort(c, t)
           p == ProbeCompute(m)
           s == IF p.worker = NoWorker /\ p.broker.backlog # <<>>
                  THEN RequestSpawn(p, <<t>>) ELSE p
<1>1. Become(s) /\ transit' = transit /\ ran' = ran /\ stranded' = stranded
  BY Zenon DEF Connect
<1>2. c \in Handled /\ SameRouting(Now, c) /\ c.broker = Now.broker
  BY Known DEF Handled, SameRouting
<1>3. Good(Now, stranded)
  BY DEF IInv
<1> HIDE DEF c
<1>4. Good(c, stranded) /\ Fails(Now, c)
  BY <1>2, <1>3, Alongside
<1>5. Good(m, stranded) /\ Fails(c, m)
  BY <1>4, RememberPortSound DEF Good
<1> HIDE DEF m
<1>6. Good(p, stranded) /\ Fails(m, p)
  BY <1>5, ProbeComputeGood
<1> HIDE DEF p
<1>7. <<t>> \in Seq(Tabs)
  OBVIOUS
<1>8. Good(s, stranded) /\ Fails(p, s)
  <2>1. Fails(p, p)
    BY DEF Fails
  <2>2. Good(RequestSpawn(p, <<t>>), stranded) /\ Fails(p, RequestSpawn(p, <<t>>))
    BY <1>6, <1>7, RequestSpawnGood
  <2> QED  BY <2>1, <2>2, <1>6, Zenon
<1> HIDE DEF s
<1>9. Fails(Now, s)
  BY <1>4, <1>5, <1>6, <1>8, FailsOnwards
<1> QED
  BY <1>1, <1>8, <1>9, QuietStep DEF IInv, PortsTyped

\* AdoptWorkerPort(t)
LEMMA AdoptWorkerPortStep ==
  ASSUME IInv, NEW t \in Tabs, AdoptWorkerPort(t)
  PROVE  IInv' /\ Service!Next
<1>1. /\ transit[t] # <<>> /\ transit' = [transit EXCEPT ![t] = Tail(@)]
      /\ ran' = ran /\ stranded' = stranded
  BY Zenon DEF AdoptWorkerPort
<1>2. transit \in [Tabs -> Seq(BOOLEAN)] /\ Good(Now, stranded)
  BY DEF IInv, PortsTyped
<1>3. Head(transit[t]) \in BOOLEAN /\ Tail(transit[t]) \in Seq(BOOLEAN)
  BY <1>1, <1>2
<1>4. PortsTyped'
  BY <1>1, <1>2, <1>3 DEF PortsTyped
<1>5. CASE worker # NoWorker
  <2> DEFINE s == Control(Now, t, "discard")
  <2>1. Become(s)
    BY <1>5, Zenon DEF AdoptWorkerPort
  <2>2. Good(s, stranded) /\ Fails(Now, s)
    BY <1>2, ControlGood DEF ControlMessage
  <2> HIDE DEF s
  <2> QED  BY <1>1, <1>4, <2>1, <2>2, QuietStep
<1>6. CASE worker = NoWorker
  <2>1. PICK alive \in BOOLEAN : alive = Head(transit[t])
    BY <1>3
  <2> DEFINE s == AdoptComputePort(Now, t, alive)
  <2>2. Become(s)
    BY <1>6, <2>1, Zenon DEF AdoptWorkerPort
  <2>3. t \in Tabs \cup {Host} /\ t # Host /\ Now.worker = NoWorker
    BY <1>6, BrokerConstants, NowFields DEF Host
  <2>4. Good(s, stranded) /\ Fails(Now, s)
    BY <1>2, <2>3, AdoptGood
  <2> HIDE DEF s
  <2> QED  BY <1>1, <1>4, <2>2, <2>4, QuietStep
<1> QED
  BY <1>5, <1>6

\* Of an executed request, every earlier one of the log that is pending still
\* and was not stranded has been executed before it.
LEMMA RunInArrival ==
  ASSUME IInv, worker \in ComputeState, worker.alive,
         NEW a \in 1..Len(worker.queue), NEW i \in Ids,
         i < worker.queue[a], status[i] = "pending", i \notin stranded
  PROVE  \E b \in 1..a : worker.queue[b] = i
<1> DEFINE routes == broker.routes
           backlog == broker.backlog
           queue == worker.queue
           k == Len(routes) - Len(queue)
<1>1. Sound(Now, stranded, {}) /\ Now.broker = broker /\ Now.worker = worker
  BY NowFields DEF IInv, Good
<1>2. /\ routes \in Seq(Int) /\ backlog \in Seq(Int) /\ queue \in Seq(Int)
      /\ Len(routes) \in Nat /\ Len(backlog) \in Nat /\ Len(queue) \in Nat
      /\ DOMAIN routes = 1..Len(routes) /\ DOMAIN backlog = 1..Len(backlog)
      /\ DOMAIN queue = 1..Len(queue)
  BY Known DEF BrokerState, ComputeState
<1>3. Chain(routes, backlog)
  BY <1>1 DEF Sound, Accounted
<1>4. Trails(routes, queue, stranded)
  BY <1>1, Computes DEF Sound, Linked
<1>5. /\ k \in Nat /\ \A j \in 1..k : routes[j] \in stranded
      /\ \A j \in 1..Len(queue) : queue[j] = routes[k + j]
  BY <1>2, <1>4 DEF Trails
<1>6. Len(routes) = k + Len(queue) /\ a \in 1..Len(queue) /\ i < queue[a]
  BY <1>2
<1>7. i \in Nat /\ i > 0
  BY Known
<1>8. Contains(routes, i) \/ Contains(backlog, i)
  BY <1>1, Known, NowFields DEF Sound, Accounted, Routed, Waits
<1>9. \A b \in 1..a : queue[b] = i => \E c \in 1..a : worker.queue[c] = i
  OBVIOUS
<1> HIDE DEF routes, backlog, queue, k
<1>10. /\ a \in Nat /\ k + a \in 1..Len(routes) /\ queue[a] = routes[k + a]
      /\ routes[k + a] \in Int /\ i < routes[k + a]
  <2>1. Len(queue) \in Nat /\ Len(routes) \in Nat /\ k \in Nat
    BY <1>2, <1>5
  <2>2. a \in Nat /\ k + a \in 1..Len(routes)
    BY <2>1, <1>6
  <2>3. queue[a] = routes[k + a]
    BY <1>5, <1>6, Zenon
  <2>4. routes[k + a] \in Int
    BY <2>2, <1>2
  <2> QED  BY <2>2, <2>3, <2>4, <1>6, Zenon
<1>11. ~Contains(backlog, i)
  <2> SUFFICES ASSUME NEW j \in 1..Len(backlog), backlog[j] = i  PROVE  FALSE
    BY <1>2 DEF Contains
  <2>1. routes[k + a] < backlog[j]
    BY <1>2, <1>3, <1>10, <1>7 DEF Chain
  <2> QED  BY <2>1, <1>10, <1>7
<1>12. PICK j \in 1..Len(routes) : routes[j] = i
  BY <1>2, <1>8, <1>11 DEF Contains
<1>13. ~(k + a < j)
  <2>1. k + a < j => routes[k + a] < routes[j]
    BY <1>2, <1>3, <1>10, <1>7, <1>12 DEF Chain, Fine
  <2> QED  BY <2>1, <1>10, <1>7, <1>12
<1>14. ~(j \in 1..k)
  BY <1>5, <1>12
<1>15. j - k \in 1..a /\ k + (j - k) = j
  <2>1. k \in Nat /\ a \in Nat /\ j \in Nat /\ j >= 1
    BY <1>2, <1>5, <1>10, <1>12
  <2> QED  BY <2>1, <1>13, <1>14
<1>16. queue[j - k] = i
  BY <1>2, <1>5, <1>6, <1>12, <1>15
<1> QED
  BY <1>16, <1>15, <1>9

\* The compute ran the first n of its requests.
LEMMA RanStep ==
  ASSUME IInv, worker.alive, NEW n \in 0..Len(worker.queue),
         NEW s, Good(s, stranded), Become(s), s.log = log,
         \A id \in Ids : \/ s.status[id] = status[id]
                         \/ status[id] = "pending" /\ s.status[id] = "failed"
                         \/ status[id] = "pending" /\ \E i \in 1..n : worker.queue[i] = id,
         ran' = ran \cup First(n), stranded' = stranded, PortsTyped'
  PROVE  IInv' /\ Service!Next
<1>1. Good(Now, stranded)'
  BY Became DEF Good, Sound, Shape
<1>2. log' = log /\ status' = s.status /\ Ids' = Ids
  BY DEF Become, Ids
<1>3. worker \in ComputeState
  BY Known DEF NoWorker
<1>4. First(n) \subseteq Ids /\ \A id \in Ids : id \in First(n) <=> \E i \in 1..n : worker.queue[i] = id
  BY DEF First, Ids
<1>5. RanTyped'
  BY <1>2, <1>4 DEF IInv, RanTyped
<1>6. \A id \in Ids : \/ status'[id] = status[id]
                      \/ status[id] = "pending" /\ status'[id] = "failed"
                      \/ status[id] = "pending" /\ id \in First(n)
  BY <1>2, <1>4
<1>7. OkRan'
  BY <1>2, <1>6 DEF IInv, OkRan
<1>8. ASSUME NEW j \in ran' \ ran
      PROVE  j \in Ids /\ \A i \in Ids : i < j =>
                i \in ran' \/ status[i] # "pending" \/ i \in stranded
  <2>1. j \in First(n) /\ j \in Ids
    BY <1>4
  <2>2. PICK a \in 1..n : worker.queue[a] = j
    BY <2>1, <1>4
  <2>3. a \in 1..Len(worker.queue) /\ 1..a \subseteq 1..n
    BY <1>3 DEF ComputeState
  <2>4. ASSUME NEW i \in Ids, i < j, status[i] = "pending", i \notin stranded
        PROVE  i \in First(n)
    <3>1. \E b \in 1..a : worker.queue[b] = i
      BY <1>3, <2>2, <2>3, <2>4, RunInArrival
    <3> QED  BY <3>1, <2>3, <1>4
  <2> QED  BY <2>1, <2>4
<1>9. Service!Next
  <2>1. \A id \in Ids : status[id] # "pending" => status'[id] = status[id]
    BY <1>6
  <2>2. \A id \in Ids' : status'[id] = "ok" => id \in ran' \/ log'[id].op = "close"
    BY <1>7 DEF OkRan
  <2> QED  BY <1>2, <1>8, <2>1, <2>2, Known, ServiceStep
<1> QED
  BY <1>1, <1>5, <1>7, <1>9 DEF IInv

\* A compute is given up, or stops, and what it ran was not heard of.
LEMMA UnheardStep ==
  ASSUME IInv, NEW n \in Unheard \cup {0}, NEW s, Good(s, stranded), Fails(Now, s), Become(s),
         ran' = ran \cup First(n), stranded' = stranded, PortsTyped'
  PROVE  IInv' /\ Service!Next
<1>1. CASE n = 0
  <2>1. First(n) = {}
    BY <1>1 DEF First
  <2> QED  BY <2>1, QuietStep
<1>2. CASE n # 0
  <2>1. worker.alive /\ n \in 0..Len(worker.queue)
    BY <1>2 DEF Unheard
  <2>2. /\ s.log = log
        /\ \A id \in Ids : \/ s.status[id] = status[id]
                           \/ status[id] = "pending" /\ s.status[id] = "failed"
    BY Known, NowFields DEF Fails
  <2> QED  BY <2>1, <2>2, RanStep
<1> QED
  BY <1>1, <1>2

\* A timer runs a handler that is good.
LEMMA TimeoutStep ==
  ASSUME IInv, NEW s, Good(s, stranded), Fails(Now, s), NEW stalls, Timeout(stalls, s),
         NEW n \in Unheard \cup {0}, ran' = ran \cup First(n)
  PROVE  IInv' /\ Service!Next
<1>1. Become(s) /\ stranded' = stranded /\ transit' = transit
  BY DEF Timeout
<1> QED
  BY <1>1, UnheardStep DEF IInv, PortsTyped

\* PingDeadline
LEMMA PingDeadlineStep ==
  ASSUME IInv, PingDeadline
  PROVE  IInv' /\ Service!Next
<1> DEFINE r == [Now EXCEPT !.broker.probing = FALSE]
           s == ResetEpoch(r)
<1>1. Timeout(worker.alive, s) /\ Good(Now, stranded)
  BY Zenon DEF PingDeadline, IInv
<1>6. PICK n \in Unheard \cup {0} : ran' = ran \cup First(n)
  BY DEF PingDeadline
<1>2. r \in Handled /\ SameRouting(Now, r)
  BY Known DEF Handled, BrokerState, SameRouting
<1>3. /\ r.broker.recruit = Now.broker.recruit /\ r.broker.ports = Now.broker.ports
      /\ r.broker.kind = Now.broker.kind /\ r.broker.holders = Now.broker.holders
  BY Known DEF Handled, BrokerState
<1> HIDE DEF r
<1>4. Good(r, stranded) /\ Fails(Now, r)
  BY <1>1, <1>2, <1>3, Alongside
<1>5. Good(s, stranded) /\ Fails(r, s)
  BY <1>4, ResetEpochGood
<1> HIDE DEF s
<1> QED
  BY <1>1, <1>4, <1>5, <1>6, FailsOnwards, TimeoutStep

\* Watchdog
LEMMA WatchdogStep ==
  ASSUME IInv, Watchdog
  PROVE  IInv' /\ Service!Next
<1> DEFINE s == ProbeCompute(Now)
<1>1. Timeout(FALSE, s) /\ ran' = ran
  BY Zenon DEF Watchdog
<1>2. Good(s, stranded) /\ Fails(Now, s)
  BY ProbeComputeGood DEF IInv
<1>3. 0 \in Unheard \cup {0} /\ ran' = ran \cup First(0)
  BY <1>1 DEF First
<1> HIDE DEF s
<1> QED
  BY <1>1, <1>2, <1>3, TimeoutStep

\* SpawnDeadline
LEMMA SpawnDeadlineStep ==
  ASSUME IInv, SpawnDeadline
  PROVE  IInv' /\ Service!Next
<1> DEFINE s == RequestSpawn(Now, <<>>)
<1>1. Timeout(FALSE, s) /\ ran' = ran
  BY Zenon DEF SpawnDeadline
<1>2. <<>> \in Seq(Tabs)
  OBVIOUS
<1>3. Good(s, stranded) /\ Fails(Now, s)
  BY <1>2, RequestSpawnGood DEF IInv
<1>4. 0 \in Unheard \cup {0} /\ ran' = ran \cup First(0)
  BY <1>1 DEF First
<1> HIDE DEF s
<1> QED
  BY <1>1, <1>3, <1>4, TimeoutStep

\* ReleaseDeadline
LEMMA ReleaseDeadlineStep ==
  ASSUME IInv, ReleaseDeadline
  PROVE  IInv' /\ Service!Next
<1> DEFINE s == FinishEpochReset(Now)
<1>1. Timeout(worker.alive, s)
  BY Zenon DEF ReleaseDeadline
<1>3. PICK n \in Unheard \cup {0} : ran' = ran \cup First(n)
  BY DEF ReleaseDeadline
<1>2. Good(s, stranded) /\ Fails(Now, s)
  BY FinishGood DEF IInv
<1> HIDE DEF s
<1> QED
  BY <1>1, <1>2, <1>3, TimeoutStep

(*****************************************************************************)
(* Computes that stop.                                                       *)
(*****************************************************************************)
\* The compute stops: what it was sent stays routed.
LEMMA Stopped ==
  ASSUME NEW s, NEW q, NEW lost, Good(s, lost), q \in Handled,
         s.worker # NoWorker, q.worker # NoWorker, ~q.worker.alive,
         q.worker.host = s.worker.host,
         q.broker = s.broker, q.status = s.status, q.log = s.log
  PROVE  Good(q, lost) /\ Fails(s, q)
<1>1. Shape(q)
  BY DEF Good, Sound, Shape
<1>2. Accounted(q, {})
  BY DEF Good, Sound, Accounted, Routed, Waits, Numbers
<1>3. Gates(q, lost)
  BY DEF Good, Sound, Gates, Routed, Waits
<1>4. Linked(q, lost) /\ Flushed(q)
  BY DEF Good, Linked, Flushed
<1> QED
  BY <1>1, <1>2, <1>3, <1>4 DEF Good, Sound, Fails

\* The ports of a tab's terminated workers are ports still.
LEMMA DeadTyped ==
  ASSUME PortsTyped, NEW t \in Tabs
  PROVE  Dead(t) \in Seq(BOOLEAN)
<1>1. transit[t] \in Seq(BOOLEAN)
  BY DEF PortsTyped
<1>2. PICK n \in Nat : DOMAIN transit[t] = 1..n
  BY <1>1
<1>3. [i \in 1..n |-> FALSE] \in Seq(BOOLEAN)
  OBVIOUS
<1> QED  BY <1>2, <1>3 DEF Dead

\* A step in which pages and workers stop, or not, and the broker does nothing.
LEMMA StopsStep ==
  ASSUME IInv, (Stops /\ worker.alive) \/ UNCHANGED <<worker, ran>>,
         broker' = broker, log' = log, status' = status,
         conn' \in [Tabs -> {"away", "live", "closed", "gone"}], driver' \in [Tabs -> Drivers],
         inbox' \in [Tabs -> Seq(ControlMessage)],
         stranded' = stranded, PortsTyped'
  PROVE  IInv' /\ Service!Next
<1>1. PICK s : s = [broker |-> broker', worker |-> worker', inbox |-> inbox', status |-> status',
                    conn |-> conn', driver |-> driver', log |-> log']
  OBVIOUS
<1>2. Become(s)
  BY <1>1 DEF Become
<1>3. CASE UNCHANGED <<worker, ran>>
  <2>1. s \in Handled
    BY <1>1, <1>3, Known, NowFields DEF Handled
  <2>2. SameRouting(Now, s) /\ s.broker = Now.broker
    BY <1>1, <1>3, NowFields DEF SameRouting
  <2>3. Good(s, stranded) /\ Fails(Now, s)
    BY <2>1, <2>2, Alongside DEF IInv
  <2> QED  BY <1>2, <1>3, <2>3, QuietStep
<1>4. CASE Stops /\ worker.alive
  <2>1. PICK n \in Unheard \cup {0} : ran' = ran \cup First(n)
    BY <1>4 DEF Stops
  <2>2. worker \in ComputeState /\ worker # NoWorker
    BY <1>4, Known DEF NoWorker
  <2>3. PICK e \in Seq(Int) : e = <<>>
    <3>1. <<>> \in Seq(Int)
      OBVIOUS
    <3> QED  BY <3>1, Zenon
  <2>4. worker' = [worker EXCEPT !.alive = FALSE, !.queue = e, !.open = "none"]
    BY <1>4, <2>3, Zenon DEF Stops
  <2>5. worker' \in ComputeState /\ ~worker'.alive /\ worker'.host = worker.host
    BY <2>2, <2>4 DEF ComputeState, Kinds
  <2>6. worker' # NoWorker
    BY <2>5, Computes
  <2>7. s \in Handled
    BY <1>1, <2>5, Known DEF Handled
  <2>8. /\ s.worker = worker' /\ s.broker = Now.broker /\ s.status = Now.status
        /\ s.log = Now.log /\ Now.worker = worker
    BY <1>1, NowFields
  <2>9. Good(s, stranded) /\ Fails(Now, s)
    BY <2>2, <2>5, <2>6, <2>7, <2>8, Stopped DEF IInv
  <2> QED  BY <1>2, <2>1, <2>9, UnheardStep
<1> QED
  BY <1>3, <1>4

\* A page stops the worker it hosts, if that is the broker's.
LEMMA Terminated ==
  ASSUME NEW t, Terminates(t)
  PROVE  (Stops /\ worker.alive) \/ UNCHANGED <<worker, ran>>
<1>1. CASE worker.host = t /\ worker.alive
  BY <1>1 DEF Terminates
<1>2. CASE ~(worker.host = t /\ worker.alive)
  <2>1. UNCHANGED <<worker, ran>>
    BY <1>2, Zenon DEF Terminates
  <2> QED  BY <2>1
<1> QED
  BY <1>1, <1>2

\* HandleControl(t)
LEMMA HandleControlStep ==
  ASSUME IInv, NEW t \in Tabs, HandleControl(t)
  PROVE  IInv' /\ Service!Next
<1>1. /\ inbox[t] # <<>> /\ inbox' = [inbox EXCEPT ![t] = Tail(@)]
      /\ broker' = broker /\ conn' = conn /\ log' = log /\ status' = status
      /\ stranded' = stranded
  BY DEF HandleControl
<1>2. /\ Terminates(t) \/ UNCHANGED <<worker, ran>>
      /\ driver' = driver \/ driver' = [driver EXCEPT ![t] =
                                          IF @ \in {"open", "closing"} THEN "destroyed" ELSE @]
      /\ \/ transit' = transit
         \/ transit' = [transit EXCEPT ![t] = Dead(t)]
         \/ transit' = [transit EXCEPT ![t] = Append(Dead(t), TRUE)]
  <2>1. Head(inbox[t]) \in ControlMessage
    BY <1>1, Known
  <2> QED  BY <2>1 DEF HandleControl, ControlMessage
<1>3. inbox' \in [Tabs -> Seq(ControlMessage)] /\ driver' \in [Tabs -> Drivers]
  <2>1. inbox[t] \in Seq(ControlMessage)
    BY Known
  <2>2. Tail(inbox[t]) \in Seq(ControlMessage)
    BY <1>1, <2>1
  <2>3. inbox' \in [Tabs -> Seq(ControlMessage)]
    BY <1>1, <2>2, Known
  <2>4. driver' \in [Tabs -> Drivers]
    BY <1>2, Known DEF Drivers
  <2> QED  BY <2>3, <2>4
<1>4. PortsTyped'
  <2>1. Dead(t) \in Seq(BOOLEAN)
    BY DeadTyped DEF IInv
  <2>2. Append(Dead(t), TRUE) \in Seq(BOOLEAN)
    BY <2>1
  <2> QED  BY <1>2, <2>1, <2>2 DEF IInv, PortsTyped
<1>5. CASE Terminates(t)
  BY <1>1, <1>3, <1>4, <1>5, Known, Terminated, StopsStep
<1>6. CASE UNCHANGED <<worker, ran>>
  BY <1>1, <1>3, <1>4, <1>6, Known, StopsStep
<1> QED
  BY <1>2, <1>5, <1>6

\* HostedDies
LEMMA HostedDiesStep ==
  ASSUME IInv, HostedDies
  PROVE  IInv' /\ Service!Next
<1>1. /\ Stops /\ worker.alive /\ broker' = broker /\ driver' = driver
      /\ log' = log /\ status' = status /\ conn' = conn /\ inbox' = inbox
      /\ transit' = transit /\ stranded' = stranded
  BY DEF HostedDies, tabVars
<1>2. PortsTyped'
  BY <1>1 DEF IInv, PortsTyped
<1> QED
  BY <1>1, <1>2, Known, StopsStep

\* PageDies(t)
LEMMA PageDiesStep ==
  ASSUME IInv, NEW t \in Tabs, PageDies(t)
  PROVE  IInv' /\ Service!Next
<1>1. /\ conn' = [conn EXCEPT ![t] = "gone"] /\ inbox' = [inbox EXCEPT ![t] = <<>>]
      /\ transit' = [transit EXCEPT ![t] = Dead(t)] /\ Terminates(t)
      /\ broker' = broker /\ driver' = driver
      /\ log' = log /\ status' = status /\ stranded' = stranded
  BY DEF PageDies
<1>2. conn' \in [Tabs -> {"away", "live", "closed", "gone"}]
  BY <1>1, Known
<1>3. inbox' \in [Tabs -> Seq(ControlMessage)]
  <2>1. <<>> \in Seq(ControlMessage)
    OBVIOUS
  <2> QED  BY <1>1, <2>1, Known
<1>4. PortsTyped'
  <2>1. Dead(t) \in Seq(BOOLEAN)
    BY DeadTyped DEF IInv
  <2> QED  BY <1>1, <2>1 DEF IInv, PortsTyped
<1> QED
  BY <1>1, <1>2, <1>3, <1>4, Known, Terminated, StopsStep

(*****************************************************************************)
(* A request is executed and its answer handled.                             *)
(*****************************************************************************)
\* An injective sequence without its element at place p.
LEMMA RemovedAt ==
  ASSUME NEW x \in Seq(Int), IsInjective(x), NEW p \in DOMAIN x, NEW e, x[p] = e
  PROVE  /\ RemoveFirst(x, e) \in Seq(Int) /\ Len(RemoveFirst(x, e)) = Len(x) - 1
         /\ \A i \in 1..(Len(x) - 1) :
               RemoveFirst(x, e)[i] = IF i < p THEN x[i] ELSE x[i + 1]
  BY FirstRemoved, SMTT(30)

\* The compute took the first request off its queue, and its route is gone.
LEMMA TrailsTaken ==
  ASSUME NEW routes \in Seq(Int), IsInjective(routes), NEW queue \in Seq(Int), NEW lost,
         Trails(routes, queue, lost), queue # <<>>
  PROVE  /\ Contains(routes, Head(queue))
         /\ Trails(RemoveFirst(routes, Head(queue)), Tail(queue), lost)
<1> DEFINE k == Len(routes) - Len(queue)
           e == Head(queue)
           r == RemoveFirst(routes, e)
           rest == Tail(queue)
<1>1. /\ Len(queue) \in Nat /\ Len(queue) > 0 /\ Len(routes) \in Nat
      /\ Len(rest) = Len(queue) - 1 /\ rest \in Seq(Int) /\ e \in Int /\ e = queue[1]
      /\ \A i \in 1..Len(rest) : rest[i] = queue[i + 1]
      /\ DOMAIN queue = 1..Len(queue) /\ DOMAIN routes = 1..Len(routes)
      /\ DOMAIN rest = 1..Len(rest)
  OBVIOUS
<1>2. /\ k \in Nat /\ \A i \in 1..k : routes[i] \in lost
      /\ \A i \in 1..Len(queue) : queue[i] = routes[k + i]
  BY <1>1 DEF Trails
<1>3. Len(routes) = k + Len(queue)
  BY <1>1
<1> HIDE DEF k, e, rest
<1>4. k + 1 \in 1..Len(routes) /\ routes[k + 1] = e
  <2>1. 1 \in 1..Len(queue) /\ k + 1 \in 1..Len(routes)
    BY <1>1, <1>2, <1>3
  <2> QED  BY <2>1, <1>1, <1>2
<1>5. /\ r \in Seq(Int) /\ Len(r) = Len(routes) - 1
      /\ \A i \in 1..(Len(routes) - 1) : r[i] = IF i < k + 1 THEN routes[i] ELSE routes[i + 1]
  <2>1. k + 1 \in DOMAIN routes /\ routes[k + 1] = e
    BY <1>1, <1>4
  <2>2. k + 1 \in Nat
    BY <1>2
  <2> HIDE DEF r
  <2>3. PICK p : p = k + 1
    OBVIOUS
  <2>4. p \in DOMAIN routes /\ routes[p] = e
    BY <2>1, <2>3, Zenon
  <2>5. /\ RemoveFirst(routes, e) \in Seq(Int) /\ Len(RemoveFirst(routes, e)) = Len(routes) - 1
        /\ \A i \in 1..(Len(routes) - 1) :
              RemoveFirst(routes, e)[i] = IF i < p THEN routes[i] ELSE routes[i + 1]
    BY <2>4, RemovedAt
  <2> QED  BY <2>3, <2>5, Zenon DEF r
<1> HIDE DEF r
<1>6. Len(r) - Len(rest) = k
  BY <1>1, <1>2, <1>3, <1>5
<1>7. \A i \in 1..k : r[i] \in lost
  <2> TAKE i \in 1..k
  <2>1. i \in 1..(Len(routes) - 1) /\ i < k + 1
    BY <1>1, <1>2, <1>3
  <2>2. r[i] = routes[i]
    BY <2>1, <1>5
  <2> QED  BY <2>2, <1>2
<1>8. \A i \in 1..Len(rest) : rest[i] = r[k + i]
  <2> TAKE i \in 1..Len(rest)
  <2>1. /\ i + 1 \in 1..Len(queue) /\ k + i \in 1..(Len(routes) - 1) /\ ~(k + i < k + 1)
        /\ k + (i + 1) = (k + i) + 1
    BY <1>1, <1>2, <1>3
  <2>2. r[k + i] = routes[(k + i) + 1]
    BY <2>1, <1>5
  <2>3. rest[i] = queue[i + 1] /\ queue[i + 1] = routes[k + (i + 1)]
    BY <2>1, <1>1, <1>2
  <2> QED  BY <2>1, <2>2, <2>3
<1>9. Trails(r, rest, lost)
  BY <1>1, <1>2, <1>6, <1>7, <1>8 DEF Trails
<1>10. Contains(routes, e)
  BY <1>1, <1>4 DEF Contains
<1> QED
  BY <1>9, <1>10 DEF r, e, rest

Taken(id, done) == [[Now EXCEPT !.worker = done] EXCEPT !.broker.routes = RemoveFirst(@, id)]
InHand(id) == IF id > 0 THEN {id} ELSE {}

\* The answered request is in hand, if a tab asked it.
LEMMA TakenSound ==
  ASSUME IInv, worker \in ComputeState, worker.alive, worker.queue # <<>>,
         NEW id, id = Head(worker.queue),
         NEW done \in ComputeState, done.host = worker.host, done.alive = worker.alive,
         done.queue = Tail(worker.queue)
  PROVE  /\ Sound(Taken(id, done), stranded, InHand(id)) /\ Flushed(Taken(id, done))
         /\ Taken(id, done).log = log /\ Taken(id, done).status = status
         /\ Taken(id, done).worker = done
         /\ id \in Ids \cup {Restore, Release} /\ ~Taken(id, done).broker.restore
         /\ id \in Ids => status[id] = "pending"
         /\ id = Restore => ~Waits(Now, Restore)
<1> DEFINE q == Taken(id, done)
           routes == broker.routes
<1>1. /\ Good(Now, stranded) /\ Sound(Now, stranded, {}) /\ Flushed(Now) /\ Shape(Now)
      /\ Accounted(Now, {}) /\ Gates(Now, stranded) /\ Linked(Now, stranded)
  BY DEF IInv, Good, Sound
<1>2. routes \in Seq(Int) /\ worker.queue \in Seq(Int) /\ worker # NoWorker /\ done # NoWorker
  BY Known, Computes DEF BrokerState, ComputeState
<1>3. Chain(routes, broker.backlog) /\ IsInjective(routes)
  BY <1>1, NowFields DEF Accounted, Chain, Fine
<1>4. Trails(routes, worker.queue, stranded)
  BY <1>1, <1>2, NowFields DEF Linked
<1>5. Contains(routes, id) /\ Trails(RemoveFirst(routes, id), done.queue, stranded)
  BY <1>2, <1>3, <1>4, TrailsTaken
<1>6. PICK r \in Seq(Int) : r = RemoveFirst(routes, id)
  BY <1>2, <1>3, FirstRemoved
<1>7. /\ Chain(r, broker.backlog)
      /\ \A f : Contains(r, f) <=> Contains(routes, f) /\ f # id
  BY <1>3, <1>6, ChainRemoved
<1>8. q = [Now EXCEPT !.worker = done, !.broker.routes = r]
  <2>1. q = [[Now EXCEPT !.worker = done] EXCEPT !.broker.routes = r]
    <3>1. [Now EXCEPT !.worker = done].broker = broker
      BY DEF Now
    <3> QED  BY <3>1, <1>6, Zenon DEF Taken
  <2> QED  BY <2>1, Known DEF Handled
<1> HIDE DEF q
<1>9. /\ q \in Handled /\ q.worker = done /\ q.broker.routes = r
      /\ q.broker = [broker EXCEPT !.routes = r]
      /\ q.log = log /\ q.status = status
  BY <1>8, Known, NowFields DEF Handled, BrokerState
<1>10. /\ q.broker.backlog = broker.backlog /\ q.broker.ready = broker.ready
      /\ q.broker.restore = broker.restore /\ q.broker.retiring = broker.retiring
      /\ q.broker.canHost = broker.canHost /\ q.broker.recruit = broker.recruit
      /\ q.broker.ports = broker.ports /\ q.broker.kind = broker.kind
      /\ q.broker.holders = broker.holders
  BY <1>9, Known DEF BrokerState
<1>11. /\ \A f : Routed(q, f) <=> Contains(routes, f) /\ f # id
       /\ \A f : Waits(q, f) <=> Contains(broker.backlog, f)
       /\ \A f : Routed(Now, f) <=> Contains(routes, f)
       /\ \A f : Waits(Now, f) <=> Contains(broker.backlog, f)
  BY <1>7, <1>9, <1>10, NowFields DEF Routed, Waits
<1>12. Numbers(q) = Numbers(Now) /\ Numbers(Now) = Ids /\ Ids \subseteq Nat \ {0}
  BY <1>9, Known, NowFields DEF Numbers
<1>13. \A f : Contains(routes, f) \/ Contains(broker.backlog, f) => f \in Ids \cup {Restore, Release}
  BY <1>1, <1>11, <1>12 DEF Accounted
<1>14. id \in Ids \cup {Restore, Release}
  BY <1>5, <1>13
<1>15. \A f : ~(Contains(routes, f) /\ Contains(broker.backlog, f))
  BY <1>3 DEF Chain, Contains
<1>16. \A f \in Ids : status[f] = "pending" <=> Contains(routes, f) \/ Contains(broker.backlog, f)
  BY <1>1, <1>11, <1>12, NowFields DEF Accounted
<1>17. InHand(id) = {id} \cap Ids
  BY <1>12, <1>14 DEF InHand, Restore, Release
<1>18. Shape(q)
  BY <1>1, <1>9, <1>10, NowFields DEF Shape
<1>19. Accounted(q, InHand(id))
  <2>1. \A f : Routed(q, f) \/ Waits(q, f) => f \in (Numbers(q) \ InHand(id)) \cup {Restore, Release}
    BY <1>5, <1>11, <1>12, <1>13, <1>15, <1>17
  <2>2. \A f \in Numbers(q) :
           q.status[f] = "pending" <=> Routed(q, f) \/ Waits(q, f) \/ f \in InHand(id)
    BY <1>5, <1>9, <1>11, <1>12, <1>16, <1>17
  <2>3. Chain(q.broker.routes, q.broker.backlog) /\ ~Waits(q, Release) /\ InHand(id) \subseteq Numbers(q)
    BY <1>1, <1>7, <1>9, <1>10, <1>11, <1>12, <1>17 DEF Accounted
  <2> QED  BY <2>1, <2>2, <2>3, Zenon DEF Accounted
<1>20. Gates(q, stranded)
  BY <1>1, <1>2, <1>9, <1>10, <1>11, NowFields DEF Gates
<1>21. Linked(q, stranded) /\ Flushed(q)
  BY <1>1, <1>2, <1>5, <1>6, <1>9, <1>10, NowFields DEF Linked, Flushed
<1>22. ~broker.restore
  BY <1>1, <1>2, NowFields DEF Gates
<1> QED
  BY <1>5, <1>9, <1>10, <1>11, <1>14, <1>15, <1>16, <1>18, <1>19, <1>20, <1>21, <1>22 DEF Sound, q

\* What the compute is about to execute is a request of a tab or the broker's own.
LEMMA HeadKnown ==
  ASSUME IInv, worker \in ComputeState, worker.alive, worker.queue # <<>>
  PROVE  Head(worker.queue) \in Ids \cup {Restore, Release}
<1>1. broker.routes \in Seq(Int) /\ worker.queue \in Seq(Int) /\ worker # NoWorker
  BY Known, Computes DEF BrokerState, ComputeState
<1>2. IsInjective(broker.routes) /\ Trails(broker.routes, worker.queue, stranded)
  BY <1>1, NowFields DEF IInv, Good, Sound, Accounted, Chain, Fine, Linked
<1>3. Routed(Now, Head(worker.queue))
  BY <1>1, <1>2, TrailsTaken, NowFields DEF Routed
<1> QED
  BY <1>3, Known DEF IInv, Good, Sound, Accounted

\* The kind a request opens is one.
LEMMA KindTyped ==
  ASSUME IInv, NEW id \in Ids \cup {Restore, Release}, OpOf(id) = "open"
  PROVE  KindOf(id) \in Kinds
<1>1. broker.restoring \in Kinds
  BY Known DEF BrokerState
<1>2. id \in Ids => log[id].kind \in Kinds
  <2>1. id \in Ids => log[id] \in Request
    BY Known
  <2> QED  BY <2>1 DEF Request, Kinds
<1> QED
  BY <1>1, <1>2 DEF OpOf, KindOf, Restore, Release

\* What the compute is after it answered a request.
LEMMA AnsweringTyped ==
  ASSUME NEW w \in ComputeState, w.queue # <<>>
  PROVE  /\ Answering(w) \in ComputeState /\ Answering(w).queue = Tail(w.queue)
         /\ Answering(w).host = w.host /\ Answering(w).alive = w.alive
<1>1. PICK z \in Seq(Int) : z = Tail(w.queue)
  <2>1. Tail(w.queue) \in Seq(Int)
    BY DEF ComputeState
  <2> QED  BY <2>1, Zenon
<1>2. PICK a : a = [w EXCEPT !.queue = z, !.answered = TRUE]
  OBVIOUS
<1>3. a \in ComputeState /\ a.queue = z /\ a.host = w.host /\ a.alive = w.alive
  BY <1>2 DEF ComputeState
<1>4. a = Answering(w)
  BY <1>1, <1>2, Zenon DEF Answering
<1> QED
  BY <1>1, <1>3, <1>4, Zenon

\* What it is after it executed one.
LEMMA DoneTyped ==
  ASSUME IInv, worker \in ComputeState,
         NEW id \in Ids \cup {Restore, Release}
  PROVE  /\ Executed(worker, id) \in ComputeState
         /\ Executed(worker, id).queue = worker.queue
         /\ Executed(worker, id).host = worker.host /\ Executed(worker, id).alive = worker.alive
<1> DEFINE opens == OpOf(id) = "open" /\ Runs(worker, id)
           closes == OpOf(id) \in {"close", "destroy", "release"}
<1>1. opens => KindOf(id) \in Kinds
  BY KindTyped
<1>2. worker.open \in Kinds /\ "none" \in Kinds /\ worker.amiss \in BOOLEAN
  BY DEF ComputeState, Kinds
<1>3. PICK v : v = CASE opens -> KindOf(id) [] closes -> "none" [] OTHER -> worker.open
  OBVIOUS
<1>4. v \in Kinds
  BY <1>1, <1>2, <1>3
<1>5. PICK b \in BOOLEAN : b = (worker.amiss /\ ~opens /\ ~closes)
  OBVIOUS
<1>6. Executed(worker, id) = [worker EXCEPT !.open = v, !.amiss = b]
  BY <1>3, <1>5, Zenon DEF Executed
<1> QED
  BY <1>4, <1>5, <1>6 DEF ComputeState

\* A restored database makes the broker ready.
LEMMA MadeReady ==
  ASSUME NEW s, NEW lost, Sound(s, lost, {}), s.worker # NoWorker, ~s.broker.restore
  PROVE  LET q == [s EXCEPT !.broker.ready = TRUE]
         IN  Sound(q, lost, {}) /\ Fails(s, q) /\ q.worker = s.worker
<1> DEFINE q == [s EXCEPT !.broker.ready = TRUE]
<1>1. s \in Handled
  BY DEF Sound, Shape
<1>2. /\ q \in Handled /\ q.worker = s.worker /\ q.status = s.status /\ q.log = s.log
      /\ q.broker = [s.broker EXCEPT !.ready = TRUE]
  BY <1>1 DEF Handled, BrokerState
<1>3. /\ q.broker.routes = s.broker.routes /\ q.broker.backlog = s.broker.backlog
      /\ q.broker.restore = s.broker.restore /\ q.broker.retiring = s.broker.retiring
      /\ q.broker.canHost = s.broker.canHost /\ q.broker.recruit = s.broker.recruit
      /\ q.broker.ports = s.broker.ports /\ q.broker.kind = s.broker.kind
      /\ q.broker.holders = s.broker.holders
  BY <1>1 DEF Handled, BrokerState
<1> HIDE DEF q
<1>4. Shape(q)
  BY <1>2, <1>3 DEF Sound, Shape
<1>5. Accounted(q, {})
  BY <1>2, <1>3 DEF Sound, Accounted, Routed, Waits, Numbers
<1>6. Gates(q, lost)
  BY <1>2, <1>3 DEF Sound, Gates, Routed, Waits
<1>7. Linked(q, lost)
  BY <1>2, <1>3 DEF Sound, Linked
<1>8. Fails(s, q)
  BY <1>2 DEF Fails
<1> QED
  BY <1>2, <1>4, <1>5, <1>6, <1>7, <1>8 DEF Sound, q

\* What the answer to request id may have done to the log and the statuses.
After(q, id) ==
    /\ Good(q, stranded) /\ q.log = log
    /\ \A i \in Ids : \/ q.status[i] = status[i]
                      \/ status[i] = "pending" /\ q.status[i] = "failed"
                      \/ status[i] = "pending" /\ i = id

\* A handler that fails requests comes after the answer,
LEMMA FailsAfter ==
  ASSUME IInv, NEW p, NEW q, NEW id, p.log = log, p.status = status,
         Good(q, stranded), Fails(p, q)
  PROVE  After(q, id)
<1>1. Numbers(p) = Ids
  BY Known DEF Numbers
<1> QED
  BY <1>1 DEF Fails, After

\* or behind another that did.
LEMMA AfterFails ==
  ASSUME IInv, NEW p, NEW q, NEW id, After(p, id), Good(q, stranded), Fails(p, q)
  PROVE  After(q, id)
<1>1. Numbers(p) = Ids
  BY Known DEF Numbers, After
<1> QED
  BY <1>1 DEF Fails, After

\* The answer itself.
LEMMA AnsweredAfter ==
  ASSUME IInv, NEW id \in Ids, NEW p, Sound(p, stranded, {id}), Flushed(p),
         p.log = log, p.status = status, status[id] = "pending", NEW ok \in BOOLEAN
  PROVE  After(Answer(p, id, ok), id)
<1>1. \A b \in BOOLEAN :
         /\ Sound(Answer(p, id, b), stranded, {}) /\ Flushed(Answer(p, id, b))
         /\ Answered(p, Answer(p, id, b), id, Outcome(b))
  BY AnswerSound, Zenon
<1> DEFINE q == Answer(p, id, ok)
<1>2. Sound(q, stranded, {}) /\ Flushed(q) /\ Answered(p, q, id, Outcome(ok))
  BY <1>1, Zenon
<1> HIDE DEF q
<1>3. q.log = log /\ q.status = [status EXCEPT ![id] = Outcome(ok)]
  BY <1>2, Zenon DEF Answered
<1>4. \A i \in Ids : i # id => q.status[i] = status[i]
  BY <1>3, Known
<1> QED
  BY <1>2, <1>3, <1>4 DEF After, Good, q

\* The first request of the queue is answered, and the answer handled.
LEMMA ReplyStep ==
  ASSUME IInv, worker \in ComputeState, worker.alive, worker.queue # <<>>,
         NEW id, id = Head(worker.queue),
         NEW d \in ComputeState, d.host = worker.host, d.alive = worker.alive,
         d.queue = Tail(worker.queue),
         NEW ok \in BOOLEAN, Become(HandleReply([Now EXCEPT !.worker = d], id, ok)),
         NEW n \in 1..Len(worker.queue), ran' = ran \cup First(n),
         transit' = transit, stranded' = stranded
  PROVE  IInv' /\ Service!Next
<1>3. id \in Ids \cup {Restore, Release}
  BY HeadKnown
<1> DEFINE taken == Taken(id, d)
           u == IF ok THEN taken ELSE UndoHolder(taken, id)
           s0 == CASE id = Restore -> FlushBacklog([taken EXCEPT !.broker.ready = TRUE])
                   [] id = Release -> FinishEpochReset(taken)
                   [] OTHER -> Answer(u, id, ok)
           s == ReleaseWhenIdle(s0)
<1>7. Become(s)
  BY Zenon DEF HandleReply, Taken
<1>9. /\ Sound(Taken(id, d), stranded, InHand(id)) /\ Flushed(Taken(id, d))
      /\ Taken(id, d).log = log /\ Taken(id, d).status = status /\ Taken(id, d).worker = d
      /\ ~Taken(id, d).broker.restore /\ (id \in Ids => status[id] = "pending")
  BY TakenSound, ZenonT(60)
<1>10. /\ Sound(taken, stranded, InHand(id)) /\ Flushed(taken)
      /\ taken.log = log /\ taken.status = status /\ taken.worker = d
      /\ ~taken.broker.restore /\ (id \in Ids => status[id] = "pending")
  BY <1>9, Zenon
<1> HIDE DEF taken
<1>11. After(s0, id)
  <2>1. CASE id = Restore
    <3> DEFINE v == [taken EXCEPT !.broker.ready = TRUE]
    <3>1. Sound(taken, stranded, {}) /\ taken.worker # NoWorker
      BY <1>10, <2>1, Computes DEF InHand, Restore
    <3>2. Sound(v, stranded, {}) /\ Fails(taken, v) /\ v.worker # NoWorker
      BY <1>10, <3>1, MadeReady
    <3> HIDE DEF v
    <3>3. Good(FlushBacklog(v), stranded) /\ Fails(v, FlushBacklog(v))
      BY <3>2, FlushBacklogGood
    <3>4. Fails(taken, FlushBacklog(v))
      BY <3>2, <3>3, FailsOnwards
    <3>5. After(FlushBacklog(v), id)
      BY <1>10, <3>3, <3>4, FailsAfter
    <3>6. Release # Restore
      BY DEF Release, Restore
    <3> QED  BY <2>1, <3>5, <3>6, Zenon DEF v
  <2>2. CASE id = Release
    <3>1. Good(taken, stranded)
      BY <1>10, <2>2 DEF InHand, Release, Good
    <3>2. After(FinishEpochReset(taken), id)
      BY <1>10, <3>1, FinishGood, FailsAfter
    <3>3. Release # Restore
      BY DEF Release, Restore
    <3> QED  BY <2>2, <3>2, <3>3, Zenon
  <2>3. CASE id \in Ids
    <3>1. id # Restore /\ id # Release /\ InHand(id) = {id}
      BY <2>3, Known DEF InHand, Restore, Release
    <3>2. /\ Sound(UndoHolder(taken, id), stranded, {id})
          /\ Flushed(UndoHolder(taken, id))
          /\ UndoHolder(taken, id).log = log /\ UndoHolder(taken, id).status = status
      BY <1>10, <3>1, UndoHolderSound
    <3>3. /\ Sound(u, stranded, {id}) /\ Flushed(u) /\ u.log = log /\ u.status = status
      BY <1>10, <3>1, <3>2, Zenon
    <3> HIDE DEF u
    <3>4. After(Answer(u, id, ok), id)
      BY <1>10, <2>3, <3>3, AnsweredAfter
    <3> QED  BY <3>1, <3>4, Zenon
  <2> QED  BY <1>3, <2>1, <2>2, <2>3
<1> HIDE DEF s0
<1>12. After(s, id)
  <2>1. Good(s, stranded) /\ Fails(s0, s)
    BY <1>11, ReleaseWhenIdleGood DEF After
  <2> HIDE DEF s
  <2> QED  BY <1>11, <2>1, AfterFails
<1> HIDE DEF s
<1>13. worker.queue[1] = id /\ n \in 0..Len(worker.queue) /\ 1 \in 1..n
  BY DEF ComputeState
<1>14. \A i \in Ids : \/ s.status[i] = status[i]
                      \/ status[i] = "pending" /\ s.status[i] = "failed"
                      \/ status[i] = "pending" /\ \E j \in 1..n : worker.queue[j] = i
  BY <1>12, <1>13 DEF After
<1>15. Good(s, stranded) /\ s.log = log
  BY <1>12 DEF After
<1>16. PortsTyped'
  BY DEF IInv, PortsTyped
<1> QED
  BY <1>7, <1>13, <1>14, <1>15, <1>16, RanStep

\* Execute
LEMMA ExecuteStep ==
  ASSUME IInv, Execute
  PROVE  IInv' /\ Service!Next
<1>1. /\ worker \in ComputeState /\ worker.alive /\ worker.queue # <<>>
      /\ transit' = transit /\ stranded' = stranded
  BY Known DEF Execute, NoWorker
<1>2. PICK id : id = Head(worker.queue)
  OBVIOUS
<1>3. id \in Ids \cup {Restore, Release}
  BY <1>1, <1>2, HeadKnown
<1>4. PICK ok \in BOOLEAN : ok = Runs(worker, id)
  <2>1. Runs(worker, id) \in BOOLEAN
    BY DEF Runs
  <2> QED  BY <2>1, Zenon
<1>5. PICK x \in ComputeState : /\ x = Executed(worker, id) /\ x.queue = worker.queue
                                /\ x.host = worker.host /\ x.alive = worker.alive
  BY <1>1, <1>3, DoneTyped, Zenon
<1>6. PICK d \in ComputeState : /\ d = Answering(x) /\ d.queue = Tail(worker.queue)
                                /\ d.host = worker.host /\ d.alive = worker.alive
  BY <1>1, <1>5, AnsweringTyped, Zenon
<1>7. Become(HandleReply([Now EXCEPT !.worker = d], id, ok))
  BY <1>2, <1>4, <1>5, <1>6, Zenon DEF Execute
<1>8. PICK n \in 1..Len(worker.queue) : ran' = ran \cup First(n)
  BY DEF Execute
<1> QED
  BY <1>1, <1>2, <1>6, <1>7, <1>8, ReplyStep

\* OpenFails
LEMMA OpenFailsStep ==
  ASSUME IInv, OpenFails
  PROVE  IInv' /\ Service!Next
<1>1. /\ worker \in ComputeState /\ worker.alive /\ worker.queue # <<>>
      /\ transit' = transit /\ stranded' = stranded /\ ran' = ran \cup First(1)
  BY Known DEF OpenFails, NoWorker
<1>2. PICK id : id = Head(worker.queue)
  OBVIOUS
<1>3. id \in Ids \cup {Restore, Release} /\ OpOf(id) = "open"
  BY <1>1, <1>2, HeadKnown DEF OpenFails
<1>4. PICK open \in {"none", KindOf(id)} :
         Become(HandleReply([Now EXCEPT !.worker =
                   [Answering(worker) EXCEPT !.open = open,
                                             !.amiss = (id = Restore) <=> (open = "none")]],
                            id, FALSE))
  BY <1>2, Zenon DEF OpenFails
<1>5. open \in Kinds
  BY <1>3, <1>4, KindTyped DEF Kinds
<1>6. PICK x \in ComputeState : /\ x = Answering(worker) /\ x.queue = Tail(worker.queue)
                                /\ x.host = worker.host /\ x.alive = worker.alive
  BY <1>1, AnsweringTyped, Zenon
<1>7. PICK b \in BOOLEAN : b = ((id = Restore) <=> (open = "none"))
  OBVIOUS
<1>8. PICK d : d = [x EXCEPT !.open = open, !.amiss = b]
  OBVIOUS
<1>9. /\ d \in ComputeState /\ d.queue = Tail(worker.queue)
      /\ d.host = worker.host /\ d.alive = worker.alive
  BY <1>5, <1>6, <1>7, <1>8 DEF ComputeState
<1>10. Become(HandleReply([Now EXCEPT !.worker = d], id, FALSE))
  BY <1>4, <1>6, <1>7, <1>8, Zenon
<1>11. 1 \in 1..Len(worker.queue)
  BY <1>1 DEF ComputeState
<1> QED
  BY <1>1, <1>2, <1>9, <1>10, <1>11, ReplyStep

\* Pong
LEMMA PongStep ==
  ASSUME IInv, Pong
  PROVE  IInv' /\ Service!Next
<1> DEFINE p == [Now EXCEPT !.broker.probing = FALSE, !.worker.answered = TRUE]
           s == ReleaseWhenIdle(p)
<1>1. /\ Become(s) /\ Good(Now, stranded) /\ worker.alive
      /\ ran' = ran /\ stranded' = stranded /\ transit' = transit
  BY Zenon DEF Pong, IInv
<1>2. worker \in ComputeState
  BY <1>1, Known DEF NoWorker
<1>3. /\ p \in Handled /\ p.worker = [worker EXCEPT !.answered = TRUE]
      /\ p.broker = [broker EXCEPT !.probing = FALSE] /\ p.status = status /\ p.log = log
  BY <1>2, Known, NowFields, ZenonT(60) DEF Handled, BrokerState, ComputeState
<1> HIDE DEF p
<1>4. /\ p.worker \in ComputeState /\ p.worker.alive = worker.alive
      /\ p.worker.host = worker.host /\ p.worker.queue = worker.queue
  BY <1>2, <1>3 DEF ComputeState
<1>5. /\ p.broker.routes = broker.routes /\ p.broker.backlog = broker.backlog
      /\ p.broker.ready = broker.ready /\ p.broker.restore = broker.restore
      /\ p.broker.retiring = broker.retiring /\ p.broker.canHost = broker.canHost
      /\ p.broker.recruit = broker.recruit /\ p.broker.ports = broker.ports
      /\ p.broker.kind = broker.kind /\ p.broker.holders = broker.holders
  BY <1>3, Known DEF BrokerState
<1>6. worker # NoWorker /\ p.worker # NoWorker
  BY <1>2, <1>4, Computes
<1>7. Shape(p)
  BY <1>1, <1>3, <1>5, NowFields DEF Good, Sound, Shape
<1>8. Accounted(p, {})
  BY <1>1, <1>3, <1>5, NowFields DEF Good, Sound, Accounted, Routed, Waits, Numbers
<1>9. Gates(p, stranded)
  BY <1>1, <1>4, <1>5, <1>6, NowFields DEF Good, Sound, Gates, Routed, Waits
<1>10. Linked(p, stranded) /\ Flushed(p)
  BY <1>1, <1>4, <1>5, <1>6, NowFields DEF Good, Sound, Linked, Flushed
<1>11. Good(p, stranded)
  BY <1>7, <1>8, <1>9, <1>10 DEF Good, Sound
<1>12. Fails(Now, p)
  BY <1>3, NowFields DEF Fails
<1>13. Good(s, stranded) /\ Fails(p, s)
  BY <1>11, ReleaseWhenIdleGood
<1> HIDE DEF s
<1> QED
  BY <1>1, <1>12, <1>13, FailsOnwards, QuietStep DEF IInv, PortsTyped

(*****************************************************************************)
(* The broker's own worker fails to load.                                    *)
(*****************************************************************************)
\* The broker's own worker failed to load: what it was sent is stranded.
LEMMA HostedFailsStep ==
  ASSUME IInv, HostedFails
  PROVE  IInv' /\ Service!Next
<1> DEFINE r == [Now EXCEPT !.worker = NoWorker, !.broker.canHost = FALSE,
                            !.broker.retiring = FALSE, !.broker.probing = FALSE]
           s == RestartRecruitment(r, <<>>)
           lost == ToSet(broker.routes)
<1>1. /\ worker.host = Host /\ Become(s) /\ stranded' = lost
      /\ transit' = transit /\ ran' = ran
  BY Zenon DEF HostedFails
<1>2. /\ Sound(Now, stranded, {}) /\ Shape(Now) /\ Accounted(Now, {}) /\ Gates(Now, stranded)
      /\ Now.broker = broker /\ Now.worker = worker /\ Now.log = log /\ Now.status = status
  BY NowFields DEF IInv, Good, Sound
<1>3. worker # NoWorker
  BY <1>1, Known, Computes DEF Host
<1>4. stranded = {} /\ ~broker.restore /\ ~broker.recruit.on
  BY <1>2, <1>1, <1>3 DEF Gates
<1>5. /\ r \in Handled /\ r.worker = NoWorker /\ r.status = status /\ r.log = log
      /\ r.broker = [broker EXCEPT !.canHost = FALSE, !.retiring = FALSE, !.probing = FALSE]
  BY <1>2, Known DEF Handled, BrokerState
<1> HIDE DEF r
<1>6. /\ r.broker.routes = broker.routes /\ r.broker.backlog = broker.backlog
      /\ ~r.broker.restore /\ ~r.broker.canHost /\ ~r.broker.retiring /\ ~r.broker.recruit.on
      /\ r.broker.ports = broker.ports /\ r.broker.kind = broker.kind
      /\ r.broker.holders = broker.holders
  BY <1>4, <1>5, Known DEF BrokerState
<1>7. Shape(r)
  BY <1>2, <1>5, <1>6 DEF Shape
<1>8. Accounted(r, {})
  BY <1>2, <1>5, <1>6 DEF Accounted, Routed, Waits, Numbers
<1>9. Gates(r, lost)
  BY <1>5, <1>6, Computes DEF Gates, Host
<1>10. Linked(r, lost)
  <2>1. \A i \in DOMAIN broker.routes : broker.routes[i] \in lost
    BY DEF ToSet
  <2> QED  BY <2>1, <1>5, <1>6 DEF Linked
<1>11. Good(r, lost)
  BY <1>5, <1>7, <1>8, <1>9, <1>10 DEF Good, Sound, Flushed
<1>12. Good(s, lost) /\ Fails(r, s)
  BY <1>11, RestartGood
<1> HIDE DEF s
<1>13. Good(Now, stranded)'
  BY <1>1, <1>12, Became DEF Good, Sound, Shape
<1>14. /\ log' = log /\ Ids' = Ids
       /\ \A id \in Ids : \/ status'[id] = status[id]
                          \/ status[id] = "pending" /\ status'[id] = "failed"
  <2>1. Numbers(r) = Ids
    BY <1>5, Known DEF Numbers
  <2> QED  BY <1>1, <1>5, <1>12, <2>1 DEF Fails, Become, Ids
<1>15. RanTyped' /\ OkRan' /\ PortsTyped'
  BY <1>1, <1>14 DEF IInv, RanTyped, OkRan, PortsTyped
<1>16. \A id \in Ids : id \in lost => status[id] = "pending"
  <2>1. \A id \in Ids : id \in lost => Routed(Now, id)
    BY <1>2 DEF Routed, Contains, ToSet
  <2> QED  BY <2>1, <1>2, Known DEF Accounted
<1>17. Service!Next
  BY <1>1, <1>4, <1>14, <1>15, <1>16, Known, ServiceStep DEF OkRan
<1> QED
  BY <1>13, <1>15, <1>17 DEF IInv

(*****************************************************************************)
(* The theorems.                                                             *)
(*****************************************************************************)
\* The invariant holds at first, and the service begins.
LEMMA InitIInv == Init => IInv /\ Service!Init
<1> SUFFICES ASSUME Init  PROVE  IInv /\ Service!Init
  OBVIOUS
<1>1. PICK hosting \in BOOLEAN :
        broker = [ready |-> FALSE, restore |-> FALSE, routes |-> <<>>,
                  backlog |-> <<>>, holders |-> {}, kind |-> "none",
                  ports |-> <<>>, recruit |-> Nobody,
                  probing |-> FALSE, retiring |-> FALSE, canHost |-> hosting,
                  restoring |-> "opfs"]
  BY DEF Init
<1>2. /\ worker = NoWorker /\ inbox = [t \in Tabs |-> <<>>] /\ transit = [t \in Tabs |-> <<>>]
      /\ conn = [t \in Tabs |-> "away"] /\ driver = [t \in Tabs |-> "closed"]
      /\ log = <<>> /\ status = <<>> /\ ran = {} /\ stranded = {}
  BY DEF Init
<1>3. /\ <<>> \in Seq(Int) /\ <<>> \in Seq(Tabs) /\ <<>> \in Seq(ControlMessage)
      /\ <<>> \in Seq(Response) /\ <<>> \in Seq(Request) /\ <<>> \in Seq(BOOLEAN)
      /\ <<>> \in Seq(Nat) /\ Len(<<>>) = 0 /\ DOMAIN <<>> = {}
  OBVIOUS
<1> DEFINE b == broker
<1>4. broker \in BrokerState
  BY <1>1, <1>3 DEF BrokerState, Nobody, Kinds
<1>5. Now \in Handled
  <2>1. inbox \in [Tabs -> Seq(ControlMessage)]
    BY <1>2, <1>3
  <2>2. conn \in [Tabs -> {"away", "live", "closed", "gone"}] /\ driver \in [Tabs -> Drivers]
    BY <1>2 DEF Drivers
  <2> QED  BY <1>2, <1>3, <1>4, <2>1, <2>2 DEF Now, Handled
<1>6. /\ broker.routes = <<>> /\ broker.backlog = <<>> /\ broker.ports = <<>>
      /\ broker.holders = {} /\ broker.kind = "none" /\ ~broker.restore
      /\ ~broker.retiring /\ ~broker.recruit.on /\ ~broker.ready
  BY <1>1 DEF Nobody
<1>7. \A e : ~Contains(<<>>, e)
  BY <1>3 DEF Contains
<1>8. IsInjective(<<>>)
  BY <1>3 DEF IsInjective
<1>9. Shape(Now)
  BY <1>2, <1>3, <1>5, <1>6, <1>8, NowFields, BrokerConstants DEF Shape
<1>10. Chain(<<>>, <<>>)
  BY <1>3, <1>8 DEF Chain, Fine
<1>11. Numbers(Now) = {}
  BY <1>2, <1>3, NowFields DEF Numbers
<1>12. Accounted(Now, {})
  BY <1>6, <1>7, <1>10, <1>11, NowFields DEF Accounted, Routed, Waits
<1>13. Gates(Now, stranded)
  BY <1>2, <1>6, <1>7, NowFields, Computes DEF Gates, Host, Routed
<1>14. Linked(Now, stranded) /\ Flushed(Now)
  BY <1>2, <1>3, <1>6, NowFields DEF Linked, Flushed
<1>15. RanTyped /\ OkRan /\ PortsTyped
  <2>1. Ids = {}
    BY <1>2, <1>3 DEF Ids
  <2> QED  BY <1>2, <1>3, <2>1 DEF RanTyped, OkRan, PortsTyped
<1>16. Service!Init
  <2>1. Ids = {}
    BY <1>2, <1>3 DEF Ids
  <2>2. [id \in {} |-> [tab |-> log[id].tab, local |-> log[id].op = "close"]] = <<>>
    OBVIOUS
  <2>3. [id \in {} |-> IF id \in stranded THEN "failed" ELSE status[id]] = <<>>
    OBVIOUS
  <2> QED  BY <1>2, <2>1, <2>2, <2>3 DEF Service!Init
<1> QED
  BY <1>9, <1>12, <1>13, <1>14, <1>15, <1>16 DEF IInv, Good, Sound

\* Every step keeps the invariant, and is one of the service or a stutter.
LEMMA IInvStep ==
  ASSUME IInv, [Next]_vars
  PROVE  IInv' /\ [Service!Next]_(Service!vars)
<1>1. CASE UNCHANGED vars
  <2>1. /\ log' = log /\ status' = status /\ ran' = ran /\ stranded' = stranded
        /\ broker' = broker /\ worker' = worker /\ inbox' = inbox /\ conn' = conn
        /\ driver' = driver /\ transit' = transit
    BY <1>1 DEF vars
  <2>2. Now' = Now /\ Ids' = Ids
    BY <2>1 DEF Now, Ids
  <2>3. IInv'
    BY <2>1, <2>2 DEF IInv, RanTyped, OkRan, PortsTyped
  <2>4. UNCHANGED Service!vars
    BY <2>1, <2>2 DEF Service!vars
  <2> QED  BY <2>3, <2>4
<1>2. CASE Next
  <2> SUFFICES IInv' /\ Service!Next
    OBVIOUS
  <2>1. CASE \E t \in Tabs : Connect(t)
    BY <2>1, ConnectStep
  <2>2. CASE \E t \in Tabs : Close(t)
    BY <2>2, CloseStep
  <2>3. CASE \E t \in Tabs : Destroy(t)
    BY <2>3, DestroyStep
  <2>4. CASE \E t \in Tabs : Work(t)
    BY <2>4, WorkStep
  <2>5. CASE \E t \in Tabs : \E kind \in Storage[t] : Open(t, kind)
    BY <2>5, OpenStep
  <2>6. CASE \E t \in Tabs : HandleControl(t)
    BY <2>6, HandleControlStep
  <2>7. CASE \E t \in Tabs : AdoptWorkerPort(t)
    BY <2>7, AdoptWorkerPortStep
  <2>8. CASE \E t \in Tabs : PageDies(t)
    BY <2>8, PageDiesStep
  <2>9. CASE Execute
    BY <2>9, ExecuteStep
  <2>16. CASE OpenFails
    BY <2>16, OpenFailsStep
  <2>17. CASE Pong
    BY <2>17, PongStep
  <2>10. CASE PingDeadline
    BY <2>10, PingDeadlineStep
  <2>11. CASE Watchdog
    BY <2>11, WatchdogStep
  <2>12. CASE SpawnDeadline
    BY <2>12, SpawnDeadlineStep
  <2>13. CASE ReleaseDeadline
    BY <2>13, ReleaseDeadlineStep
  <2>14. CASE HostedDies
    BY <2>14, HostedDiesStep
  <2>15. CASE HostedFails
    BY <2>15, HostedFailsStep
  <2> QED
    BY <1>2, <2>1, <2>2, <2>3, <2>4, <2>5, <2>6, <2>7, <2>8, <2>9, <2>10, <2>11, <2>12,
       <2>13, <2>14, <2>15, <2>16, <2>17 DEF Next
<1> QED
  BY <1>1, <1>2

\* Between them, the queues of a good state hold what is pending once.
LEMMA IInvAnswered == IInv => AnsweredOnce
<1> SUFFICES ASSUME IInv  PROVE  AnsweredOnce
  OBVIOUS
<1>1. /\ Shape(Now) /\ Accounted(Now, {}) /\ Gates(Now, stranded) /\ Linked(Now, stranded)
  BY DEF IInv, Good, Sound
<1>2. broker.routes \in Seq(Int) /\ broker.backlog \in Seq(Int)
  BY Known DEF BrokerState
<1>3. TypeOK
  <2>1. /\ broker.holders \subseteq Tabs /\ IsInjective(broker.ports)
        /\ Len(broker.ports) <= Candidates
        /\ (broker.kind = "none") <=> (broker.holders = {})
    BY <1>1, Known, NowFields DEF Shape, BrokerState
  <2>2. worker = NoWorker => broker.routes = <<>> \/ stranded # {}
    <3>1. worker = NoWorker => \A i \in DOMAIN broker.routes : broker.routes[i] \in stranded
      BY <1>1, NowFields DEF Linked
    <3>2. broker.routes # <<>> => 1 \in DOMAIN broker.routes
      BY <1>2
    <3> QED  BY <3>1, <3>2
  <2>3. (broker.recruit.on => worker = NoWorker) /\ (broker.retiring => worker.host = Host)
    BY <1>1, NowFields DEF Gates
  <2>4. \A id \in Ids : log[id] \in Request
    BY Known
  <2>5. \A t \in Tabs : ToSet(inbox[t]) \subseteq ControlMessage
    <3>1. \A t \in Tabs : inbox[t] \in Seq(ControlMessage)
      BY Known
    <3>2. \A x \in Seq(ControlMessage) : ToSet(x) \subseteq ControlMessage
      BY DEF ToSet
    <3> QED  BY <3>1, <3>2
  <2> QED
    BY <2>1, <2>2, <2>3, <2>4, <2>5, Known DEF TypeOK, IInv, RanTyped
<1>4. \A id \in Ids : status[id] \in Response
  BY Known
<1>5. IsInjective(broker.routes \o broker.backlog)
  BY <1>1, NowFields, ChainJoined DEF Accounted, Fine
<1>6. \A id \in Ids : Contains(broker.routes \o broker.backlog, id) <=> status[id] = "pending"
  <2>1. \A id \in Ids : status[id] = "pending" <=> Contains(broker.routes, id) \/ Contains(broker.backlog, id)
    BY <1>1, Known, NowFields DEF Accounted, Routed, Waits
  <2>2. \A id : Contains(broker.routes \o broker.backlog, id)
                 <=> Contains(broker.routes, id) \/ Contains(broker.backlog, id)
    BY <1>2, JoinedMembers
  <2> QED  BY <2>1, <2>2
<1> QED
  BY <1>3, <1>4, <1>5, <1>6 DEF AnsweredOnce

\* No request is dropped and none is answered twice (AnsweredOnce): for any number
\* of tabs, requests, deaths, slow tabs and replays, an unanswered request is in
\* exactly one of the routes and the backlog of shared-worker.ts, once, and an
\* answered one in neither.
THEOREM RequestsAnsweredOnce == Spec => []AnsweredOnce
<1>1. Init => IInv
  BY InitIInv
<1>2. IInv /\ [Next]_vars => IInv'
  BY IInvStep
<1>3. IInv => AnsweredOnce
  BY IInvAnswered
<1> QED  BY <1>1, <1>2, <1>3, PTL DEF Spec

\* What the tabs see (ServesInOrder): requests run in the order their tab posted
\* them, each is answered once, and is a success only after it ran; whatever died
\* between the routing, the replay and the answer.
THEOREM RequestsServedInOrder == Spec => ServesInOrder
<1>1. Init => IInv /\ Service!Init
  BY InitIInv
<1>2. IInv /\ [Next]_vars => IInv' /\ [Service!Next]_(Service!vars)
  BY IInvStep
<1> QED  BY <1>1, <1>2, PTL DEF Spec, ServesInOrder, Service!Spec
=============================================================================
