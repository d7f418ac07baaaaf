--------------------------- MODULE SharedDatabase ----------------------------
(***************************************************************************)
(* Several contexts (tabs) with one database each over the same storage:   *)
(* db.read and db.write blocks, the broker's work slots they hold, the     *)
(* local work queue they run in, the broadcasts that keep the record       *)
(* caches of the other contexts up to date, direct fetches, and close().   *)
(*                                                                         *)
(* Storage is one record, abstracted to how many updates it holds: a write *)
(* block reads it through the cache and stores what it read plus one, so   *)
(* an update built on a stale read is lost, and shows.                     *)
(*                                                                         *)
(* What a context posts to the broker arrives at once: a delay would only  *)
(* postpone the call, as each port keeps its order.  What the broker posts *)
(* waits in the context's inbox.  The driver is WebSqliteDriver in shared  *)
(* mode; under a driver without slots there is one context, and its blocks *)
(* go straight to the queue.                                               *)
(***************************************************************************)
EXTENDS Integers, Sequences

CONSTANTS
  Context,
  Block,     \* the calls of db.read and db.write
  Writer,    \* those of db.write
  Closer     \* the contexts whose application may call close()

ASSUME SharedConstants ==
  /\ Writer \subseteq Block
  /\ Closer \subseteq Context

VARIABLES
  stored,     \* the record in storage
  cache,      \* each context's cached instance of it
  fetched,    \* the row a direct fetch of the context has on its way back
  home,       \* the context each block is called in
  phase,      \* where each block stands
  base,       \* what each block read
  slotQueue,  \* the broker's queue of slot requests
  held,       \* the blocks that hold a slot
  inbox,      \* each context's messages from the broker
  queue,      \* each context's work queue, the running item first
  closing     \* how far each context's close() is

brokerVars == <<slotQueue, held, inbox>>
blockVars  == <<home, phase, base>>
dataVars   == <<stored, cache, fetched>>
vars == <<dataVars, blockVars, brokerVars, queue, closing>>

None == -1

\* What a broker message, and then an item of the work queue, is about.
BlockItem(b) == [kind |-> "block", of |-> b]
ApplyItem(v) == [kind |-> "apply", of |-> v]
CloseItem    == [kind |-> "close", of |-> "driver"]

Init ==
  /\ stored = 0
  /\ cache = [c \in Context |-> None]
  /\ fetched = [c \in Context |-> None]
  /\ home \in [Block -> Context]
  /\ phase = [b \in Block |-> "new"]
  /\ base = [b \in Block |-> None]
  /\ slotQueue = <<>>
  /\ held = {}
  /\ inbox = [c \in Context |-> <<>>]
  /\ queue = [c \in Context |-> <<>>]
  /\ closing = [c \in Context |-> "open"]

(***************************************************************************)
(* The broker.  Slots are granted in request order: a writer alone,        *)
(* readers together, and nobody passes a writer that waits.                *)
(***************************************************************************)
\* Mistake: a writer only waits for other writers.
GrantableBesideReaders == slotQueue # <<>> /\ held \cap Writer = {}

Grantable ==
  /\ slotQueue # <<>>
  /\ IF Head(slotQueue) \in Writer THEN held = {} ELSE held \cap Writer = {}

\* The broker handles its next message when it can grant no more.
BrokerIdle == ~Grantable

GrantSlot ==
  LET b == Head(slotQueue)
  IN  /\ Grantable
      /\ slotQueue' = Tail(slotQueue)
      /\ held' = held \cup {b}
      /\ inbox' = [inbox EXCEPT ![home[b]] = Append(@, BlockItem(b))]
      /\ UNCHANGED <<dataVars, blockVars, queue, closing>>

\* Mistake: nobody is told of a commit.
ToNobody(c, v) == inbox

\* A change set goes to every other context that holds the database.
Broadcast(c, v) ==
  [x \in Context |-> IF x = c \/ closing[x] = "closed" THEN inbox[x]
                     ELSE Append(inbox[x], ApplyItem(v))]

(***************************************************************************)
(* A block: accepted and waiting for its slot, in the queue, at work, out  *)
(* of the queue, and done when its slot is given back.                     *)
(***************************************************************************)
AcceptedPhases == {"waiting", "queued", "read", "stored", "published", "ended"}

\* Mistake: a block counts from the moment it is in the queue.
QueuedWork(c) ==
  {b \in Block : home[b] = c /\ phase[b] \in AcceptedPhases \ {"waiting"}}

AcceptedWork(c) == {b \in Block : home[b] = c /\ phase[b] \in AcceptedPhases}

Goto(b, label) == phase' = [phase EXCEPT ![b] = label]

CallBlock(b) ==
  /\ phase[b] = "new"
  /\ IF closing[home[b]] # "open"
       THEN /\ Goto(b, "refused")
            /\ UNCHANGED slotQueue
       ELSE /\ BrokerIdle
            /\ Goto(b, "waiting")
            /\ slotQueue' = Append(slotQueue, b)
  /\ UNCHANGED <<dataVars, home, base, held, inbox, queue, closing>>

Enqueue(c, item) == queue' = [queue EXCEPT ![c] = Append(@, item)]
Dequeue(c)       == queue' = [queue EXCEPT ![c] = Tail(@)]

Running(c, item) == queue[c] # <<>> /\ Head(queue[c]) = item

\* The driver's messages in order: a grant puts its block into the queue, a
\* change set of another context is applied in its turn, unless the
\* database is closing.
Receive(c) ==
  LET item == Head(inbox[c])
  IN  /\ inbox[c] # <<>>
      /\ closing[c] # "closed"
      /\ inbox' = [inbox EXCEPT ![c] = Tail(@)]
      /\ IF item.kind = "block" THEN Goto(item.of, "queued") ELSE UNCHANGED phase
      /\ IF item.kind = "block" \/ closing[c] = "open"
           THEN Enqueue(c, item) ELSE UNCHANGED queue
      /\ UNCHANGED <<dataVars, home, base, slotQueue, held, closing>>

\* Mistake: a change of a record this context has not cached is skipped.
RefreshCached(c, v) == IF cache[c] = None THEN None ELSE v

\* A change set brings the cached instance up to date, or makes one.
Refreshed(c, v) == v

ApplyExternalChanges(c) ==
  LET item == Head(queue[c])
  IN  /\ queue[c] # <<>>
      /\ item.kind = "apply"
      /\ cache' = [cache EXCEPT ![c] = Refreshed(c, item.of)]
      /\ Dequeue(c)
      /\ UNCHANGED <<stored, fetched, blockVars, brokerVars, closing>>

\* The cached instance of the record is authoritative over its row.
Canonical(c, row) == IF cache[c] # None THEN cache[c] ELSE row

Read(b) ==
  LET c == home[b]
  IN  /\ phase[b] = "queued"
      /\ Running(c, BlockItem(b))
      /\ Goto(b, "read")
      /\ base' = [base EXCEPT ![b] = Canonical(c, stored)]
      /\ cache' = [cache EXCEPT ![c] = Canonical(c, stored)]
      /\ UNCHANGED <<stored, fetched, home, brokerVars, queue, closing>>

\* The batch commits in storage.
Commit(b) ==
  /\ b \in Writer
  /\ phase[b] = "read"
  /\ Goto(b, "stored")
  /\ stored' = base[b] + 1
  /\ UNCHANGED <<cache, fetched, home, base, brokerVars, queue, closing>>

\* Its answer updates the cache, then publishes the change.
Publish(b) ==
  LET c == home[b]
  IN  /\ phase[b] = "stored"
      /\ BrokerIdle
      /\ Goto(b, "published")
      /\ cache' = [cache EXCEPT ![c] = base[b] + 1]
      /\ inbox' = Broadcast(c, base[b] + 1)
      /\ UNCHANGED <<stored, fetched, home, base, slotQueue, held, queue, closing>>

\* A block ends after its commit, or without one: it only read, or failed.
Finish(b) ==
  /\ phase[b] \in {"read", "published"}
  /\ Goto(b, "ended")
  /\ Dequeue(home[b])
  /\ UNCHANGED <<dataVars, home, base, brokerVars, closing>>

\* Mistake: a reader keeps its slot.
ReturnedByWriters(b) == held \ ({b} \cap Writer)

Returned(b) == held \ {b}

\* The slot goes back, and only then the block no longer counts as accepted.
Release(b) ==
  /\ phase[b] = "ended"
  /\ BrokerIdle
  /\ Goto(b, "done")
  /\ held' = Returned(b)
  /\ UNCHANGED <<dataVars, home, base, slotQueue, inbox, queue, closing>>

(***************************************************************************)
(* Direct work: a fetch outside the queue, admitted until the teardown.    *)
(***************************************************************************)
\* Mistake: admitted as long as the driver is there.
AdmittedToTheEnd(c) == closing[c] # "closed"

DirectAdmitted(c) == closing[c] \notin {"teardown", "closed"}

StartFetch(c) ==
  /\ DirectAdmitted(c)
  /\ fetched[c] = None
  /\ fetched' = [fetched EXCEPT ![c] = stored]
  /\ UNCHANGED <<stored, cache, blockVars, brokerVars, queue, closing>>

FinishFetch(c) ==
  /\ fetched[c] # None
  /\ cache' = [cache EXCEPT ![c] = Canonical(c, fetched[c])]
  /\ fetched' = [fetched EXCEPT ![c] = None]
  /\ UNCHANGED <<stored, blockVars, brokerVars, queue, closing>>

(***************************************************************************)
(* close(): accepted blocks finish, a barrier goes through the queue,      *)
(* direct work drains, the driver closes.                                  *)
(***************************************************************************)
CloseStage(c, from, to) ==
  /\ closing[c] = from
  /\ closing' = [closing EXCEPT ![c] = to]
  /\ UNCHANGED <<dataVars, blockVars, slotQueue, held>>

RequestClose(c) ==
  /\ c \in Closer
  /\ CloseStage(c, "open", "requested")
  /\ UNCHANGED <<queue, inbox>>

EnterBarrier(c) ==
  /\ AcceptedWork(c) = {}
  /\ CloseStage(c, "requested", "barrier")
  /\ Enqueue(c, CloseItem)
  /\ UNCHANGED inbox

StartTeardown(c) ==
  /\ Running(c, CloseItem)
  /\ CloseStage(c, "barrier", "teardown")
  /\ UNCHANGED <<queue, inbox>>

CloseDriver(c) ==
  /\ fetched[c] = None
  /\ CloseStage(c, "teardown", "closed")
  /\ Dequeue(c)
  /\ inbox' = [inbox EXCEPT ![c] = <<>>]

-----------------------------------------------------------------------------
BlockStep(b) == Read(b) \/ Commit(b) \/ Publish(b) \/ Finish(b) \/ Release(b)

CloseStep(c) == EnterBarrier(c) \/ StartTeardown(c) \/ CloseDriver(c)

Next ==
  \/ \E b \in Block : CallBlock(b) \/ BlockStep(b)
  \/ GrantSlot
  \/ \E c \in Context :
       \/ Receive(c) \/ ApplyExternalChanges(c)
       \/ StartFetch(c) \/ FinishFetch(c)
       \/ RequestClose(c) \/ CloseStep(c)

Spec == Init /\ [][Next]_vars

\* Messages are delivered, queued work runs, a block's own work ends and
\* storage answers.  The application owes no call.
FairSpec ==
  /\ Spec
  /\ WF_vars(GrantSlot)
  /\ \A b \in Block : WF_vars(BlockStep(b))
  /\ \A c \in Context :
       /\ WF_vars(Receive(c)) /\ WF_vars(ApplyExternalChanges(c))
       /\ WF_vars(FinishFetch(c)) /\ WF_vars(CloseStep(c))

-----------------------------------------------------------------------------
(***************************************************************************)
(* Properties.                                                             *)
(***************************************************************************)
Phases == {"new", "refused", "done"} \cup AcceptedPhases
Stages == {"open", "requested", "barrier", "teardown", "closed"}

Message == [kind : {"block"}, of : Block] \cup [kind : {"apply"}, of : Nat]

\* A block between its read and its end.
Inside(b) == phase[b] \in {"read", "stored", "published"}

\* Every variable stays in its domain, and a block at work has read a row.
TypeOK ==
  /\ stored \in Nat
  /\ cache \in [Context -> Nat \cup {None}]
  /\ fetched \in [Context -> Nat \cup {None}]
  /\ home \in [Block -> Context]
  /\ phase \in [Block -> Phases]
  /\ base \in [Block -> Nat \cup {None}]
  /\ slotQueue \in Seq(Block)
  /\ held \in SUBSET Block
  /\ inbox \in [Context -> Seq(Message)]
  /\ queue \in [Context -> Seq(Message \cup {CloseItem})]
  /\ closing \in [Context -> Stages]
  /\ \A b \in Block : Inside(b) => base[b] # None

\* While a write block is at work no other block is, in any context: a read
\* block is a consistency window and a write block an exclusive one across
\* all tabs.
WindowsHold ==
  \A w \in Writer, b \in Block : w # b /\ Inside(w) => ~Inside(b)

\* A block of an open context reads the latest record: its context has applied
\* every change that was serialized before it, because those were published
\* before the slot was given back, and none is made before the block is done.
OpenBlocksReadFresh ==
  \A b \in Block :
    phase[b] = "read" /\ closing[home[b]] = "open" => base[b] = stored

\* "A block therefore always reads a cache that includes everything
\* serialized ahead of it": also one accepted before close() was called.
BlocksReadFresh ==
  \A b \in Block : phase[b] = "read" => base[b] = stored

\* When a block happens: a writer when it commits, any other when it ends.  Until
\* then nobody can tell it from one that has not begun.
Happened(b) ==
  IF phase[b] \in {"stored", "published", "ended", "done"} THEN base[b] ELSE None

Atomic == INSTANCE AtomicBlocks WITH
  record  <- stored,
  seen    <- [b \in Block |-> Happened(b)],
  leaving <- {b \in Block : closing[home[b]] # "open"}

\* The blocks of all tabs happen one at a time, in an order in which each reads
\* what those before it left.
BlocksAreAtomic == Atomic!Spec

\* A closed driver has left nothing behind: no accepted block waits for a
\* slot or runs, no slot is held, no direct fetch is out.
ClosedQuietly ==
  \A c \in Context : closing[c] = "closed" =>
    /\ fetched[c] = None
    /\ \A b \in Block : home[b] = c =>
         phase[b] \in {"new", "refused", "done"} /\ b \notin held

\* Whatever was accepted runs to its end, also when its context closes: in
\* the end no block waits for a slot or stands in a queue.
AcceptedWorkEnds == <>[](\A b \in Block : phase[b] \notin AcceptedPhases)

\* close() resolves: nothing it waits for waits for it.
CloseResolves == <>[](\A c \in Context : closing[c] \in {"open", "closed"})

\* When writing ends, every open context that cached the record ends up
\* with what storage holds.
CachesConverge ==
  <>[](\A c \in Context : closing[c] = "open" => cache[c] \in {None, stored})

-----------------------------------------------------------------------------
(***************************************************************************)
(* Why they hold: the inductive invariants of the proofs.                  *)
(***************************************************************************)

\* What is at work is what the queue has in front.
FrontInv ==
  /\ \A b \in Block : Inside(b) => Running(home[b], BlockItem(b))
  /\ \A c \in Context : closing[c] = "teardown" => Running(c, CloseItem)

\* A writer that holds a slot holds the only one, and a block is past
\* waiting only while it holds one.
HoldersInv ==
  /\ \A w \in held \cap Writer : held = {w}
  /\ \A b \in held : phase[b] \in AcceptedPhases
  /\ \A b \in Block : phase[b] \in AcceptedPhases \ {"waiting"} => b \in held

\* A request waits for a block without a slot, and none is made twice.
RequestsInv ==
  /\ \A k \in DOMAIN slotQueue :
       phase[slotQueue[k]] = "waiting" /\ slotQueue[k] \notin held
  /\ \A j, k \in DOMAIN slotQueue : slotQueue[j] = slotQueue[k] => j = k

IsGrant(c, k) == k \in DOMAIN inbox[c] /\ inbox[c][k].kind = "block"

\* A grant on its way is for a block that waits in that context, and comes once.
GrantsInv ==
  \A c \in Context :
    /\ \A k \in Nat : IsGrant(c, k) =>
         LET b == inbox[c][k].of
         IN  phase[b] = "waiting" /\ b \in held /\ home[b] = c
    /\ \A j, k \in Nat :
         IsGrant(c, j) /\ IsGrant(c, k) /\ inbox[c][j].of = inbox[c][k].of => j = k

SlotsInv == HoldersInv /\ RequestsInv /\ GrantsInv

\* Once the barrier is in the queue the context has no block left.
ClosingInv ==
  \A c \in Context :
    /\ closing[c] \in {"barrier", "teardown", "closed"} =>
         \A b \in Block : home[b] = c => phase[b] \in {"new", "refused", "done"}
    /\ closing[c] = "closed" => fetched[c] = None

\* What a context has still to do, the running item first.
Stream(c) == queue[c] \o inbox[c]

IsItem(s, k, kind) == k \in DOMAIN s /\ s[k].kind = kind

\* The blocks of a context that hold a slot and have not ended.
Turns(c) ==
  {b \in Block : home[b] = c /\ b \in held /\ phase[b] \in AcceptedPhases \ {"ended"}}

\* A block that is still to come in an open context is one of its own that
\* has a turn, and comes once.
UpcomingInv ==
  \A c \in Context : closing[c] = "open" =>
    /\ \A k \in Nat : IsItem(Stream(c), k, "block") => Stream(c)[k].of \in Turns(c)
    /\ \A j, k \in Nat :
         /\ IsItem(Stream(c), j, "block") /\ IsItem(Stream(c), k, "block")
         /\ Stream(c)[j].of = Stream(c)[k].of
         => j = k

\* Nothing is published behind the turn of a block: its slot keeps every
\* other writer from committing.
OrderInv ==
  \A c \in Context, j, k \in Nat :
    /\ closing[c] = "open"
    /\ IsItem(Stream(c), j, "block") /\ IsItem(Stream(c), k, "apply")
    => k < j

NoChangeComes(c) == \A k \in Nat : ~IsItem(Stream(c), k, "apply")

\* The last change to come in a context, if there is one, holds the record.
LastChange(c, k) ==
  /\ IsItem(Stream(c), k, "apply")
  /\ \A j \in Nat : IsItem(Stream(c), j, "apply") => j <= k

\* A context will have the record once it has done what is before it: it is
\* the last change to come, or it is cached, or nothing else is about to be.
BroughtUpToDate(c) ==
  \/ \E k \in Nat : LastChange(c, k) /\ Stream(c)[k].of = stored
  \/ /\ NoChangeComes(c)
     /\ \/ cache[c] = stored
        \/ cache[c] = None /\ fetched[c] \in {None, stored}

\* What is stored and not yet published is what its block read, plus one.
StoredByOne == \A b \in Block : phase[b] = "stored" => b \in Writer /\ stored = base[b] + 1

NothingUnpublished == \A b \in Block : phase[b] # "stored"

\* Unless a commit is on its way out, every open context will have the record.
PublishedInv ==
  /\ StoredByOne
  /\ NothingUnpublished => \A c \in Context : closing[c] = "open" => BroughtUpToDate(c)

FreshInv == UpcomingInv /\ OrderInv /\ PublishedInv /\ OpenBlocksReadFresh

=============================================================================
