------------------------------ MODULE Observe ------------------------------
(***************************************************************************)
(* One context observing a query: the store that the react hooks subscribe *)
(* to, Query.observe and observeCount behind it, the identity map their    *)
(* records live in (RecordCache, Collection.models), the two ways a commit *)
(* becomes known here - this context's own batch, and another context's,   *)
(* relayed - and the driver between them, whose answers come some time     *)
(* after the statement ran.                                                *)
(*                                                                         *)
(* The web driver answers in the order it ran things and relays a commit   *)
(* after the answers that precede it (ordered).  A driver in the same      *)
(* process has no other context, and its answers are promises whose        *)
(* continuations may overtake each other.                                  *)
(*                                                                         *)
(* The other contexts may run an older schema, which lacks some columns.   *)
(*                                                                         *)
(* What a query means is left to whoever instantiates the module (Queries  *)
(* does): observing takes no more of it than QueriesAnswer says.           *)
(***************************************************************************)
EXTENDS StoredRows, Integers, Sequences, SequencesExt, Functions

CONSTANTS TableIds,     \* table -> the ids records of it may have
          Vals,         \* table -> what a write may put in its val column
          Refs,         \* table -> what a write may put in its ref column
          Observed,     \* the queries to observe, a sequence,
          Describe(_),    \* what is known of each: [table, tables, countable],
          Asks(_, _),     \* the rows that are asked of a storage by a query,
          Fetches(_, _),  \* those its statement returns,
          Counts(_, _),   \* and how many, in count mode
          Storages,     \* the storages to start from
          Unknown,      \* table -> the columns the other contexts' schema lacks
          MaxWrites,    \* commits, of both kinds
          MaxExtras     \* failures, fetches, mounts after the first: together

Tables == DOMAIN TableIds

Described == [i \in DOMAIN Observed |-> Describe(Observed[i])]

ASSUME ObserveAssumption ==
    /\ MaxWrites \in Nat /\ MaxExtras \in Nat
    /\ Unknown \in [Tables -> SUBSET {"val", "ref"}]
    /\ \A t \in Tables : Null \notin TableIds[t] \cup Vals[t]

(* The rows a table may hold: a column its writer does not know is null.   *)
TableRows(t) ==
    LET OrNull(values, column) == values \cup IF column \in Unknown[t] THEN {Null} ELSE {}
        Row(id) == {NoRow} \cup [id : {id}, val : OrNull(Vals[t], "val"),
                                 ref : OrNull(Refs[t], "ref"), gone : BOOLEAN]
    IN  {f \in [TableIds[t] -> UNION {Row(id) : id \in TableIds[t]}] :
            \A id \in TableIds[t] : f[id] \in Row(id)}

AnyStorage ==
    {s \in [Tables -> UNION {TableRows(t) : t \in Tables}] :
        \A t \in Tables : s[t] \in TableRows(t)}

(* A statement returns what is asked for: live rows of the query's table,  *)
(* chosen by nothing but its tables.                                       *)
ASSUME QueriesAnswer ==
    /\ Storages \subseteq AnyStorage
    /\ \A q \in Range(Described) :
          /\ q.table \in q.tables /\ q.tables \subseteq Tables /\ q.countable \in BOOLEAN
          /\ \A s \in AnyStorage :
                /\ Fetches(s, q) = Asks(s, q)
                /\ q.countable => Counts(s, q) = Len(Asks(s, q))
                /\ \A i \in DOMAIN Asks(s, q) : \E id \in TableIds[q.table] :
                      Asks(s, q)[i] = s[q.table][id] /\ Live(s[q.table][id])
                /\ \A t \in Tables \ q.tables : \A rows \in TableRows(t) :
                      Asks([s EXCEPT ![t] = rows], q) = Asks(s, q)

VARIABLES
    query,     \* [of, kind]: which one is observed, as records or as a count
    ordered,   \* do answers and relayed commits arrive in order
    store,     \* the rows in storage
    version,   \* how many commits storage has had
    cache,     \* RecordCache: the raw this context holds of a row
    models,    \* ids of the observed table with a Model
    orphans,   \* of those, the ones whose Model wraps a raw the cache dropped
    partial,   \* history: <<table, id>> whose cached raw was made from a row
               \* that lacked columns
    observer,  \* the store and the closure of observe: see Init
    queue,     \* statements posted to the driver and not run
    inbox,     \* answers and relayed commits not handled
    relay,     \* other contexts' commits not relayed yet
    spent      \* of MaxExtras

env      == <<query, ordered>>
storage  == <<store, version>>
identity == <<cache, models, orphans, partial>>
vars     == <<env, storage, identity, observer, queue, inbox, relay, spent>>

Asked == Described[query.of]

(* What a hook returns: data, isLoading, error.                            *)
Shown(data, error) == [data |-> data, loading |-> FALSE, error |-> error]

Nothing == IF query.kind = "count" THEN 0 ELSE <<>>
Loading == [data |-> Nothing, loading |-> TRUE, error |-> FALSE]

Init ==
    /\ query \in [of : DOMAIN Observed, kind : {"records", "count"}]
    /\ ordered \in BOOLEAN
    /\ store \in Storages
    /\ version = 0
    /\ cache = [t \in Tables |-> [id \in TableIds[t] |-> NoRow]]
    /\ models = {} /\ orphans = {} /\ partial = {}
    /\ observer = [listeners |-> 0,       \* of the store; observing while there are any
                   value |-> Loading,     \* the store's snapshot
                   latest |-> Nothing,    \* what the store was last given
                   generation |-> 0,
                   previous |-> <<>>,     \* what was last emitted, by content; <<>>: nothing
                   asOf |-> 0,            \* the version the last answer taken was read at
                   failed |-> FALSE,      \* the last answer taken was an error
                   kept |-> FALSE,        \* history: the one before it was, and still shows,
                                          \* as the last answer equalled the last emission
                   missed |-> FALSE]      \* a change of its tables was dropped unannounced
    /\ queue = <<>> /\ inbox = <<>> /\ relay = <<>>
    /\ spent = 0

-----------------------------------------------------------------------------
(* Changes: [table, id, type, row, soft].  A destroyed one is soft when    *)
(* the row stays as a tombstone.                                           *)

Change(t, id, type, row, soft) ==
    [table |-> t, id |-> id, type |-> type, row |-> row, soft |-> soft]

RowsOf(t, id) ==
    {[id |-> id, val |-> v, ref |-> r, gone |-> FALSE] : v \in Vals[t], r \in Refs[t]}

(* What can be written by a writer that finds the rows base[t][id] and     *)
(* whose schema lacks the columns lacks[t].                                *)
Changes(base, lacks) ==
    UNION {UNION {
        LET Seen(row) == Restrict(row, DOMAIN row \ lacks[t])
            rows == {Seen(row) : row \in RowsOf(t, id)}
        IN  {Change(t, id, "created", row, FALSE) :
                row \in IF store[t][id] = NoRow THEN rows ELSE {}}
            \cup (IF base[t][id] = NoRow THEN {}
                  ELSE {Change(t, id, "updated", row, FALSE) :
                            row \in rows \ {Seen(base[t][id])}}
                       \cup {Change(t, id, "destroyed", NoRow, soft) : soft \in BOOLEAN})
        : id \in TableIds[t]} : t \in Tables}

(* The statement encodeBatch makes of a change, run on storage: it names   *)
(* the columns of the writer's schema and leaves the others alone.         *)
Written(change) ==
    LET t == change.table  id == change.id  before == store[t][id]
        after == IF change.type = "created" THEN Over(change.row, NoRow)
                 ELSE IF before = NoRow THEN NoRow
                 ELSE IF change.type = "updated" THEN Over(change.row, before)
                 ELSE IF change.soft THEN Over([gone |-> TRUE], before) ELSE NoRow
    IN  [store EXCEPT ![t][id] = after]

-----------------------------------------------------------------------------
(* Raw records: val is a number, ref an optional one.                      *)

NullValue(column) == IF column = "ref" THEN Null ELSE 0

(* What is missing or no value of the column's type becomes its null value.*)
SanitizeValue(raw, column) ==
    IF column \in DOMAIN raw /\ raw[column] # Null THEN raw[column] ELSE NullValue(column)

SanitizedRaw(raw) ==
    [id |-> raw.id, val |-> SanitizeValue(raw, "val"), ref |-> SanitizeValue(raw, "ref"),
     gone |-> raw.gone]

InFlight(kinds) ==
    \/ \E i \in DOMAIN queue : queue[i].op \in kinds
    \/ \E i \in DOMAIN inbox : inbox[i].op \in kinds

-----------------------------------------------------------------------------
(* The observer.                                                           *)

(* refetch: an answer to an earlier one will not be of this generation.    *)
Fetch(generation) ==
    [op |-> IF query.kind = "count" THEN "count" ELSE "fetch", generation |-> generation]

(* A count of a query with take or skip is refused before the driver sees  *)
(* it, and reported as an error.                                           *)
Refused == query.kind = "count" /\ ~Asked.countable

Refetched(o) ==
    [o EXCEPT !.generation = @ + 1, !.missed = FALSE, !.failed = Refused,
              !.value = IF Refused THEN Shown(o.latest, TRUE) ELSE @]

PostFetch(posted) ==
    queue' = IF Refused THEN posted ELSE Append(posted, Fetch(observer.generation + 1))

(* The store of the query's key: the one a component still has, with what  *)
(* it was last given, or a new one when the registry forgot it.            *)
Stores == {observer.latest, Nothing}

(* A component subscribes to the store; the first one starts to observe.   *)
Mount ==
    /\ observer.listeners < 2
    /\ IF observer.generation = 0 THEN UNCHANGED spent
       ELSE spent < MaxExtras /\ spent' = spent + 1
    /\ IF observer.listeners = 0
       THEN /\ \E latest \in Stores :
                  observer' = Refetched([observer EXCEPT !.listeners = 1, !.latest = latest])
            /\ PostFetch(queue)
       ELSE /\ observer' = [observer EXCEPT !.listeners = 2]
            /\ UNCHANGED queue
    /\ UNCHANGED <<env, storage, identity, inbox, relay>>

\* Mistake: what was emitted last is remembered.
LeavesRemembering(o) ==
    IF o.listeners = 2 THEN [o EXCEPT !.listeners = 1]
    ELSE [o EXCEPT !.listeners = 0, !.value = Loading, !.missed = FALSE, !.failed = FALSE,
                   !.kept = FALSE]

(* The last one to leave ends it, and the store is as it was at first.     *)
Leaves(o) ==
    IF o.listeners = 2 THEN [o EXCEPT !.listeners = 1]
    ELSE [o EXCEPT !.listeners = 0, !.value = Loading, !.previous = <<>>,
                   !.missed = FALSE, !.failed = FALSE, !.kept = FALSE]

Unmount ==
    /\ observer.listeners > 0
    /\ observer' = Leaves(observer)
    /\ UNCHANGED <<env, storage, identity, queue, inbox, relay, spent>>

(* Does the answer differ from the last emission: in length, or anywhere   *)
(* by its raw or by the content of a column.                               *)
Differs(previous, result) == previous # <<result>>

\* Mistake: an answer of an earlier refetch is taken too.
WantsAny(generation) == observer.listeners > 0

(* The answer is of the newest refetch and somebody still wants it.        *)
Wants(generation) == observer.listeners > 0 /\ generation = observer.generation

(* The subscriber is called only for a result that differs; what was       *)
(* emitted is kept by content: the records themselves change in place.     *)
Taken(result, asOf) ==
    LET taken == [observer EXCEPT !.asOf = asOf, !.failed = FALSE, !.kept = observer.value.error]
    IN  IF Differs(observer.previous, result)
        THEN [taken EXCEPT !.previous = <<result>>, !.latest = result, !.kept = FALSE,
                           !.value = Shown(result, FALSE)]
        ELSE taken

(* The error comes with what the store was last given.                     *)
Reported(asOf) ==
    [observer EXCEPT !.asOf = asOf, !.failed = TRUE, !.kept = FALSE,
                     !.value = Shown(observer.latest, TRUE)]

-----------------------------------------------------------------------------
(* The identity map.                                                       *)

(* recordFromRow: the cached raw if there is one - its content is what     *)
(* counts - else the row becomes it.                                       *)
Resolved(rows) ==
    LET t == Asked.table
    IN  [i \in DOMAIN rows |->
            IF cache[t][rows[i].id] # NoRow THEN cache[t][rows[i].id]
            ELSE SanitizedRaw(rows[i])]

Cached(rows) ==
    LET t == Asked.table
        at(id) == CHOOSE i \in DOMAIN rows : rows[i].id = id
    IN  [cache EXCEPT ![t] = [id \in DOMAIN @ |->
            IF \E i \in DOMAIN rows : rows[i].id = id THEN Resolved(rows)[at(id)] ELSE @[id]]]

Ids(rows) == {rows[i].id : i \in DOMAIN rows}

(* A raw that enters the cache where none was, or in place of another,     *)
(* leaves a Model of the id wrapping the old one.                          *)
Orphaned(ids) == orphans \cup (models \cap ids)

Entering(rows) == {id \in Ids(rows) : cache[Asked.table][id] = NoRow}

(* The caches after a commit is known here, before anybody is told: a      *)
(* created record is a new raw, an updated one is updated in place.        *)
CacheAfter(change) ==
    [cache EXCEPT ![change.table][change.id] =
        IF change.type = "destroyed" THEN NoRow ELSE change.row]

ReplacesRaw(change) ==
    \/ change.type = "created"
    \/ change.type = "updated" /\ cache[change.table][change.id] = NoRow

(* Told of a destroyed record, a collection forgets its Model.             *)
ModelsAfter(change) ==
    IF change.table = Asked.table /\ change.type = "destroyed"
    THEN models \ {change.id} ELSE models

OrphansAfter(change) ==
    LET id == IF change.table = Asked.table THEN {change.id} ELSE {}
    IN  IF change.type = "destroyed" THEN orphans \ (id \ ModelsAfter(change))
        ELSE IF ReplacesRaw(change) THEN Orphaned(id) ELSE orphans

(* A raw made from an update that lacks columns has null values in them    *)
(* whatever storage has, until a whole raw replaces it, or none.           *)
PartialAfter(change) ==
    LET record == <<change.table, change.id>>
    IN  IF change.type = "destroyed" \/ DOMAIN change.row = Columns THEN partial \ {record}
        ELSE IF change.type = "updated" /\ cache[change.table][change.id] = NoRow
        THEN partial \cup {record} ELSE partial

(* An emission with a raw that the cache has dropped is equal to no answer *)
(* that follows, not even one with a record of the same id and content.    *)
Forgetting(change) ==
    LET dropped == /\ query.kind = "records" /\ change.table = Asked.table
                   /\ change.type \in {"created", "destroyed"}
                   /\ \E i \in DOMAIN observer.previous :
                         change.id \in Ids(observer.previous[i])
    IN  [observer EXCEPT !.previous = IF dropped THEN <<>> ELSE @]

(* notifyChanges: every observer of the table fetches again.               *)
Notify(change) ==
    IF observer.listeners > 0 /\ change.table \in Asked.tables
    THEN /\ observer' = Refetched(Forgetting(change))
         /\ PostFetch(queue)
    ELSE UNCHANGED <<observer, queue>>

Announce(change) ==
    /\ cache' = CacheAfter(change)
    /\ models' = ModelsAfter(change)
    /\ orphans' = OrphansAfter(change)
    /\ Notify(change)

-----------------------------------------------------------------------------
(* Writers.                                                                *)

Stored ==
    [t \in Tables |-> [id \in TableIds[t] |->
        IF Live(store[t][id]) THEN SanitizedRaw(store[t][id]) ELSE NoRow]]

(* What a write here finds by id: the cached raw, or the row in storage.   *)
Findable ==
    [t \in Tables |-> [id \in TableIds[t] |->
        IF cache[t][id] # NoRow THEN cache[t][id] ELSE Stored[t][id]]]

(* A write block of this context posts its batch.  It has the write slot:  *)
(* other contexts commit nothing while it runs, and what they committed    *)
(* before reached it ahead of the grant.                                   *)
LocalWrite ==
    /\ version < MaxWrites
    /\ ~InFlight({"batch", "external"}) /\ relay = <<>>
    /\ \E change \in Changes(Findable, [t \in Tables |-> {}]) :
          queue' = Append(queue, [op |-> "batch", change |-> change])
    /\ UNCHANGED <<env, storage, identity, observer, inbox, relay, spent>>

(* Another context commits; it publishes the change after its own answer.  *)
ExternalWrite ==
    /\ ordered /\ version < MaxWrites
    /\ ~InFlight({"batch"})
    /\ \E change \in Changes(Stored, Unknown) :
          /\ store' = Written(change)
          /\ relay' = Append(relay, [op |-> "external", change |-> change])
    /\ version' = version + 1
    /\ UNCHANGED <<env, identity, observer, queue, inbox, spent>>

(* The broker hands it on.                                                 *)
Relay ==
    /\ relay # <<>>
    /\ inbox' = Append(inbox, Head(relay))
    /\ relay' = Tail(relay)
    /\ UNCHANGED <<env, storage, identity, observer, queue, spent>>

(* fetch() of the query, whose answer nobody compares with anything.       *)
FetchOnce ==
    /\ spent < MaxExtras
    /\ spent' = spent + 1
    /\ queue' = Append(queue, [op |-> "once"])
    /\ UNCHANGED <<env, storage, identity, observer, inbox, relay>>

-----------------------------------------------------------------------------
(* The connection runs what was posted, in order.                          *)

ReadBy(request) ==
    CASE request.op = "count" ->
            [op |-> "count", generation |-> request.generation, ok |-> TRUE, asOf |-> version,
             count |-> Counts(store, Asked)]
      [] request.op = "fetch" ->
            [op |-> "fetch", generation |-> request.generation, ok |-> TRUE, asOf |-> version,
             rows |-> Fetches(store, Asked)]
      [] OTHER -> [op |-> "once", rows |-> Fetches(store, Asked)]

Run ==
    /\ queue # <<>>
    /\ queue' = Tail(queue)
    /\ LET request == Head(queue)
       IN  IF request.op = "batch"
           THEN /\ store' = Written(request.change)
                /\ version' = version + 1
                /\ inbox' = Append(inbox, request)
           ELSE /\ inbox' = Append(inbox, ReadBy(request))
                /\ UNCHANGED storage
    /\ UNCHANGED <<env, identity, observer, relay, spent>>

(* A statement fails: a batch rolls back and its write rejects, a one-shot *)
(* fetch rejects, a refetch answers with the error.                        *)
RunFails ==
    /\ queue # <<>> /\ spent < MaxExtras
    /\ spent' = spent + 1
    /\ queue' = Tail(queue)
    /\ inbox' = IF Head(queue).op \in {"fetch", "count"}
                THEN Append(inbox, [op |-> Head(queue).op, ok |-> FALSE, asOf |-> version,
                                    generation |-> Head(queue).generation])
                ELSE inbox
    /\ UNCHANGED <<env, storage, identity, observer, relay>>

-----------------------------------------------------------------------------
(* What arrives here.  One handler runs at a time.                         *)

Arrives(i, kinds) ==
    /\ i \in DOMAIN inbox /\ (ordered => i = 1)
    /\ inbox[i].op \in kinds
    /\ inbox' = RemoveAt(inbox, i)

(* Rows reach the cache before anybody asks whether they are still wanted. *)
FetchAnswered ==
    \E i \in DOMAIN inbox :
        /\ Arrives(i, {"fetch"}) /\ inbox[i].ok
        /\ cache' = Cached(inbox[i].rows)
        /\ orphans' = Orphaned(Entering(inbox[i].rows))
        /\ IF Wants(inbox[i].generation)
           THEN /\ observer' = Taken(Resolved(inbox[i].rows), inbox[i].asOf)
                /\ models' = models \cup Ids(inbox[i].rows)
           ELSE UNCHANGED <<observer, models>>
        /\ UNCHANGED <<env, storage, partial, queue, relay, spent>>

CountAnswered ==
    \E i \in DOMAIN inbox :
        /\ Arrives(i, {"count"}) /\ inbox[i].ok
        /\ observer' = IF Wants(inbox[i].generation)
                       THEN Taken(inbox[i].count, inbox[i].asOf) ELSE observer
        /\ UNCHANGED <<env, storage, identity, queue, relay, spent>>

(* An error of the newest refetch goes to onError; what was emitted stays. *)
ErrorAnswered ==
    \E i \in DOMAIN inbox :
        /\ Arrives(i, {"fetch", "count"}) /\ ~inbox[i].ok
        /\ observer' = IF Wants(inbox[i].generation)
                       THEN Reported(inbox[i].asOf) ELSE observer
        /\ UNCHANGED <<env, storage, identity, queue, relay, spent>>

OnceAnswered ==
    \E i \in DOMAIN inbox :
        /\ Arrives(i, {"once"})
        /\ cache' = Cached(inbox[i].rows)
        /\ orphans' = Orphaned(Entering(inbox[i].rows))
        /\ models' = models \cup Ids(inbox[i].rows)
        /\ UNCHANGED <<env, storage, partial, observer, queue, relay, spent>>

(* Database.batch after the commit: caches first, then everybody is told.  *)
BatchAnswered ==
    \E i \in DOMAIN inbox :
        /\ Arrives(i, {"batch"})
        /\ Announce(inbox[i].change)
        /\ partial' = PartialAfter(inbox[i].change)
        /\ UNCHANGED <<env, storage, relay, spent>>

\* Mistake: what the row lacks is overwritten with null values.
OverlaidWhole(raw, row) == SanitizedRaw(row)

(* A raw takes over the columns that the row has.                          *)
Overlaid(raw, row) == Over(row, raw)

(* A relayed create of an id this context has is an update in place, and   *)
(* an update of one it has not, a new raw.                                 *)
AsApplied(change) ==
    LET raw == cache[change.table][change.id]
    IN  IF change.type = "destroyed" THEN change
        ELSE IF raw = NoRow
        THEN [change EXCEPT !.type = "created", !.row = SanitizedRaw(@)]
        ELSE [change EXCEPT !.type = "updated", !.row = Overlaid(raw, @)]

(* A relayed destroy of a record this context has not is dropped.          *)
Unseen(change) ==
    change.type = "destroyed" /\ cache[change.table][change.id] = NoRow

(* applyExternalChanges.                                                   *)
ExternalAnnounced ==
    \E i \in DOMAIN inbox :
        /\ Arrives(i, {"external"})
        /\ IF Unseen(inbox[i].change)
           THEN /\ observer' = [observer EXCEPT
                      !.missed = @ \/ (observer.listeners > 0
                                      /\ inbox[i].change.table \in Asked.tables)]
                /\ UNCHANGED <<identity, queue>>
           ELSE /\ Announce(AsApplied(inbox[i].change))
                /\ partial' = PartialAfter(inbox[i].change)
        /\ UNCHANGED <<env, storage, relay, spent>>

-----------------------------------------------------------------------------
Next ==
    \/ Mount \/ Unmount \/ FetchOnce
    \/ LocalWrite \/ ExternalWrite \/ Relay
    \/ Run \/ RunFails
    \/ FetchAnswered \/ CountAnswered \/ ErrorAnswered \/ OnceAnswered
    \/ BatchAnswered \/ ExternalAnnounced

Spec == Init /\ [][Next]_vars

-----------------------------------------------------------------------------
TypeOK ==
    /\ ordered \in BOOLEAN /\ version \in 0..MaxWrites /\ spent \in 0..MaxExtras
    /\ observer.listeners \in 0..2
    /\ observer.generation \in Nat
    /\ observer.asOf \in 0..version
    /\ orphans \subseteq models /\ models \subseteq TableIds[Asked.table]
    /\ \A t \in Tables : DOMAIN store[t] = TableIds[t] /\ DOMAIN cache[t] = TableIds[t]

(* A change of the row is on its way here.                                 *)
Pending(t, id) ==
    \/ \E i \in DOMAIN inbox : /\ inbox[i].op \in {"batch", "external"}
                               /\ inbox[i].change.table = t /\ inbox[i].change.id = id
    \/ \E i \in DOMAIN relay : relay[i].change.table = t /\ relay[i].change.id = id

(* A raw this context holds is the row in storage, unless a change of it   *)
(* is on its way.                                                          *)
CacheIsStorage(excused) ==
    \A t \in Tables : \A id \in TableIds[t] :
        cache[t][id] # NoRow /\ ~Pending(t, id) /\ <<t, id>> \notin excused =>
            Live(store[t][id]) /\ cache[t][id] = SanitizedRaw(store[t][id])

(* The identity map cannot desync (RecordCache.ts:1-10): with answers in   *)
(* order, cache and storage agree however fetches, batches and commits of  *)
(* other contexts interleave, those of an older schema among them, and a   *)
(* Model always wraps the raw of its id.  A raw made from part of a row is *)
(* excused (see the README).                                               *)
IdentityMap ==
    /\ TypeOK
    /\ ordered => orphans = {} /\ CacheIsStorage(partial)

(* The same, with nothing excused.                                         *)
NothingPartial == ordered => CacheIsStorage({})

Quiet == queue = <<>> /\ inbox = <<>> /\ relay = <<>>

(* What the query asks of storage, as records or as a count.               *)
Expected ==
    LET rows == Asks(store, Asked)
    IN  IF query.kind = "count" THEN Len(rows)
        ELSE [i \in DOMAIN rows |-> SanitizedRaw(rows[i])]

UpToDate ==
    observer.value =
        IF observer.listeners = 0 THEN Loading
        ELSE IF observer.failed THEN Shown(observer.latest, TRUE)
        ELSE Shown(Expected, observer.kept)

Excused ==
    \/ observer.missed
    \/ query.kind = "records" /\ \E record \in partial : record[1] = Asked.table

(* Once everything posted has been answered, what the hooks show is what   *)
(* the query asks of storage - rows, order and content - with no error, or *)
(* the error of the last refetch with what was last emitted (Query.ts:1-10,*)
(* docs/reference/react.md:350-357), through components that come and go;  *)
(* and a store nobody subscribes to shows nothing of an observation that   *)
(* ended.  Excused are a change that was dropped as unseen, until something*)
(* makes the observer fetch again, and an error that an answer equal to    *)
(* the last emission leaves where it is (kept; see ErrorsEnd).             *)
ObserverRight == Quiet /\ ~Excused => UpToDate

(* The same error without that excuse: a refetch that succeeds ends it.  It*)
(* fails (see the README).                                                 *)
ErrorsEnd == Quiet /\ ~observer.failed => ~observer.value.error

(* docs/multi-tab.md:108, "Observers behave as if the write were local":   *)
(* the same, with nothing excused.                                         *)
AsIfLocal == Quiet => UpToDate

(* An answer read at an older commit never replaces one read at a newer,   *)
(* whatever order the driver's promises settle in.                         *)
NeverBackwards == [][observer'.asOf >= observer.asOf]_vars
=============================================================================
