---------------------------- MODULE Observe_proofs ----------------------------
(***************************************************************************)
(* One context observing a query, for any tables, rows and queries, any    *)
(* number of commits, failures, fetches and components: its cache does not *)
(* desync, its observer shows what the query asks of storage, and no       *)
(* answer replaces one read later.                                         *)
(***************************************************************************)
EXTENDS Observe, TLAPS

IsSeq(s) == s \in Seq(Range(s))

IsChange(m) == m.op \in {"batch", "external"}
HasRows(m) == m.op = "once" \/ (m.op = "fetch" /\ m.ok)
IsAnswer(m) == m.op \in {"fetch", "count"}

-----------------------------------------------------------------------------
(* Types.                                                                  *)

\* A raw: a live row with every column.
IsRaw(id, r) ==
    /\ r = [id |-> id, val |-> r.val, ref |-> r.ref, gone |-> FALSE]
    /\ id # Null

IsWritten(t, id, row) ==
    /\ row = [c \in DOMAIN row |-> row[c]]
    /\ {"id", "gone"} \subseteq DOMAIN row /\ DOMAIN row \subseteq Columns
    /\ row.id = id /\ row.gone = FALSE
    /\ IF "val" \in DOMAIN row THEN row.val \in Vals[t] ELSE "val" \in Unknown[t]
    /\ IF "ref" \in DOMAIN row THEN row.ref \in Refs[t] ELSE "ref" \in Unknown[t]

ChangeOK(x) ==
    /\ x.table \in Tables /\ x.id \in TableIds[x.table]
    /\ x = Change(x.table, x.id, x.type, x.row, x.soft)
    /\ x.type \in {"created", "updated", "destroyed"}
    /\ x.type # "destroyed" => IsWritten(x.table, x.id, x.row)

IsWhole(x) == x.type # "destroyed" => DOMAIN x.row = Columns

\* A refetch posted or answered.
FetchOK(m) ==
    /\ m.op = IF query.kind = "count" THEN "count" ELSE "fetch"
    /\ ~Refused
    /\ m.generation \in Nat /\ m.generation <= observer.generation

RequestOK(r) ==
    /\ r.op \in {"batch", "fetch", "count", "once"}
    /\ r.op = "batch" => ChangeOK(r.change) /\ IsWhole(r.change)
    /\ IsAnswer(r) => FetchOK(r)

MessageOK(m) ==
    /\ m.op \in {"batch", "external", "fetch", "count", "once"}
    /\ IsChange(m) => ChangeOK(m.change)
    /\ m.op = "batch" => IsWhole(m.change)
    /\ m.op = "external" => ordered
    /\ IsAnswer(m) => /\ FetchOK(m) /\ m.ok \in BOOLEAN
                      /\ m.asOf \in Nat /\ m.asOf <= version
    /\ HasRows(m) => \A k \in DOMAIN m.rows :
          m.rows[k].id \in TableIds[Asked.table] /\ IsRaw(m.rows[k].id, m.rows[k])

ObserverOK(o) ==
    /\ o = [listeners |-> o.listeners, value |-> o.value, latest |-> o.latest,
            generation |-> o.generation, previous |-> o.previous, asOf |-> o.asOf,
            failed |-> o.failed, missed |-> o.missed, kept |-> o.kept]
    /\ o.listeners \in 0..2 /\ o.generation \in Nat
    /\ o.asOf \in Nat /\ o.asOf <= version
    /\ o.failed \in BOOLEAN /\ o.missed \in BOOLEAN

CacheOK ==
    /\ DOMAIN cache = Tables
    /\ \A t \in Tables :
          /\ DOMAIN cache[t] = TableIds[t]
          /\ \A id \in TableIds[t] : cache[t][id] # NoRow => IsRaw(id, cache[t][id])

EnvOK == /\ query.of \in DOMAIN Observed /\ query.kind \in {"records", "count"}
         /\ ordered \in BOOLEAN
StoreOK == store \in AnyStorage /\ version \in Nat /\ version <= MaxWrites
ModelsOK == models \subseteq TableIds[Asked.table] /\ orphans \subseteq models
QueueOK == IsSeq(queue) /\ \A i \in DOMAIN queue : RequestOK(queue[i])
InboxOK == IsSeq(inbox) /\ \A i \in DOMAIN inbox : MessageOK(inbox[i])
RelayOK == /\ IsSeq(relay)
           /\ \A i \in DOMAIN relay : relay[i].op = "external" /\ MessageOK(relay[i])

Typed ==
    /\ EnvOK /\ StoreOK /\ CacheOK /\ ModelsOK /\ ObserverOK(observer)
    /\ QueueOK /\ InboxOK /\ RelayOK
    /\ spent \in 0..MaxExtras

-----------------------------------------------------------------------------
(* A write block has the write slot until its commit is known here.        *)

Alone ==
    /\ \A i \in DOMAIN queue : queue[i].op = "batch" =>
          /\ \A j \in DOMAIN queue : queue[j].op = "batch" => j = i
          /\ \A j \in DOMAIN inbox : ~IsChange(inbox[j])
          /\ relay = <<>> /\ version < MaxWrites
    /\ \A i \in DOMAIN inbox : inbox[i].op = "batch" =>
          /\ \A j \in DOMAIN inbox : IsChange(inbox[j]) => j = i
          /\ relay = <<>>

\* No answer before place p has a row of the record that x creates.
NotSeen(x, p) ==
    /\ cache[x.table][x.id] = NoRow
    /\ x.table = Asked.table =>
          \A j \in DOMAIN inbox : j < p /\ HasRows(inbox[j]) =>
              \A k \in DOMAIN inbox[j].rows : inbox[j].rows[k].id # x.id

BatchFits ==
    /\ \A i \in DOMAIN queue : queue[i].op = "batch" =>
          LET x == queue[i].change IN
          /\ x.type = "created" => store[x.table][x.id] = NoRow
          /\ ordered /\ x.type = "updated" => Live(store[x.table][x.id])
          /\ ordered /\ x.type = "created" => NotSeen(x, Len(inbox) + 1)
    /\ \A i \in DOMAIN inbox : inbox[i].op = "batch" =>
          LET x == inbox[i].change IN
          ordered /\ x.type = "created" => NotSeen(x, i)

-----------------------------------------------------------------------------
(* Answers in order.  Whatever a column of a raw, of an answered row or of *)
(* a change on its way says is what storage has, or a change of the column *)
(* is still to come.                                                       *)

Sets(x, c) == x.type = "destroyed" \/ c \in DOMAIN x.row

Touches(m, t, id, c) ==
    IsChange(m) /\ m.change.table = t /\ m.change.id = id /\ Sets(m.change, c)

ComesAfter(s, p, t, id, c) == \E j \in DOMAIN s : j > p /\ Touches(s[j], t, id, c)

Agrees(s, t, id, c, v) == Live(s[t][id]) /\ v = SanitizedRaw(s[t][id])[c]

\* From place p of the inbox in on, before those of the relay rel.
Stands(in, p, rel, s, t, id, c, v) ==
    ComesAfter(in, p, t, id, c) \/ ComesAfter(rel, 0, t, id, c) \/ Agrees(s, t, id, c, v)

\* A raw made from part of a row is right about being there.
CacheStands ==
    \A t \in Tables : \A id \in TableIds[t] : cache[t][id] # NoRow =>
        \A c \in Columns : (<<t, id>> \in partial => c = "id") =>
            Stands(inbox, 0, relay, store, t, id, c, cache[t][id][c])

AnswersStand ==
    \A p \in DOMAIN inbox : HasRows(inbox[p]) =>
        \A k \in DOMAIN inbox[p].rows : \A c \in Columns :
            LET r == inbox[p].rows[k] IN
            Stands(inbox, p, relay, store, Asked.table, r.id, c, SanitizedRaw(r)[c])

Says(x, c) == x.type = "created" \/ (x.type = "updated" /\ c \in DOMAIN x.row)

ChangesStand ==
    /\ \A p \in DOMAIN inbox : IsChange(inbox[p]) =>
          LET x == inbox[p].change IN
          \A c \in Columns : Says(x, c) =>
              Stands(inbox, p, relay, store, x.table, x.id, c, SanitizedRaw(x.row)[c])
    /\ \A p \in DOMAIN relay :
          LET x == relay[p].change IN
          \A c \in Columns : Says(x, c) =>
              \/ ComesAfter(relay, p, x.table, x.id, c)
              \/ Agrees(store, x.table, x.id, c, SanitizedRaw(x.row)[c])

\* Every Model wraps a raw of the cache.
ModelsCached == orphans = {} /\ \A id \in models : cache[Asked.table][id] # NoRow

OrderedInv == ordered => CacheStands /\ AnswersStand /\ ChangesStand /\ ModelsCached

-----------------------------------------------------------------------------
(* Answers out of order, and no other context.  What is in the cache may   *)
(* be gone from storage, but what is in both is the same.                  *)

Coming(t, id) == \E j \in DOMAIN inbox :
    IsChange(inbox[j]) /\ inbox[j].change.table = t /\ inbox[j].change.id = id

NoSurprise ==
    /\ \A t \in Tables : \A id \in TableIds[t] : Live(store[t][id]) /\ ~Coming(t, id) =>
          /\ cache[t][id] # NoRow => cache[t][id] = SanitizedRaw(store[t][id])
          /\ t = Asked.table /\ cache[t][id] = NoRow =>
                \A p \in DOMAIN inbox : HasRows(inbox[p]) =>
                    \A k \in DOMAIN inbox[p].rows : inbox[p].rows[k].id = id =>
                        SanitizedRaw(inbox[p].rows[k]) = SanitizedRaw(store[t][id])
    /\ \A p \in DOMAIN inbox : IsChange(inbox[p]) =>
          LET x == inbox[p].change IN
          Live(store[x.table][x.id]) =>
              x.type # "destroyed" /\ x.row = SanitizedRaw(store[x.table][x.id])

UnorderedInv == ~ordered => NoSurprise

-----------------------------------------------------------------------------
(* The observer.                                                           *)

News(s) == \E j \in DOMAIN s : IsChange(s[j]) /\ s[j].change.table \in Asked.tables

NewsComing == News(inbox) \/ News(relay)

Newest(m) == IsAnswer(m) /\ m.generation = observer.generation

AnswerComing ==
    \/ \E i \in DOMAIN queue : Newest(queue[i])
    \/ \E i \in DOMAIN inbox : Newest(inbox[i])

\* What the hook shows and what it compares with are what the store was given.
Emitted ==
    /\ observer.previous # <<>> =>
          /\ observer.previous = <<observer.latest>>
          /\ observer.value = Shown(observer.latest, observer.value.error)
    /\ observer.listeners = 0 =>
          /\ observer.value = Loading /\ observer.previous = <<>>
          /\ ~observer.missed /\ ~observer.failed

NewestIsRight ==
    observer.listeners > 0 /\ ~observer.missed /\ ~NewsComing =>
        \A p \in DOMAIN inbox : Newest(inbox[p]) /\ inbox[p].ok =>
            IF query.kind = "count" THEN inbox[p].count = Len(Asks(store, Asked))
            ELSE inbox[p].rows = Asks(store, Asked)

ShownIsRight ==
    observer.listeners > 0 /\ ~Excused /\ ~NewsComing /\ ~AnswerComing => UpToDate

ObserverInv == Emitted /\ NewestIsRight /\ ShownIsRight

\* There is one newest refetch, and what it read is no older than what is shown.
OneNewest ==
    /\ \A i, j \in DOMAIN queue : Newest(queue[i]) /\ Newest(queue[j]) => i = j
    /\ \A i, j \in DOMAIN inbox : Newest(inbox[i]) /\ Newest(inbox[j]) => i = j
    /\ ~\E i \in DOMAIN queue, j \in DOMAIN inbox : Newest(queue[i]) /\ Newest(inbox[j])
    /\ \A j \in DOMAIN inbox : Newest(inbox[j]) => inbox[j].asOf >= observer.asOf

IInv == /\ Typed /\ Alone /\ BatchFits /\ OrderedInv /\ UnorderedInv
        /\ ObserverInv /\ OneNewest

-----------------------------------------------------------------------------
(* Sequences.                                                              *)

LEMMA AnySeq ==
    ASSUME NEW S, NEW s \in Seq(S)
    PROVE  IsSeq(s) /\ DOMAIN s = 1..Len(s) /\ Len(s) \in Nat
<1>1. DOMAIN s = 1..Len(s) /\ Len(s) \in Nat
  OBVIOUS
<1>2. \A i \in 1..Len(s) : s[i] \in Range(s)
  BY <1>1 DEF Range
<1> QED
  BY <1>1, <1>2 DEF IsSeq

LEMMA SeqDomain ==
    ASSUME NEW s, IsSeq(s)
    PROVE  DOMAIN s = 1..Len(s) /\ Len(s) \in Nat
BY DEF IsSeq

LEMMA NoElements ==
    ASSUME NEW e, e = <<>>
    PROVE  IsSeq(e) /\ \A i : i \notin DOMAIN e
<1>1. \A i : i \notin DOMAIN e
  OBVIOUS
<1>2. \A S : e \in Seq(S)
  OBVIOUS
<1>3. e \in Seq(Range(e))
  BY <1>2
<1> QED
  BY <1>1, <1>3 DEF IsSeq

LEMMA AppendSeq ==
    ASSUME NEW s, IsSeq(s), NEW e
    PROVE  /\ IsSeq(Append(s, e)) /\ Len(s) \in Nat /\ DOMAIN s = 1..Len(s)
           /\ DOMAIN Append(s, e) = 1..Len(s) + 1
           /\ \A i \in DOMAIN s : Append(s, e)[i] = s[i]
           /\ Append(s, e)[Len(s) + 1] = e
<1> DEFINE S == Range(s) \cup {e}
           a == Append(s, e)
<1>1. s \in Seq(S)
  BY DEF IsSeq
<1>2. a \in Seq(S) /\ Len(a) = Len(s) + 1 /\ DOMAIN s = 1..Len(s) /\ Len(s) \in Nat
  BY <1>1
<1>3. DOMAIN a = 1..Len(s) + 1 /\ (\A i \in DOMAIN s : a[i] = s[i]) /\ a[Len(s) + 1] = e
  BY <1>1, <1>2
<1>4. IsSeq(a)
  BY <1>2, AnySeq
<1> QED
  BY <1>2, <1>3, <1>4

LEMMA TailSeq ==
    ASSUME NEW s, IsSeq(s), s # <<>>
    PROVE  /\ IsSeq(Tail(s)) /\ Len(s) \in Nat \ {0} /\ DOMAIN s = 1..Len(s)
           /\ DOMAIN Tail(s) = 1..Len(s) - 1
           /\ \A i \in DOMAIN Tail(s) : Tail(s)[i] = s[i + 1]
           /\ Head(s) = s[1]
<1> DEFINE S == Range(s)
           a == Tail(s)
<1>1. s \in Seq(S)
  BY DEF IsSeq
<1>2. Len(s) \in Nat \ {0} /\ DOMAIN s = 1..Len(s) /\ Head(s) = s[1]
  BY <1>1
<1>3. a \in Seq(S) /\ Len(a) = Len(s) - 1
  BY <1>1
<1>4. DOMAIN a = 1..Len(s) - 1 /\ (\A i \in DOMAIN a : a[i] = s[i + 1])
  BY <1>1, <1>2, <1>3
<1>5. IsSeq(a)
  BY <1>3, AnySeq
<1> QED
  BY <1>2, <1>4, <1>5

LEMMA ConcatSeq ==
    ASSUME NEW S, NEW x \in Seq(S), NEW y \in Seq(S)
    PROVE  /\ x \o y \in Seq(S) /\ Len(x \o y) = Len(x) + Len(y)
           /\ DOMAIN (x \o y) = 1..Len(x) + Len(y)
           /\ \A j \in DOMAIN (x \o y) :
                 (x \o y)[j] = IF j <= Len(x) THEN x[j] ELSE y[j - Len(x)]
OBVIOUS

LEMMA RemoveSeq ==
    ASSUME NEW s, IsSeq(s), NEW i \in DOMAIN s
    PROVE  LET r == RemoveAt(s, i) IN
           /\ IsSeq(r) /\ DOMAIN s = 1..Len(s) /\ Len(s) \in Nat \ {0}
           /\ DOMAIN r = 1..Len(s) - 1
           /\ \A j \in DOMAIN r : r[j] = IF j < i THEN s[j] ELSE s[j + 1]
<1> DEFINE S == Range(s)
           r == RemoveAt(s, i)
           n == Len(s)
           x == SubSeq(s, 1, i - 1)
           y == SubSeq(s, i + 1, n)
<1>1. s \in Seq(S) /\ n \in Nat \ {0} /\ i \in 1..n /\ DOMAIN s = 1..n
  BY DEF IsSeq
<1>2. x \in Seq(S) /\ Len(x) = i - 1 /\ \A j \in 1..i - 1 : x[j] = s[j]
  BY <1>1
<1>3. y \in Seq(S) /\ Len(y) = n - i /\ \A j \in 1..n - i : y[j] = s[i + j]
  BY <1>1
<1>4. r = x \o y
  BY DEF RemoveAt
<1> HIDE DEF x, y, S, r
<1>c. /\ x \o y \in Seq(S) /\ Len(x \o y) = Len(x) + Len(y)
      /\ DOMAIN (x \o y) = 1..Len(x) + Len(y)
      /\ \A j \in DOMAIN (x \o y) :
            (x \o y)[j] = IF j <= Len(x) THEN x[j] ELSE y[j - Len(x)]
  BY <1>2, <1>3, ConcatSeq
<1>d. Len(x) = i - 1 /\ Len(x) + Len(y) = n - 1
  BY <1>1, <1>2, <1>3
<1>5. /\ r \in Seq(S) /\ DOMAIN r = 1..n - 1
      /\ \A j \in 1..n - 1 : r[j] = IF j <= i - 1 THEN x[j] ELSE y[j - (i - 1)]
  BY <1>4, <1>c, <1>d
<1>6. \A j \in 1..n - 1 : r[j] = IF j < i THEN s[j] ELSE s[j + 1]
  <2> SUFFICES ASSUME NEW j \in 1..n - 1
               PROVE r[j] = IF j < i THEN s[j] ELSE s[j + 1]
    OBVIOUS
  <2>1. CASE j < i
    BY <1>1, <1>2, <1>5, <2>1
  <2>2. CASE ~(j < i)
    <3>0. ~(j <= i - 1) /\ j - (i - 1) \in 1..n - i
      BY <1>1, <2>2
    <3>1. r[j] = y[j - (i - 1)] /\ j - (i - 1) \in 1..n - i
      BY <1>5, <3>0
    <3>2. y[j - (i - 1)] = s[i + (j - (i - 1))] /\ i + (j - (i - 1)) = j + 1
      BY <1>1, <1>3, <3>1
    <3> QED
      BY <2>2, <3>1, <3>2
  <2> QED
    BY <2>1, <2>2
<1>7. IsSeq(r) /\ DOMAIN r = 1..n - 1
  BY <1>5, AnySeq
<1> QED
  BY <1>1, <1>6, <1>7 DEF r

\* What is left of a sequence is what was there, in order.
LEMMA Removed ==
    ASSUME NEW s, IsSeq(s), NEW i \in DOMAIN s, NEW r, r = RemoveAt(s, i)
    PROVE  /\ IsSeq(r) /\ Len(s) \in Nat /\ DOMAIN s = 1..Len(s) /\ DOMAIN r = 1..Len(s) - 1
           /\ \A j \in DOMAIN r : \E k \in DOMAIN s : k # i /\ r[j] = s[k] /\ (j < i => k = j)
                                                       /\ (j >= i => k = j + 1)
           /\ \A k \in DOMAIN s : k # i =>
                 \E j \in DOMAIN r : r[j] = s[k] /\ (k < i => j = k) /\ (k > i => j = k - 1)
<1>1. /\ IsSeq(r) /\ DOMAIN s = 1..Len(s) /\ Len(s) \in Nat \ {0}
      /\ DOMAIN r = 1..Len(s) - 1
      /\ \A j \in DOMAIN r : r[j] = IF j < i THEN s[j] ELSE s[j + 1]
  BY RemoveSeq
<1>2. ASSUME NEW j \in DOMAIN r
      PROVE  \E k \in DOMAIN s : k # i /\ r[j] = s[k] /\ (j < i => k = j) /\ (j >= i => k = j + 1)
  <2>1. CASE j < i
    BY <1>1, <2>1
  <2>2. CASE ~(j < i)
    <3>1. j + 1 \in DOMAIN s /\ j + 1 # i
      BY <1>1, <2>2
    <3> QED
      BY <1>1, <2>2, <3>1
  <2> QED
    BY <2>1, <2>2
<1>3. ASSUME NEW k \in DOMAIN s, k # i
      PROVE  \E j \in DOMAIN r : r[j] = s[k] /\ (k < i => j = k) /\ (k > i => j = k - 1)
  <2>1. CASE k < i
    <3>1. k \in DOMAIN r
      BY <1>1, <2>1
    <3> QED
      BY <1>1, <2>1, <3>1
  <2>2. CASE ~(k < i)
    <3>1. k - 1 \in DOMAIN r /\ ~(k - 1 < i) /\ (k - 1) + 1 = k
      BY <1>1, <1>3, <2>2
    <3> QED
      BY <1>1, <1>3, <2>2, <3>1
  <2> QED
    BY <2>1, <2>2
<1> QED
  BY <1>1, <1>2, <1>3

-----------------------------------------------------------------------------
(* Rows.                                                                   *)

LEMMA OverRow ==
    ASSUME NEW row, NEW base
    PROVE  LET o == Over(row, base) IN
           /\ o = [id |-> o.id, val |-> o.val, ref |-> o.ref, gone |-> o.gone]
           /\ \A c \in Columns : o[c] = IF c \in DOMAIN row THEN row[c] ELSE base[c]
           /\ o.id = IF "id" \in DOMAIN row THEN row.id ELSE base.id
           /\ o.val = IF "val" \in DOMAIN row THEN row.val ELSE base.val
           /\ o.ref = IF "ref" \in DOMAIN row THEN row.ref ELSE base.ref
           /\ o.gone = IF "gone" \in DOMAIN row THEN row.gone ELSE base.gone
BY DEF Over, Columns

LEMMA SanitizedColumns ==
    ASSUME NEW r
    PROVE  LET s == SanitizedRaw(r) IN
           /\ s = [id |-> r.id, val |-> s.val, ref |-> s.ref, gone |-> r.gone]
           /\ s.id = r.id /\ s.gone = r.gone
           /\ s["val"] = SanitizeValue(r, "val") /\ s["ref"] = SanitizeValue(r, "ref")
BY DEF SanitizedRaw

\* A column is sanitized by itself.
LEMMA SameColumn ==
    ASSUME NEW a, NEW b, NEW c \in Columns, c \in DOMAIN a, c \in DOMAIN b, a[c] = b[c]
    PROVE  SanitizedRaw(a)[c] = SanitizedRaw(b)[c]
BY DEF SanitizedRaw, SanitizeValue, Columns

\* Sanitizing twice is sanitizing once.
LEMMA SanitizedTwice ==
    ASSUME NEW r, NEW c \in Columns
    PROVE  SanitizedRaw(SanitizedRaw(r))[c] = SanitizedRaw(r)[c]
BY DEF SanitizedRaw, SanitizeValue, NullValue, Columns

LEMMA RawsEqual ==
    ASSUME NEW id, NEW a, NEW b, IsRaw(id, a), IsRaw(id, b), \A c \in Columns : a[c] = b[c]
    PROVE  a = b
BY DEF IsRaw, Columns

LEMMA RawIsRow ==
    ASSUME NEW id, NEW r, IsRaw(id, r)
    PROVE  /\ r # NoRow /\ Live(r) /\ DOMAIN r = Columns
           /\ r.id = id /\ r.gone = FALSE /\ IsRaw(id, SanitizedRaw(r))
<1>1. r = [id |-> id, val |-> r.val, ref |-> r.ref, gone |-> FALSE] /\ id # Null
  BY DEF IsRaw
<1>2. r.id = id /\ r.gone = FALSE /\ DOMAIN r = Columns
  BY <1>1 DEF Columns
<1>3. NoRow.id = Null
  BY DEF NoRow
<1>4. r # NoRow
  BY <1>1, <1>2, <1>3
<1>5. IsRaw(id, SanitizedRaw(r))
  BY <1>1, <1>2 DEF IsRaw, SanitizedRaw
<1> QED
  BY <1>2, <1>4, <1>5 DEF Live

\* The row of storage that an id has.
LEMMA StoredRow ==
    ASSUME NEW s \in AnyStorage, NEW t \in Tables, NEW id \in TableIds[t]
    PROVE  LET r == s[t][id] IN
           /\ r # NoRow => /\ r = [id |-> id, val |-> r.val, ref |-> r.ref, gone |-> r.gone]
                           /\ r.gone \in BOOLEAN
                           /\ r.val \in Vals[t] \/ (r.val = Null /\ "val" \in Unknown[t])
                           /\ r.ref \in Refs[t] \/ (r.ref = Null /\ "ref" \in Unknown[t])
           /\ Live(r) => IsRaw(id, r) /\ IsRaw(id, SanitizedRaw(r))
<1>1. s[t] \in TableRows(t)
  BY DEF AnyStorage
<1>2. s[t][id] # NoRow =>
        /\ s[t][id] = [id |-> id, val |-> s[t][id].val, ref |-> s[t][id].ref, gone |-> s[t][id].gone]
        /\ s[t][id].gone \in BOOLEAN
        /\ s[t][id].val \in Vals[t] \/ (s[t][id].val = Null /\ "val" \in Unknown[t])
        /\ s[t][id].ref \in Refs[t] \/ (s[t][id].ref = Null /\ "ref" \in Unknown[t])
  BY <1>1 DEF TableRows
<1>3. id # Null
  BY ObserveAssumption
<1>4. Live(s[t][id]) => IsRaw(id, s[t][id])
  BY <1>2, <1>3 DEF Live, IsRaw
<1> QED
  BY <1>2, <1>4, RawIsRow

LEMMA StorageShape ==
    ASSUME NEW s \in AnyStorage
    PROVE  /\ s \in [Tables -> UNION {TableRows(t) : t \in Tables}]
           /\ DOMAIN s = Tables /\ \A t \in Tables : DOMAIN s[t] = TableIds[t]
BY DEF AnyStorage, TableRows

-----------------------------------------------------------------------------
(* Queries and changes.                                                    *)

LEMMA AskedIs ==
    ASSUME query.of \in DOMAIN Observed
    PROVE  /\ Asked.table \in Asked.tables /\ Asked.tables \subseteq Tables
           /\ Asked.table \in Tables /\ Asked.countable \in BOOLEAN
           /\ \A s \in AnyStorage :
                 /\ Fetches(s, Asked) = Asks(s, Asked)
                 /\ Asked.countable => Counts(s, Asked) = Len(Asks(s, Asked))
                 /\ \A i \in DOMAIN Asks(s, Asked) : \E id \in TableIds[Asked.table] :
                       Asks(s, Asked)[i] = s[Asked.table][id] /\ Live(s[Asked.table][id])
                 /\ \A t \in Tables \ Asked.tables : \A rows \in TableRows(t) :
                       Asks([s EXCEPT ![t] = rows], Asked) = Asks(s, Asked)
<1>1. Asked \in Range(Described)
  BY DEF Asked, Described, Range
<1> QED
  BY <1>1, QueriesAnswer

LEMMA RestrictRow ==
    ASSUME NEW t \in Tables, NEW id \in TableIds[t], NEW row \in RowsOf(t, id),
           NEW lack, lack = {} \/ lack = Unknown[t]
    PROVE  LET s == Restrict(row, DOMAIN row \ lack) IN
           IsWritten(t, id, s) /\ DOMAIN s = Columns \ lack
<1>1. lack \subseteq {"val", "ref"}
  BY ObserveAssumption
<1>2. PICK v \in Vals[t], r \in Refs[t] : row = [id |-> id, val |-> v, ref |-> r, gone |-> FALSE]
  BY DEF RowsOf
<1>3. DOMAIN row = Columns
  BY <1>2 DEF Columns
<1>4. PICK s : s = Restrict(row, DOMAIN row \ lack)
  OBVIOUS
<1>5. /\ DOMAIN s = Columns \ lack /\ \A c \in Columns \ lack : s[c] = row[c]
      /\ s = [c \in DOMAIN s |-> s[c]] /\ DOMAIN s \subseteq Columns
  BY <1>3, <1>4 DEF Restrict
<1>6. {"id", "gone"} \subseteq DOMAIN s /\ s.id = id /\ s.gone = FALSE
  BY <1>1, <1>2, <1>5 DEF Columns
<1>7. /\ "val" \in DOMAIN s => s["val"] = v
      /\ "ref" \in DOMAIN s => s["ref"] = r
      /\ "val" \notin DOMAIN s => "val" \in lack
      /\ "ref" \notin DOMAIN s => "ref" \in lack
  BY <1>2, <1>5 DEF Columns
<1>8. IsWritten(t, id, s)
  BY <1>5, <1>6, <1>7 DEF IsWritten
<1> QED
  BY <1>4, <1>5, <1>8

\* What a writer can write, one that knows every column or one that does not.
LEMMA WritersChange ==
    ASSUME NEW base, NEW lacks, NEW x \in Changes(base, lacks),
           \/ lacks = [t \in Tables |-> {}]
           \/ lacks = Unknown
    PROVE  /\ ChangeOK(x)
           /\ lacks = [t \in Tables |-> {}] => IsWhole(x)
           /\ x.type = "created" => store[x.table][x.id] = NoRow
           /\ x.type # "created" => base[x.table][x.id] # NoRow
<1> DEFINE Seen(t, row) == Restrict(row, DOMAIN row \ lacks[t])
<1> DEFINE rows(t, id) == {Seen(t, row) : row \in RowsOf(t, id)}
           Writes(t, id) ==
              {Change(t, id, "created", row, FALSE) :
                   row \in IF store[t][id] = NoRow THEN rows(t, id) ELSE {}}
              \cup (IF base[t][id] = NoRow THEN {}
                    ELSE {Change(t, id, "updated", row, FALSE) :
                              row \in rows(t, id) \ {Seen(t, base[t][id])}}
                         \cup {Change(t, id, "destroyed", NoRow, soft) : soft \in BOOLEAN})
<1>1. Changes(base, lacks) = UNION {UNION {Writes(t, id) : id \in TableIds[t]} : t \in Tables}
  BY DEF Changes
<1> HIDE DEF Writes
<1>3. PICK t \in Tables : x \in UNION {Writes(t, id) : id \in TableIds[t]}
  BY <1>1
<1>4. PICK id \in TableIds[t] : x \in Writes(t, id)
  BY <1>3
<1>a. \/ \E row \in RowsOf(t, id) :
            /\ x = Change(t, id, "created", Seen(t, row), FALSE)
            /\ store[t][id] = NoRow
      \/ \E row \in RowsOf(t, id) :
            /\ x = Change(t, id, "updated", Seen(t, row), FALSE)
            /\ base[t][id] # NoRow
      \/ \E soft \in BOOLEAN :
            /\ x = Change(t, id, "destroyed", NoRow, soft)
            /\ base[t][id] # NoRow
  <2> HIDE DEF Seen
  <2> QED
    BY <1>4 DEF Writes
<1>2. lacks[t] = {} \/ lacks[t] = Unknown[t]
  OBVIOUS
<1>b. ASSUME NEW row \in RowsOf(t, id)
      PROVE  IsWritten(t, id, Seen(t, row)) /\ DOMAIN Seen(t, row) = Columns \ lacks[t]
  <2>1. \A lack : lack = {} \/ lack = Unknown[t] =>
           LET s == Restrict(row, DOMAIN row \ lack) IN
           IsWritten(t, id, s) /\ DOMAIN s = Columns \ lack
    <3> SUFFICES ASSUME NEW lack, lack = {} \/ lack = Unknown[t]
                 PROVE  LET s == Restrict(row, DOMAIN row \ lack) IN
                        IsWritten(t, id, s) /\ DOMAIN s = Columns \ lack
      OBVIOUS
    <3> QED
      BY RestrictRow
  <2> QED
    BY <1>2, <2>1
<1>c. lacks = [u \in Tables |-> {}] => lacks[t] = {}
  OBVIOUS
<1> HIDE DEF Seen
<1>5. ASSUME NEW row \in RowsOf(t, id), NEW type \in {"created", "updated"},
             x = Change(t, id, type, Seen(t, row), FALSE)
      PROVE  /\ ChangeOK(x) /\ x.table = t /\ x.id = id /\ x.type = type
             /\ lacks = [u \in Tables |-> {}] => IsWhole(x)
  <2>1. /\ x.table = t /\ x.id = id /\ x.type = type /\ x.row = Seen(t, row)
        /\ x = Change(x.table, x.id, x.type, x.row, x.soft)
    BY <1>5 DEF Change
  <2> QED
    BY <1>b, <1>c, <2>1 DEF ChangeOK, IsWhole
<1>6. ASSUME NEW soft \in BOOLEAN, x = Change(t, id, "destroyed", NoRow, soft)
      PROVE  ChangeOK(x) /\ IsWhole(x) /\ x.table = t /\ x.id = id /\ x.type = "destroyed"
  <2>1. /\ x.table = t /\ x.id = id /\ x.type = "destroyed"
        /\ x = Change(x.table, x.id, x.type, x.row, x.soft)
    BY <1>6 DEF Change
  <2> QED
    BY <2>1 DEF ChangeOK, IsWhole
<1> QED
  BY <1>a, <1>5, <1>6

\* A row with every column is its own sanitized form.
LEMMA WrittenRow ==
    ASSUME NEW t \in Tables, NEW id \in TableIds[t], NEW row, IsWritten(t, id, row)
    PROVE  /\ \A c \in DOMAIN row : c \in Columns /\ SanitizedRaw(row)[c] = row[c]
           /\ IsRaw(id, SanitizedRaw(row))
           /\ DOMAIN row = Columns => IsRaw(id, row) /\ SanitizedRaw(row) = row
<1>1. Null \notin Vals[t] /\ id # Null
  BY ObserveAssumption
<1>2. SanitizedRaw(row) = [id |-> row.id, val |-> SanitizeValue(row, "val"),
                           ref |-> SanitizeValue(row, "ref"), gone |-> row.gone]
  BY DEF SanitizedRaw
<1>3. ASSUME NEW c \in DOMAIN row
      PROVE  c \in Columns /\ SanitizedRaw(row)[c] = row[c]
  <2>1. c \in Columns
    BY DEF IsWritten
  <2>2. c = "val" => row["val"] # Null
    BY <1>1 DEF IsWritten
  <2> QED
    BY <1>2, <2>1, <2>2 DEF SanitizeValue, NullValue, Columns
<1>4. PICK s : s = SanitizedRaw(row)
  OBVIOUS
<1>5. row.id = id /\ row.gone = FALSE
  BY DEF IsWritten
<1>6. IsRaw(id, s)
  <2>1. PICK v, r : s = [id |-> id, val |-> v, ref |-> r, gone |-> FALSE]
    BY <1>2, <1>4, <1>5
  <2>2. s.val = v /\ s.ref = r
    BY <2>1
  <2> QED
    BY <1>1, <2>1, <2>2 DEF IsRaw
<1>7. ASSUME DOMAIN row = Columns PROVE row = s
  <2>1. row = [c \in Columns |-> row[c]]
    BY <1>7 DEF IsWritten
  <2>2. s = [c \in Columns |-> s[c]]
    BY <1>2, <1>4 DEF Columns
  <2>3. \A c \in Columns : row[c] = s[c]
    BY <1>3, <1>4, <1>7
  <2> QED
    BY <2>1, <2>2, <2>3
<1> QED
  BY <1>3, <1>4, <1>6, <1>7

\* A commit, in storage.
LEMMA WrittenIs ==
    ASSUME store \in AnyStorage, NEW x, ChangeOK(x), NEW new, new = Written(x)
    PROVE  /\ new \in AnyStorage
           /\ \A t \in Tables : \A id \in TableIds[t] :
                 ~(t = x.table /\ id = x.id) => new[t][id] = store[t][id]
           /\ LET before == store[x.table][x.id]
                  after == new[x.table][x.id] IN
              /\ x.type = "created" => after = Over(x.row, NoRow)
              /\ x.type = "updated" =>
                    after = IF before = NoRow THEN NoRow ELSE Over(x.row, before)
              /\ x.type = "destroyed" => ~Live(after)
           /\ \A t \in Tables : t # x.table => new[t] = store[t]
           /\ query.of \in DOMAIN Observed /\ x.table \notin Asked.tables =>
                 Asks(new, Asked) = Asks(store, Asked)
<1> DEFINE t == x.table
           id == x.id
           before == store[t][id]
           after == IF x.type = "created" THEN Over(x.row, NoRow)
                    ELSE IF before = NoRow THEN NoRow
                    ELSE IF x.type = "updated" THEN Over(x.row, before)
                    ELSE IF x.soft THEN Over([gone |-> TRUE], before) ELSE NoRow
           rows == [store[t] EXCEPT ![id] = after]
<1>1. t \in Tables /\ id \in TableIds[t] /\ x.type \in {"created", "updated", "destroyed"}
  BY DEF ChangeOK
<1>2. new = [store EXCEPT ![t] = rows]
  BY DEF Written
<1>3. /\ store \in [Tables -> UNION {TableRows(u) : u \in Tables}]
      /\ \A u \in Tables : store[u] \in TableRows(u) /\ DOMAIN store[u] = TableIds[u]
  BY StorageShape DEF AnyStorage
<1>4. before # NoRow =>
        /\ before = [id |-> id, val |-> before.val, ref |-> before.ref, gone |-> before.gone]
        /\ before.gone \in BOOLEAN
        /\ before.val \in Vals[t] \/ (before.val = Null /\ "val" \in Unknown[t])
        /\ before.ref \in Refs[t] \/ (before.ref = Null /\ "ref" \in Unknown[t])
  BY <1>1, StoredRow
<1>5. NoRow.id = Null /\ NoRow.val = Null /\ NoRow.ref = Null
  BY DEF NoRow
<1> DEFINE Fits(r) == /\ r = [id |-> id, val |-> r.val, ref |-> r.ref, gone |-> r.gone]
                      /\ r.gone \in BOOLEAN
                      /\ r.val \in Vals[t] \/ (r.val = Null /\ "val" \in Unknown[t])
                      /\ r.ref \in Refs[t] \/ (r.ref = Null /\ "ref" \in Unknown[t])
<1>6. ASSUME NEW base, base = NoRow \/ Fits(base), x.type # "destroyed"
      PROVE  Fits(Over(x.row, base))
  <2>1. IsWritten(t, id, x.row)
    BY <1>6 DEF ChangeOK
  <2>2. PICK o : o = Over(x.row, base)
    OBVIOUS
  <2>3. /\ o = [id |-> o.id, val |-> o.val, ref |-> o.ref, gone |-> o.gone]
        /\ o.id = IF "id" \in DOMAIN x.row THEN x.row.id ELSE base.id
        /\ o.val = IF "val" \in DOMAIN x.row THEN x.row.val ELSE base.val
        /\ o.ref = IF "ref" \in DOMAIN x.row THEN x.row.ref ELSE base.ref
        /\ o.gone = IF "gone" \in DOMAIN x.row THEN x.row.gone ELSE base.gone
    BY <2>2, OverRow
  <2>4. o.id = id /\ o.gone = FALSE
    BY <2>1, <2>3 DEF IsWritten
  <2>5. o.val \in Vals[t] \/ (o.val = Null /\ "val" \in Unknown[t])
    BY <1>5, <1>6, <2>1, <2>3 DEF IsWritten
  <2>6. o.ref \in Refs[t] \/ (o.ref = Null /\ "ref" \in Unknown[t])
    BY <1>5, <1>6, <2>1, <2>3 DEF IsWritten
  <2>7. Fits(o)
    BY <2>3, <2>4, <2>5, <2>6
  <2> QED
    BY <2>2, <2>7
<1>7. before = NoRow \/ Fits(before)
  BY <1>4
<1>8. before # NoRow =>
         Fits(Over([gone |-> TRUE], before)) /\ Over([gone |-> TRUE], before).gone
  <2> SUFFICES ASSUME before # NoRow
               PROVE  Fits(Over([gone |-> TRUE], before)) /\ Over([gone |-> TRUE], before).gone
    OBVIOUS
  <2>1. PICK v, r, g : before = [id |-> id, val |-> v, ref |-> r, gone |-> g]
    BY <1>4
  <2>2. before.id = id /\ before.val = v /\ before.ref = r
    BY <2>1
  <2>3. PICK o : o = Over([gone |-> TRUE], before)
    OBVIOUS
  <2>4. o = [id |-> id, val |-> v, ref |-> r, gone |-> TRUE]
    BY <2>2, <2>3 DEF Over
  <2>5. o.id = id /\ o.val = v /\ o.ref = r /\ o.gone = TRUE
    BY <2>4
  <2> QED
    BY <1>4, <2>2, <2>3, <2>4, <2>5
<1>9. /\ x.type = "created" => after = Over(x.row, NoRow)
      /\ x.type = "updated" => after = IF before = NoRow THEN NoRow ELSE Over(x.row, before)
      /\ x.type = "destroyed" =>
            after = IF before = NoRow THEN NoRow
                    ELSE IF x.soft THEN Over([gone |-> TRUE], before) ELSE NoRow
  BY <1>1
<1> HIDE DEF after, Fits
<1>10. after = NoRow \/ Fits(after)
  BY <1>1, <1>6, <1>7, <1>8, <1>9
<1>11. rows \in TableRows(t)
  <2>1. \A u \in TableIds[t] : store[t][u] = NoRow \/
            /\ store[t][u] = [id |-> u, val |-> store[t][u].val, ref |-> store[t][u].ref,
                              gone |-> store[t][u].gone]
            /\ store[t][u].gone \in BOOLEAN
            /\ store[t][u].val \in Vals[t] \/ (store[t][u].val = Null /\ "val" \in Unknown[t])
            /\ store[t][u].ref \in Refs[t] \/ (store[t][u].ref = Null /\ "ref" \in Unknown[t])
    BY <1>1, StoredRow
  <2> DEFINE OrNull(values, column) == values \cup IF column \in Unknown[t] THEN {Null} ELSE {}
             Row(u) == {NoRow} \cup [id : {u}, val : OrNull(Vals[t], "val"),
                                     ref : OrNull(Refs[t], "ref"), gone : BOOLEAN]
  <2>2. after \in Row(id)
    BY <1>10 DEF Fits
  <2>3. ASSUME NEW u \in TableIds[t] PROVE store[t][u] \in Row(u)
    <3>1. store[t][u].val \in Vals[t] \/ (store[t][u].val = Null /\ "val" \in Unknown[t]) =>
            store[t][u].val \in OrNull(Vals[t], "val")
      OBVIOUS
    <3>2. store[t][u].ref \in Refs[t] \/ (store[t][u].ref = Null /\ "ref" \in Unknown[t]) =>
            store[t][u].ref \in OrNull(Refs[t], "ref")
      OBVIOUS
    <3> HIDE DEF OrNull
    <3>3. CASE store[t][u] = NoRow
      BY <3>3
    <3>4. CASE store[t][u] # NoRow
      <4>1. PICK v, r, g : store[t][u] = [id |-> u, val |-> v, ref |-> r, gone |-> g]
        <5>1. store[t][u] = [id |-> u, val |-> store[t][u].val, ref |-> store[t][u].ref,
                             gone |-> store[t][u].gone]
          BY <2>1, <3>4
        <5> QED
          BY <5>1
      <4>2. store[t][u].val = v /\ store[t][u].ref = r /\ store[t][u].gone = g
        BY <4>1
      <4>3. v \in OrNull(Vals[t], "val") /\ r \in OrNull(Refs[t], "ref") /\ g \in BOOLEAN
        BY <2>1, <3>1, <3>2, <3>4, <4>2
      <4> QED
        BY <4>1, <4>3
    <3> QED
      BY <3>3, <3>4
  <2>4. \A u \in TableIds[t] : rows[u] \in Row(u)
    BY <1>1, <1>3, <2>2, <2>3
  <2> HIDE DEF Row
  <2>5. rows \in [TableIds[t] -> UNION {Row(u) : u \in TableIds[t]}]
    BY <1>1, <1>3, <2>4
  <2> QED
    BY <2>4, <2>5 DEF TableRows, Row
<1>12. new \in AnyStorage
  <2>1. \A u \in Tables : new[u] \in TableRows(u)
    BY <1>2, <1>3, <1>11
  <2>2. DOMAIN new = Tables
    BY <1>2, <1>3
  <2>3. new = [u \in Tables |-> new[u]]
    BY <1>2, <1>3
  <2>4. new \in [Tables -> UNION {TableRows(u) : u \in Tables}]
    BY <2>1, <2>3
  <2> QED
    BY <2>1, <2>4 DEF AnyStorage
<1>13. \A u \in Tables : u # t => new[u] = store[u]
  BY <1>2, <1>3
<1>14. new[t] = rows
  BY <1>1, <1>2, <1>3
<1>15. new[t][id] = after /\ \A u \in TableIds[t] : u # id => new[t][u] = store[t][u]
  BY <1>1, <1>3, <1>14
<1>16. x.type = "destroyed" => ~Live(after)
  BY <1>8, <1>9 DEF Live
<1>17. query.of \in DOMAIN Observed /\ t \notin Asked.tables =>
          Asks(new, Asked) = Asks(store, Asked)
  <2> SUFFICES ASSUME query.of \in DOMAIN Observed, t \notin Asked.tables
               PROVE  Asks(new, Asked) = Asks(store, Asked)
    OBVIOUS
  <2>1. PICK r \in TableRows(t) : new = [store EXCEPT ![t] = r]
    BY <1>2, <1>11
  <2>2. Asks([store EXCEPT ![t] = r], Asked) = Asks(store, Asked)
    BY <1>1, AskedIs
  <2> QED
    BY <2>1, <2>2
<1> QED
  BY <1>1, <1>9, <1>12, <1>13, <1>15, <1>16, <1>17

-----------------------------------------------------------------------------
(* What the steps are made of.                                             *)

\* What was well formed stays so.
LEMMA Kept ==
    ASSUME Typed, UNCHANGED env, version <= version', version' \in Nat,
           observer.generation <= observer'.generation, observer'.generation \in Nat
    PROVE  /\ \A m : RequestOK(m) => RequestOK(m)'
           /\ \A m : MessageOK(m) => MessageOK(m)'
           /\ Asked' = Asked /\ Refused' = Refused /\ EnvOK' /\ (Nothing)' = Nothing
<1>1. query' = query /\ ordered' = ordered
  BY DEF env
<1>2. version \in Nat /\ observer.generation \in Nat
  BY DEF Typed, StoreOK, ObserverOK
<1>3. Asked' = Asked /\ Refused' = Refused /\ (Nothing)' = Nothing
  BY <1>1 DEF Asked, Refused, Nothing
<1>4. EnvOK'
  BY <1>1 DEF Typed, EnvOK
<1>5. \A m : FetchOK(m) => FetchOK(m)'
  BY <1>1, <1>2, <1>3 DEF FetchOK
<1>6. \A m : RequestOK(m) => RequestOK(m)'
  BY <1>5 DEF RequestOK
<1>7. \A m : m.asOf \in Nat /\ m.asOf <= version => m.asOf <= version'
  BY <1>2
<1>8. \A m : MessageOK(m) => MessageOK(m)'
  BY <1>1, <1>3, <1>5, <1>7 DEF MessageOK
<1> QED
  BY <1>3, <1>4, <1>6, <1>8

LEMMA Arrived ==
    ASSUME Typed, NEW i \in DOMAIN inbox, NEW kinds, Arrives(i, kinds)
    PROVE  /\ inbox[i].op \in kinds /\ MessageOK(inbox[i])
           /\ ordered => i = 1
           /\ IsSeq(inbox') /\ Len(inbox) \in Nat /\ DOMAIN inbox = 1..Len(inbox)
           /\ DOMAIN inbox' = 1..Len(inbox) - 1
           /\ \A j \in DOMAIN inbox' : \E k \in DOMAIN inbox :
                 /\ k # i /\ inbox'[j] = inbox[k]
                 /\ (j < i => k = j) /\ (j >= i => k = j + 1)
           /\ \A k \in DOMAIN inbox : k # i => \E j \in DOMAIN inbox' :
                 inbox'[j] = inbox[k] /\ (k < i => j = k) /\ (k > i => j = k - 1)
<1>1. IsSeq(inbox) /\ MessageOK(inbox[i])
  BY DEF Typed, InboxOK
<1>2. inbox' = RemoveAt(inbox, i) /\ inbox[i].op \in kinds /\ (ordered => i = 1)
  BY DEF Arrives
<1>3. PICK r : r = RemoveAt(inbox, i)
  OBVIOUS
<1>4. IsSeq(r) /\ DOMAIN inbox = 1..Len(inbox) /\ Len(inbox) \in Nat \ {0}
  BY <1>1, <1>3, RemoveSeq
<1>5. /\ DOMAIN r = 1..Len(inbox) - 1
      /\ \A j \in DOMAIN r : \E k \in DOMAIN inbox :
            k # i /\ r[j] = inbox[k] /\ (j < i => k = j) /\ (j >= i => k = j + 1)
      /\ \A k \in DOMAIN inbox : k # i => \E j \in DOMAIN r :
            r[j] = inbox[k] /\ (k < i => j = k) /\ (k > i => j = k - 1)
  BY <1>1, <1>3, Removed
<1> QED
  BY <1>1, <1>2, <1>3, <1>4, <1>5

LEMMA ForgettingIs ==
    ASSUME NEW x, ObserverOK(observer)
    PROVE  LET r == Forgetting(x) IN
           /\ ObserverOK(r)
           /\ r.generation = observer.generation /\ r.listeners = observer.listeners
           /\ r.latest = observer.latest /\ r.asOf = observer.asOf
           /\ r.value = observer.value /\ r.kept = observer.kept
           /\ r.previous \in {observer.previous, <<>>}
<1>1. PICK previous \in {observer.previous, <<>>} :
         Forgetting(x) = [observer EXCEPT !.previous = previous]
  BY Zenon DEF Forgetting
<1>2. PICK r : r = Forgetting(x)
  OBVIOUS
<1>3. r = [listeners |-> observer.listeners, value |-> observer.value,
           latest |-> observer.latest, generation |-> observer.generation,
           previous |-> previous, asOf |-> observer.asOf,
           failed |-> observer.failed, missed |-> observer.missed, kept |-> observer.kept]
  BY <1>1, <1>2 DEF ObserverOK
<1>4. /\ r.generation = observer.generation /\ r.listeners = observer.listeners
      /\ r.latest = observer.latest /\ r.asOf = observer.asOf
      /\ r.value = observer.value /\ r.kept = observer.kept /\ r.previous = previous
      /\ r.failed = observer.failed /\ r.missed = observer.missed
  BY <1>3
<1>5. ObserverOK(r)
  BY <1>3, <1>4 DEF ObserverOK
<1> QED
  BY <1>1, <1>2, <1>4, <1>5

LEMMA RefetchedIs ==
    ASSUME NEW o, ObserverOK(o)
    PROVE  LET r == Refetched(o) IN
           /\ ObserverOK(r)
           /\ r.generation = o.generation + 1 /\ r.listeners = o.listeners
           /\ r.latest = o.latest /\ r.previous = o.previous /\ r.asOf = o.asOf
           /\ r.missed = FALSE /\ r.failed = Refused /\ r.kept = o.kept
           /\ r.value = IF Refused THEN Shown(o.latest, TRUE) ELSE o.value
<1>1. Refused \in BOOLEAN
  BY DEF Refused
<1>2. PICK r : r = Refetched(o)
  OBVIOUS
<1>3. r = [listeners |-> o.listeners,
           value |-> IF Refused THEN Shown(o.latest, TRUE) ELSE o.value,
           latest |-> o.latest, generation |-> o.generation + 1,
           previous |-> o.previous, asOf |-> o.asOf, failed |-> Refused, missed |-> FALSE,
           kept |-> o.kept]
  BY <1>2 DEF Refetched, ObserverOK
<1>4. /\ r.generation = o.generation + 1 /\ r.listeners = o.listeners
      /\ r.latest = o.latest /\ r.previous = o.previous /\ r.asOf = o.asOf
      /\ r.missed = FALSE /\ r.failed = Refused /\ r.kept = o.kept
      /\ r.value = IF Refused THEN Shown(o.latest, TRUE) ELSE o.value
  BY <1>3
<1>5. ObserverOK(r)
  BY <1>1, <1>3, <1>4 DEF ObserverOK
<1> QED
  BY <1>2, <1>4, <1>5

\* A refetch is of a generation nothing else on its way has.
LEMMA PostedIs ==
    ASSUME Typed, UNCHANGED env, version' = version, NEW o, ObserverOK(o),
           o.generation = observer.generation,
           observer' = Refetched(o), PostFetch(queue)
    PROVE  /\ QueueOK'
           /\ observer'.generation = observer.generation + 1
           /\ queue' = queue \/ \E m :
                 /\ queue' = Append(queue, m) /\ IsAnswer(m) /\ ~Refused
                 /\ m.generation = observer.generation + 1
           /\ ~Refused => \E i \in DOMAIN queue' : Newest(queue[i])'
           /\ \A i \in DOMAIN queue : queue'[i] = queue[i] /\ i \in DOMAIN queue'
           /\ \A i \in DOMAIN queue' : i \in DOMAIN queue \/
                 (IsAnswer(queue'[i]) /\ \A j \in DOMAIN queue' : j # i => j \in DOMAIN queue)
           /\ \A m : RequestOK(m) \/ MessageOK(m) => ~Newest(m)'
<1>1. observer'.generation = observer.generation + 1 /\ observer.generation \in Nat
  BY RefetchedIs DEF Typed, ObserverOK
<1>2. /\ \A m : RequestOK(m) => RequestOK(m)'
      /\ \A m : MessageOK(m) => MessageOK(m)'
      /\ Refused' = Refused
  BY <1>1, Kept DEF Typed, StoreOK
<1>3. QueueOK
  BY DEF Typed
<1>m. PICK m : m = Fetch(observer.generation + 1)
  OBVIOUS
<1>4. /\ m.op = IF query.kind = "count" THEN "count" ELSE "fetch"
      /\ m.generation = observer.generation + 1 /\ IsAnswer(m)
  BY <1>m DEF Fetch, IsAnswer
<1>5. queue' = IF Refused THEN queue ELSE Append(queue, m)
  BY <1>m DEF PostFetch
<1>6. ~Refused => RequestOK(m)'
  <2>1. ~Refused => FetchOK(m)'
    BY <1>1, <1>2, <1>4 DEF FetchOK, env
  <2> QED
    BY <1>4, <2>1 DEF RequestOK, IsAnswer
<1>7. \A n : RequestOK(n) \/ MessageOK(n) => ~Newest(n)'
  <2>1. \A n : FetchOK(n) => n.generation # observer'.generation
    BY <1>1 DEF FetchOK
  <2> QED
    BY <2>1 DEF RequestOK, MessageOK, Newest
<1>8. CASE Refused
  <2>1. queue' = queue
    BY <1>5, <1>8
  <2>2. QueueOK'
    BY <1>2, <1>3, <2>1 DEF QueueOK
  <2> QED
    BY <1>1, <1>7, <1>8, <2>1, <2>2
<1>9. CASE ~Refused
  <2>1. queue' = Append(queue, m)
    BY <1>5, <1>9
  <2>2. /\ IsSeq(queue') /\ Len(queue) \in Nat /\ DOMAIN queue = 1..Len(queue)
        /\ DOMAIN queue' = 1..Len(queue) + 1
        /\ \A i \in DOMAIN queue : queue'[i] = queue[i]
        /\ queue'[Len(queue) + 1] = m
    BY <1>3, <2>1, AppendSeq DEF QueueOK
  <2>3. \A i \in DOMAIN queue' : i \in DOMAIN queue \/ i = Len(queue) + 1
    BY <2>2
  <2>4. QueueOK'
    BY <1>2, <1>3, <1>6, <1>9, <2>2, <2>3 DEF QueueOK
  <2>5. Len(queue) + 1 \in DOMAIN queue' /\ \A i \in DOMAIN queue : i \in DOMAIN queue'
    BY <2>2
  <2>6. \E i \in DOMAIN queue' : Newest(queue[i])'
    BY <1>1, <1>4, <2>2, <2>5 DEF Newest
  <2> QED
    BY <1>1, <1>4, <1>7, <1>9, <2>1, <2>2, <2>3, <2>4, <2>5, <2>6
<1> QED
  BY <1>8, <1>9

LEMMA CachedIs ==
    ASSUME CacheOK, NEW rows, NEW new, new = Cached(rows),
           \A k \in DOMAIN rows :
              rows[k].id \in TableIds[Asked.table] /\ IsRaw(rows[k].id, rows[k]),
           Asked.table \in Tables
    PROVE  /\ DOMAIN new = Tables /\ \A t \in Tables : DOMAIN new[t] = TableIds[t]
           /\ \A t \in Tables : \A id \in TableIds[t] :
                 \/ new[t][id] = cache[t][id]
                 \/ /\ t = Asked.table /\ cache[t][id] = NoRow
                    /\ \E k \in DOMAIN rows : rows[k].id = id /\ new[t][id] = SanitizedRaw(rows[k])
           /\ \A t \in Tables : \A id \in TableIds[t] :
                 /\ cache[t][id] # NoRow => new[t][id] = cache[t][id]
                 /\ new[t][id] # NoRow => IsRaw(id, new[t][id])
           /\ \A k \in DOMAIN rows : new[Asked.table][rows[k].id] # NoRow
<1> DEFINE T == Asked.table
           at(id) == CHOOSE i \in DOMAIN rows : rows[i].id = id
           Row(id) == IF \E i \in DOMAIN rows : rows[i].id = id
                      THEN Resolved(rows)[at(id)] ELSE cache[T][id]
<1>1. /\ DOMAIN cache = Tables /\ \A t \in Tables : DOMAIN cache[t] = TableIds[t]
      /\ \A t \in Tables : \A id \in TableIds[t] : cache[t][id] # NoRow => IsRaw(id, cache[t][id])
  BY DEF CacheOK
<1>2. new = [cache EXCEPT ![T] = [id \in DOMAIN cache[T] |-> Row(id)]]
  BY DEF Cached
<1>3. \A k \in DOMAIN rows :
        Resolved(rows)[k] = IF cache[T][rows[k].id] # NoRow THEN cache[T][rows[k].id]
                            ELSE SanitizedRaw(rows[k])
  BY DEF Resolved
<1>4. ASSUME NEW id \in TableIds[T], \E i \in DOMAIN rows : rows[i].id = id
      PROVE  \E k \in DOMAIN rows :
                rows[k].id = id /\ Row(id) = IF cache[T][id] # NoRow THEN cache[T][id]
                                             ELSE SanitizedRaw(rows[k])
  <2>1. at(id) \in DOMAIN rows /\ rows[at(id)].id = id
    BY <1>4
  <2>2. Row(id) = Resolved(rows)[at(id)]
    BY <1>4
  <2> QED
    BY <1>3, <2>1, <2>2
<1>5. \A id \in TableIds[T] : (~\E i \in DOMAIN rows : rows[i].id = id) => Row(id) = cache[T][id]
  OBVIOUS
<1> HIDE DEF Row
<1>6. /\ DOMAIN new = Tables /\ (\A t \in Tables : DOMAIN new[t] = TableIds[t])
      /\ (\A t \in Tables : t # T => new[t] = cache[t])
      /\ (\A id \in TableIds[T] : new[T][id] = Row(id))
  BY <1>1, <1>2
<1>7. ASSUME NEW t \in Tables, NEW id \in TableIds[t]
      PROVE  /\ \/ new[t][id] = cache[t][id]
                \/ /\ t = T /\ cache[t][id] = NoRow
                   /\ \E k \in DOMAIN rows : rows[k].id = id /\ new[t][id] = SanitizedRaw(rows[k])
             /\ cache[t][id] # NoRow => new[t][id] = cache[t][id]
             /\ new[t][id] # NoRow => IsRaw(id, new[t][id])
  <2>1. CASE t # T
    BY <1>1, <1>6, <2>1
  <2>2. CASE t = T /\ \E i \in DOMAIN rows : rows[i].id = id
    <3>1. PICK k \in DOMAIN rows :
            rows[k].id = id /\ Row(id) = IF cache[T][id] # NoRow THEN cache[T][id]
                                         ELSE SanitizedRaw(rows[k])
      BY <1>4, <2>2
    <3>2. IsRaw(id, SanitizedRaw(rows[k]))
      BY <3>1, RawIsRow
    <3> QED
      BY <1>1, <1>6, <2>2, <3>1, <3>2
  <2>3. CASE t = T /\ ~\E i \in DOMAIN rows : rows[i].id = id
    BY <1>1, <1>5, <1>6, <2>3
  <2> QED
    BY <2>1, <2>2, <2>3
<1>8. ASSUME NEW k \in DOMAIN rows
      PROVE  new[T][rows[k].id] # NoRow
  <2>1. PICK j \in DOMAIN rows :
          rows[j].id = rows[k].id /\ Row(rows[k].id) = IF cache[T][rows[k].id] # NoRow
                                                       THEN cache[T][rows[k].id]
                                                       ELSE SanitizedRaw(rows[j])
    BY <1>4
  <2>2. IsRaw(rows[j].id, SanitizedRaw(rows[j]))
    BY RawIsRow
  <2>3. SanitizedRaw(rows[j]) # NoRow
    BY <2>2, RawIsRow
  <2> QED
    BY <1>6, <2>1, <2>3
<1> QED
  BY <1>6, <1>7, <1>8

LEMMA CacheAfterIs ==
    ASSUME CacheOK, NEW x, x.table \in Tables, x.id \in TableIds[x.table],
           NEW new, new = CacheAfter(x)
    PROVE  /\ DOMAIN new = Tables /\ \A t \in Tables : DOMAIN new[t] = TableIds[t]
           /\ \A t \in Tables : \A id \in TableIds[t] :
                 ~(t = x.table /\ id = x.id) => new[t][id] = cache[t][id]
           /\ new[x.table][x.id] = IF x.type = "destroyed" THEN NoRow ELSE x.row
BY DEF CacheOK, CacheAfter

LEMMA AppliedIs ==
    ASSUME CacheOK, NEW x, ChangeOK(x)
    PROVE  LET a == AsApplied(x)
               raw == cache[x.table][x.id] IN
           /\ a.table = x.table /\ a.id = x.id
           /\ x.type = "destroyed" => a = x
           /\ x.type # "destroyed" =>
                 /\ IsRaw(x.id, a.row)
                 /\ raw = NoRow => a.type = "created" /\ a.row = SanitizedRaw(x.row)
                 /\ raw # NoRow => a.type = "updated" /\ a.row = Over(x.row, raw)
<1>1. PICK t, id, type, row, soft : x = Change(t, id, type, row, soft)
  BY DEF ChangeOK
<1>2. x = [table |-> t, id |-> id, type |-> type, row |-> row, soft |-> soft]
  BY <1>1 DEF Change
<1>3. x.table = t /\ x.id = id /\ x.type = type /\ x.row = row
  BY <1>2
<1>4. t \in Tables /\ id \in TableIds[t]
  BY <1>3 DEF ChangeOK
<1> DEFINE raw == cache[x.table][x.id]
<1>5. CASE x.type = "destroyed"
  BY <1>3, <1>5 DEF AsApplied
<1>6. CASE x.type # "destroyed" /\ raw = NoRow
  <2>1. PICK a : a = AsApplied(x)
    OBVIOUS
  <2>2. a = [table |-> t, id |-> id, type |-> "created", row |-> SanitizedRaw(row), soft |-> soft]
    BY <1>2, <1>3, <1>6, <2>1 DEF AsApplied
  <2>3. IsRaw(x.id, SanitizedRaw(x.row))
    BY <1>3, <1>4, <1>6, WrittenRow DEF ChangeOK
  <2>4. a.table = t /\ a.id = id /\ a.type = "created" /\ a.row = SanitizedRaw(row)
    BY <2>2
  <2> QED
    BY <1>3, <1>6, <2>1, <2>3, <2>4
<1>7. CASE x.type # "destroyed" /\ raw # NoRow
  <2>1. PICK a : a = AsApplied(x)
    OBVIOUS
  <2>2. a = [table |-> t, id |-> id, type |-> "updated", row |-> Over(row, raw), soft |-> soft]
    BY <1>2, <1>3, <1>7, <2>1 DEF AsApplied, Overlaid
  <2>3. IsRaw(id, raw) /\ IsWritten(t, id, row)
    BY <1>3, <1>4, <1>7 DEF CacheOK, ChangeOK
  <2>4. PICK o : o = Over(row, raw)
    OBVIOUS
  <2>5. /\ o = [id |-> o.id, val |-> o.val, ref |-> o.ref, gone |-> o.gone]
        /\ o.id = IF "id" \in DOMAIN row THEN row.id ELSE raw.id
        /\ o.gone = IF "gone" \in DOMAIN row THEN row.gone ELSE raw.gone
    BY <2>4, OverRow
  <2>6. o.id = id /\ o.gone = FALSE
    BY <2>3, <2>5 DEF IsWritten
  <2>7. IsRaw(id, o)
    BY <2>3, <2>5, <2>6 DEF IsRaw
  <2>8. a.table = t /\ a.id = id /\ a.type = "updated" /\ a.row = Over(row, raw)
    BY <2>2
  <2> QED
    BY <1>3, <1>7, <2>1, <2>4, <2>7, <2>8
<1> QED
  BY <1>5, <1>6, <1>7

LEMMA KeptQueues ==
    ASSUME Typed, UNCHANGED env, version <= version', version' \in Nat,
           observer.generation <= observer'.generation, observer'.generation \in Nat
    PROVE  /\ queue' = queue => QueueOK'
           /\ \A m : RequestOK(m)' /\ queue' = Append(queue, m) => QueueOK'
           /\ queue # <<>> /\ queue' = Tail(queue) => QueueOK'
           /\ inbox' = inbox => InboxOK'
           /\ \A m : MessageOK(m)' /\ inbox' = Append(inbox, m) => InboxOK'
           /\ IsSeq(inbox') /\ (\A j \in DOMAIN inbox' : \E k \in DOMAIN inbox : inbox'[j] = inbox[k]) =>
                 InboxOK'
           /\ relay' = relay => RelayOK'
<1>1. /\ \A m : RequestOK(m) => RequestOK(m)'
      /\ \A m : MessageOK(m) => MessageOK(m)'
  BY Kept
<1>2. QueueOK /\ InboxOK /\ RelayOK
  BY DEF Typed
<1>3. queue' = queue => QueueOK'
  BY <1>1, <1>2 DEF QueueOK
<1>4. ASSUME NEW m, RequestOK(m)', queue' = Append(queue, m)
      PROVE  QueueOK'
  <2>1. /\ IsSeq(queue') /\ Len(queue) \in Nat /\ DOMAIN queue = 1..Len(queue)
        /\ DOMAIN queue' = 1..Len(queue) + 1
        /\ \A i \in DOMAIN queue : queue'[i] = queue[i]
        /\ queue'[Len(queue) + 1] = m
    BY <1>2, <1>4, AppendSeq DEF QueueOK
  <2>2. \A i \in DOMAIN queue' : i \in DOMAIN queue \/ i = Len(queue) + 1
    BY <2>1
  <2> QED
    BY <1>1, <1>2, <1>4, <2>1, <2>2 DEF QueueOK
<1>5. ASSUME queue # <<>>, queue' = Tail(queue)
      PROVE  QueueOK'
  <2>1. /\ IsSeq(queue') /\ Len(queue) \in Nat \ {0} /\ DOMAIN queue = 1..Len(queue)
        /\ DOMAIN queue' = 1..Len(queue) - 1
        /\ \A i \in DOMAIN queue' : queue'[i] = queue[i + 1]
    BY <1>2, <1>5, TailSeq DEF QueueOK
  <2>2. \A i \in DOMAIN queue' : i + 1 \in DOMAIN queue
    BY <2>1
  <2> QED
    BY <1>1, <1>2, <2>1, <2>2 DEF QueueOK
<1>6. inbox' = inbox => InboxOK'
  BY <1>1, <1>2 DEF InboxOK
<1>7. ASSUME NEW m, MessageOK(m)', inbox' = Append(inbox, m)
      PROVE  InboxOK'
  <2>1. /\ IsSeq(inbox') /\ Len(inbox) \in Nat /\ DOMAIN inbox = 1..Len(inbox)
        /\ DOMAIN inbox' = 1..Len(inbox) + 1
        /\ \A i \in DOMAIN inbox : inbox'[i] = inbox[i]
        /\ inbox'[Len(inbox) + 1] = m
    BY <1>2, <1>7, AppendSeq DEF InboxOK
  <2>2. \A i \in DOMAIN inbox' : i \in DOMAIN inbox \/ i = Len(inbox) + 1
    BY <2>1
  <2> QED
    BY <1>1, <1>2, <1>7, <2>1, <2>2 DEF InboxOK
<1>8. IsSeq(inbox') /\ (\A j \in DOMAIN inbox' : \E k \in DOMAIN inbox : inbox'[j] = inbox[k]) =>
         InboxOK'
  BY <1>1, <1>2 DEF InboxOK
<1>9. relay' = relay => RelayOK'
  BY <1>1, <1>2 DEF RelayOK
<1> QED
  BY <1>3, <1>4, <1>5, <1>6, <1>7, <1>8, <1>9

\* What is announced, and what that does to the identity map and the observer.
LEMMA AnnounceTyped ==
    ASSUME Typed, UNCHANGED env, version' = version, NEW x,
           x.table \in Tables, x.id \in TableIds[x.table],
           x.type # "destroyed" => IsRaw(x.id, x.row),
           Announce(x)
    PROVE  /\ CacheOK' /\ ModelsOK' /\ ObserverOK(observer)' /\ QueueOK'
           /\ observer.generation <= observer'.generation /\ observer'.generation \in Nat
           /\ version \in Nat
<1>1. version \in Nat /\ ObserverOK(observer) /\ observer.generation \in Nat /\ CacheOK /\ ModelsOK
  BY DEF Typed, StoreOK, ObserverOK
<1>2. CacheOK'
  <2>1. /\ DOMAIN cache' = Tables /\ \A t \in Tables : DOMAIN cache'[t] = TableIds[t]
        /\ \A t \in Tables : \A id \in TableIds[t] :
              ~(t = x.table /\ id = x.id) => cache'[t][id] = cache[t][id]
        /\ cache'[x.table][x.id] = IF x.type = "destroyed" THEN NoRow ELSE x.row
    BY <1>1, CacheAfterIs DEF Announce
  <2> QED
    BY <1>1, <2>1 DEF CacheOK
<1>3. ModelsOK'
  <2>1. Asked' = Asked
    BY DEF Asked, env
  <2>2. models' = ModelsAfter(x) /\ orphans' = OrphansAfter(x)
    BY DEF Announce
  <2>3. models' \subseteq models
    BY <2>2 DEF ModelsAfter
  <2>4. orphans' \subseteq models'
    <3>1. CASE x.type = "destroyed"
      BY <1>1, <2>2, <3>1 DEF ModelsOK, OrphansAfter, ModelsAfter
    <3>2. CASE x.type # "destroyed"
      BY <1>1, <2>2, <3>2 DEF ModelsOK, OrphansAfter, ModelsAfter, Orphaned
    <3> QED
      BY <3>1, <3>2
  <2> QED
    BY <1>1, <2>1, <2>3, <2>4 DEF ModelsOK
<1>4. CASE observer' = Refetched(Forgetting(x)) /\ PostFetch(queue)
  <2>0. ObserverOK(Forgetting(x)) /\ Forgetting(x).generation = observer.generation
    BY <1>1, ForgettingIs
  <2>1. QueueOK' /\ observer'.generation = observer.generation + 1
    BY <1>1, <1>4, <2>0, PostedIs
  <2>2. ObserverOK(Refetched(Forgetting(x)))
    BY <2>0, RefetchedIs
  <2>3. ObserverOK(observer)'
    BY <1>4, <2>2 DEF ObserverOK
  <2> QED
    BY <1>1, <1>2, <1>3, <2>1, <2>3
<1>5. CASE UNCHANGED <<observer, queue>>
  <2>1. QueueOK' /\ ObserverOK(observer)'
    BY <1>1, <1>5, KeptQueues DEF ObserverOK
  <2> QED
    BY <1>1, <1>2, <1>3, <1>5, <2>1
<1> QED
  BY <1>4, <1>5 DEF Announce, Notify

\* Rows that arrive.
LEMMA RowsTyped ==
    ASSUME Typed, UNCHANGED env, NEW rows,
           \A k \in DOMAIN rows :
              rows[k].id \in TableIds[Asked.table] /\ IsRaw(rows[k].id, rows[k]),
           cache' = Cached(rows), orphans' = Orphaned(Entering(rows)),
           models' \in {models, models \cup Ids(rows)}
    PROVE  CacheOK' /\ ModelsOK'
<1>1. CacheOK /\ ModelsOK /\ Asked.table \in Tables /\ Asked' = Asked
  BY AskedIs DEF Typed, EnvOK, Asked, env
<1>2. CacheOK'
  <2>1. /\ DOMAIN cache' = Tables /\ \A t \in Tables : DOMAIN cache'[t] = TableIds[t]
        /\ \A t \in Tables : \A id \in TableIds[t] :
              cache'[t][id] # NoRow => IsRaw(id, cache'[t][id])
    BY <1>1, CachedIs
  <2> QED
    BY <2>1 DEF CacheOK
<1>3. Ids(rows) \subseteq TableIds[Asked.table]
  BY DEF Ids
<1>4. ModelsOK'
  BY <1>1, <1>3 DEF ModelsOK, Orphaned
<1> QED
  BY <1>2, <1>4

LEMMA TypedStep ==
    ASSUME Typed, Alone, [Next]_vars
    PROVE  Typed'
<1>1. /\ EnvOK /\ StoreOK /\ CacheOK /\ ModelsOK /\ ObserverOK(observer)
      /\ QueueOK /\ InboxOK /\ RelayOK /\ spent \in 0..MaxExtras
      /\ version \in Nat /\ version <= MaxWrites /\ observer.generation \in Nat
      /\ MaxExtras \in Nat /\ MaxWrites \in Nat
  BY ObserveAssumption DEF Typed, StoreOK, ObserverOK
<1>2. UNCHANGED env => Asked' = Asked /\ EnvOK'
  BY <1>1 DEF Asked, env, EnvOK
<1>3. UNCHANGED <<env, identity>> => CacheOK' /\ ModelsOK'
  BY <1>1, <1>2 DEF identity, CacheOK, ModelsOK
<1>4. UNCHANGED storage => StoreOK' /\ version' = version /\ store' = store
  BY <1>1 DEF storage, StoreOK
<1>5. version' = version /\ observer' = observer => ObserverOK(observer)'
  BY <1>1 DEF ObserverOK
<1>6. ASSUME NEW o, ObserverOK(o), observer' = o, version' = version
      PROVE  ObserverOK(observer)'
  BY <1>6 DEF ObserverOK
<1>7. spent < MaxExtras /\ spent' = spent + 1 => spent' \in 0..MaxExtras
  BY <1>1
<1> DEFINE Same == UNCHANGED env /\ UNCHANGED storage /\ observer' = observer
<1>8. Same => /\ EnvOK' /\ StoreOK' /\ ObserverOK(observer)'
              /\ version <= version' /\ version' \in Nat
              /\ observer.generation <= observer'.generation /\ observer'.generation \in Nat
  BY <1>1, <1>2, <1>4, <1>5
<1>9. Same => /\ queue' = queue => QueueOK'
              /\ \A m : RequestOK(m)' /\ queue' = Append(queue, m) => QueueOK'
              /\ queue # <<>> /\ queue' = Tail(queue) => QueueOK'
              /\ inbox' = inbox => InboxOK'
              /\ \A m : MessageOK(m)' /\ inbox' = Append(inbox, m) => InboxOK'
              /\ IsSeq(inbox') /\ (\A j \in DOMAIN inbox' : \E k \in DOMAIN inbox : inbox'[j] = inbox[k]) =>
                    InboxOK'
              /\ relay' = relay => RelayOK'
              /\ \A m : RequestOK(m) => RequestOK(m)'
              /\ \A m : MessageOK(m) => MessageOK(m)'
  BY <1>8, Kept, KeptQueues
<1>10. CASE Mount
  <2>1. /\ UNCHANGED env /\ UNCHANGED storage /\ UNCHANGED identity /\ inbox' = inbox
        /\ relay' = relay /\ observer.listeners < 2 /\ spent' \in 0..MaxExtras
    BY <1>1, <1>7, <1>10 DEF Mount
  <2>2. EnvOK' /\ StoreOK' /\ CacheOK' /\ ModelsOK' /\ version' = version
    BY <1>2, <1>3, <1>4, <2>1
  <2>3. CASE observer.listeners = 0
    <3>1. PICK latest : /\ observer' = Refetched([observer EXCEPT !.listeners = 1, !.latest = latest])
                        /\ PostFetch(queue)
      BY <1>10, <2>3 DEF Mount
    <3>2. PICK o : o = [observer EXCEPT !.listeners = 1, !.latest = latest]
      OBVIOUS
    <3>3. ObserverOK(o) /\ o.generation = observer.generation
      <4>1. o = [listeners |-> 1, value |-> observer.value, latest |-> latest,
                 generation |-> observer.generation, previous |-> observer.previous,
                 asOf |-> observer.asOf, failed |-> observer.failed, missed |-> observer.missed,
                 kept |-> observer.kept]
        BY <1>1, <3>2 DEF ObserverOK
      <4>2. /\ o.listeners = 1 /\ o.value = observer.value /\ o.latest = latest
            /\ o.generation = observer.generation /\ o.previous = observer.previous
            /\ o.asOf = observer.asOf /\ o.failed = observer.failed /\ o.missed = observer.missed
            /\ o.kept = observer.kept
        BY <4>1
      <4> QED
        BY <1>1, <4>1, <4>2 DEF ObserverOK
    <3>4. QueueOK' /\ observer'.generation = observer.generation + 1
      BY <2>1, <2>2, <3>1, <3>2, <3>3, PostedIs
    <3>5. ObserverOK(observer)'
      BY <1>6, <2>2, <3>1, <3>2, <3>3, RefetchedIs
    <3>6. InboxOK' /\ RelayOK'
      BY <1>1, <2>1, <2>2, <3>4, KeptQueues
    <3> QED
      BY <2>1, <2>2, <3>4, <3>5, <3>6 DEF Typed
  <2>4. CASE observer.listeners # 0
    <3>1. observer' = [observer EXCEPT !.listeners = 2] /\ queue' = queue
      BY <1>10, <2>4 DEF Mount
    <3>2. ObserverOK([observer EXCEPT !.listeners = 2])
      BY <1>1 DEF ObserverOK
    <3>3. ObserverOK(observer)' /\ observer'.generation = observer.generation
      BY <1>1, <1>6, <2>2, <3>1, <3>2 DEF ObserverOK
    <3>4. QueueOK' /\ InboxOK' /\ RelayOK'
      BY <1>1, <2>1, <2>2, <3>1, <3>3, KeptQueues
    <3> QED
      BY <2>1, <2>2, <3>3, <3>4 DEF Typed
  <2> QED
    BY <2>3, <2>4
<1>11. CASE Unmount
  <2>1. /\ UNCHANGED env /\ UNCHANGED storage /\ UNCHANGED identity /\ inbox' = inbox
        /\ relay' = relay /\ queue' = queue /\ spent' = spent
        /\ observer' = Leaves(observer) /\ observer.listeners > 0
    BY <1>11 DEF Unmount
  <2>2. EnvOK' /\ StoreOK' /\ CacheOK' /\ ModelsOK' /\ version' = version
    BY <1>2, <1>3, <1>4, <2>1
  <2>3. ObserverOK(Leaves(observer)) /\ Leaves(observer).generation = observer.generation
    <3>1. CASE observer.listeners = 2
      <4>1. Leaves(observer) = [observer EXCEPT !.listeners = 1]
        BY <3>1 DEF Leaves
      <4> QED
        BY <1>1, <4>1 DEF ObserverOK
    <3>2. CASE observer.listeners # 2
      <4>1. PICK o : o = Leaves(observer)
        OBVIOUS
      <4>2. o = [listeners |-> 0, value |-> Loading, latest |-> observer.latest,
                 generation |-> observer.generation, previous |-> <<>>,
                 asOf |-> observer.asOf, failed |-> FALSE, missed |-> FALSE, kept |-> FALSE]
        BY <1>1, <3>2, <4>1 DEF ObserverOK, Leaves
      <4>3. /\ o.listeners = 0 /\ o.value = Loading /\ o.latest = observer.latest
            /\ o.generation = observer.generation /\ o.previous = <<>>
            /\ o.asOf = observer.asOf /\ o.failed = FALSE /\ o.missed = FALSE /\ o.kept = FALSE
        BY <4>2
      <4> QED
        BY <1>1, <4>1, <4>2, <4>3 DEF ObserverOK
    <3> QED
      BY <3>1, <3>2
  <2>4. ObserverOK(observer)'
    BY <1>6, <2>1, <2>2, <2>3
  <2>5. QueueOK' /\ InboxOK' /\ RelayOK'
    BY <1>1, <2>1, <2>2, <2>3, KeptQueues
  <2> QED
    BY <1>1, <2>1, <2>2, <2>4, <2>5 DEF Typed
<1>12. CASE FetchOnce
  <2>1. /\ Same /\ UNCHANGED identity /\ inbox' = inbox /\ relay' = relay
        /\ spent' \in 0..MaxExtras /\ queue' = Append(queue, [op |-> "once"])
    BY <1>7, <1>12 DEF FetchOnce
  <2>2. RequestOK([op |-> "once"])'
    BY DEF RequestOK, IsAnswer
  <2>3. QueueOK'
    <3>1. PICK m : m = [op |-> "once"]
      OBVIOUS
    <3>2. RequestOK(m)'
      BY <3>1 DEF RequestOK, IsAnswer
    <3> QED
      BY <1>9, <2>1, <3>1, <3>2
  <2>4. InboxOK' /\ RelayOK'
    BY <1>9, <2>1
  <2> QED
    BY <1>1, <1>3, <1>8, <2>1, <2>3, <2>4 DEF Typed
<1>13. CASE LocalWrite
  <2>1. /\ Same /\ UNCHANGED identity /\ inbox' = inbox /\ relay' = relay /\ spent' = spent
    BY <1>13 DEF LocalWrite
  <2>2. PICK x \in Changes(Findable, [t \in Tables |-> {}]) :
          queue' = Append(queue, [op |-> "batch", change |-> x])
    BY <1>13 DEF LocalWrite
  <2>3. ChangeOK(x) /\ IsWhole(x)
    BY WritersChange
  <2>4. PICK m : m = [op |-> "batch", change |-> x]
    OBVIOUS
  <2>5. RequestOK(m)'
    BY <2>3, <2>4 DEF RequestOK, IsAnswer
  <2>6. QueueOK' /\ InboxOK' /\ RelayOK'
    BY <1>9, <2>1, <2>2, <2>4, <2>5
  <2> QED
    BY <1>1, <1>3, <1>8, <2>1, <2>6 DEF Typed
<1>14. CASE ExternalWrite
  <2>1. /\ UNCHANGED env /\ UNCHANGED identity /\ inbox' = inbox /\ queue' = queue
        /\ spent' = spent /\ observer' = observer /\ version' = version + 1
        /\ version < MaxWrites /\ ordered
    BY <1>14 DEF ExternalWrite
  <2>2. PICK x \in Changes(Stored, Unknown) :
          /\ store' = Written(x)
          /\ relay' = Append(relay, [op |-> "external", change |-> x])
    BY <1>14 DEF ExternalWrite
  <2>3. ChangeOK(x)
    BY WritersChange
  <2>4. StoreOK'
    BY <1>1, <2>1, <2>2, <2>3, WrittenIs DEF StoreOK
  <2>5. ObserverOK(observer)'
    <3>1. observer.asOf \in Nat /\ observer.asOf <= version + 1
      BY <1>1 DEF ObserverOK
    <3> QED
      BY <1>1, <2>1, <3>1 DEF ObserverOK
  <2>6. version <= version' /\ version' \in Nat /\ observer.generation <= observer'.generation
        /\ observer'.generation \in Nat
    BY <1>1, <2>1
  <2>7. QueueOK' /\ InboxOK' /\ \A n : MessageOK(n) => MessageOK(n)'
    BY <2>1, <2>6, Kept, KeptQueues
  <2>8. PICK m : m = [op |-> "external", change |-> x]
    OBVIOUS
  <2>9. MessageOK(m)' /\ m.op = "external"
    BY <2>1, <2>3, <2>8 DEF MessageOK, IsAnswer, HasRows, env
  <2>10. RelayOK'
    <3>1. /\ IsSeq(relay') /\ Len(relay) \in Nat /\ DOMAIN relay = 1..Len(relay)
          /\ DOMAIN relay' = 1..Len(relay) + 1
          /\ \A i \in DOMAIN relay : relay'[i] = relay[i]
          /\ relay'[Len(relay) + 1] = m
      BY <1>1, <2>2, <2>8, AppendSeq DEF RelayOK
    <3>2. \A i \in DOMAIN relay' : i \in DOMAIN relay \/ i = Len(relay) + 1
      BY <3>1
    <3> QED
      BY <1>1, <2>7, <2>9, <3>1, <3>2 DEF RelayOK
  <2> QED
    BY <1>1, <1>2, <1>3, <2>1, <2>4, <2>5, <2>7, <2>10 DEF Typed
<1>15. CASE Relay
  <2>1. /\ Same /\ UNCHANGED identity /\ queue' = queue /\ spent' = spent
        /\ relay # <<>> /\ inbox' = Append(inbox, Head(relay)) /\ relay' = Tail(relay)
    BY <1>15 DEF Relay
  <2>2. /\ IsSeq(relay') /\ Len(relay) \in Nat \ {0} /\ DOMAIN relay = 1..Len(relay)
        /\ DOMAIN relay' = 1..Len(relay) - 1
        /\ \A i \in DOMAIN relay' : relay'[i] = relay[i + 1]
        /\ Head(relay) = relay[1]
    BY <1>1, <2>1, TailSeq DEF RelayOK
  <2>3. 1 \in DOMAIN relay /\ \A i \in DOMAIN relay' : i + 1 \in DOMAIN relay
    BY <2>2
  <2>4. MessageOK(Head(relay))
    BY <1>1, <2>2, <2>3 DEF RelayOK
  <2>5. PICK m : m = Head(relay)
    OBVIOUS
  <2>6. QueueOK' /\ InboxOK'
    BY <1>9, <2>1, <2>4, <2>5
  <2>7. RelayOK'
    BY <1>1, <1>9, <2>1, <2>2, <2>3 DEF RelayOK
  <2> QED
    BY <1>1, <1>3, <1>8, <2>1, <2>6, <2>7 DEF Typed
<1>16. CASE Run
  <2>1. /\ UNCHANGED env /\ UNCHANGED identity /\ observer' = observer /\ relay' = relay
        /\ spent' = spent /\ queue # <<>> /\ queue' = Tail(queue)
    BY <1>16 DEF Run
  <2>2. PICK r : r = Head(queue)
    OBVIOUS
  <2>3. RequestOK(r) /\ 1 \in DOMAIN queue /\ r = queue[1]
    <3>1. Len(queue) \in Nat \ {0} /\ DOMAIN queue = 1..Len(queue) /\ Head(queue) = queue[1]
      BY <1>1, <2>1, TailSeq DEF QueueOK
    <3>2. 1 \in DOMAIN queue
      BY <3>1
    <3> QED
      BY <1>1, <2>2, <3>1, <3>2 DEF QueueOK
  <2>4. CASE r.op = "batch"
    <3>1. store' = Written(r.change) /\ version' = version + 1 /\ inbox' = Append(inbox, r)
      BY <1>16, <2>2, <2>4 DEF Run
    <3>2. version < MaxWrites
      BY <2>3, <2>4 DEF Alone
    <3>3. ChangeOK(r.change) /\ IsWhole(r.change)
      BY <2>3, <2>4 DEF RequestOK
    <3>4. StoreOK'
      BY <1>1, <3>1, <3>2, <3>3, WrittenIs DEF StoreOK
    <3>5. ObserverOK(observer)'
      <4>1. observer.asOf \in Nat /\ observer.asOf <= version + 1
        BY <1>1 DEF ObserverOK
      <4> QED
        BY <1>1, <2>1, <3>1, <4>1 DEF ObserverOK
    <3>6. version <= version' /\ version' \in Nat /\ observer.generation <= observer'.generation
          /\ observer'.generation \in Nat
      BY <1>1, <2>1, <3>1
    <3>7. MessageOK(r)'
      BY <2>4, <3>3 DEF MessageOK, IsAnswer, HasRows
    <3>8. QueueOK' /\ InboxOK' /\ RelayOK'
      BY <2>1, <3>1, <3>6, <3>7, KeptQueues
    <3> QED
      BY <1>1, <1>2, <1>3, <2>1, <3>4, <3>5, <3>8 DEF Typed
  <2>5. CASE r.op # "batch"
    <3>1. UNCHANGED storage /\ inbox' = Append(inbox, ReadBy(r))
      BY <1>16, <2>2, <2>5 DEF Run
    <3>2. PICK m : m = ReadBy(r)
      OBVIOUS
    <3>3. \A k \in DOMAIN Fetches(store, Asked) :
            LET row == Fetches(store, Asked)[k] IN
            row.id \in TableIds[Asked.table] /\ IsRaw(row.id, row)
      <4> SUFFICES ASSUME NEW k \in DOMAIN Fetches(store, Asked)
                   PROVE  LET row == Fetches(store, Asked)[k] IN
                          row.id \in TableIds[Asked.table] /\ IsRaw(row.id, row)
        OBVIOUS
      <4>1. PICK id \in TableIds[Asked.table] :
              Fetches(store, Asked)[k] = store[Asked.table][id] /\ Live(store[Asked.table][id])
        BY <1>1, AskedIs DEF EnvOK, StoreOK
      <4>2. IsRaw(id, store[Asked.table][id])
        BY <1>1, <4>1, AskedIs, StoredRow DEF EnvOK, StoreOK
      <4> QED
        BY <4>1, <4>2, RawIsRow
    <3>4. MessageOK(m)'
      <4>1. r.op \in {"fetch", "count", "once"}
        BY <2>3, <2>5 DEF RequestOK
      <4>2. UNCHANGED env /\ version' = version /\ Asked' = Asked /\ observer' = observer
        BY <1>2, <1>4, <2>1, <3>1
      <4>3. CASE r.op = "once"
        <5>1. m = [op |-> "once", rows |-> Fetches(store, Asked)]
          BY <3>2, <4>3 DEF ReadBy
        <5>2. m.op = "once" /\ m.rows = Fetches(store, Asked)
          BY <5>1
        <5> QED
          BY <3>3, <4>2, <5>2 DEF MessageOK, IsAnswer, HasRows, IsChange
      <4>4. CASE r.op = "fetch"
        <5>1. m = [op |-> "fetch", generation |-> r.generation, ok |-> TRUE, asOf |-> version,
                   rows |-> Fetches(store, Asked)]
          BY <3>2, <4>4 DEF ReadBy
        <5>2. m.op = "fetch" /\ m.rows = Fetches(store, Asked) /\ m.ok = TRUE /\ m.asOf = version
              /\ m.generation = r.generation
          BY <5>1
        <5>3. FetchOK(m)
          BY <2>3, <4>4, <5>2 DEF RequestOK, IsAnswer, FetchOK
        <5>4. FetchOK(m)'
          BY <4>2, <5>3 DEF FetchOK, env, Refused
        <5>5. m.ok \in BOOLEAN
          BY <5>2
        <5> QED
          BY <1>1, <3>3, <4>2, <5>2, <5>4, <5>5 DEF MessageOK, IsAnswer, HasRows, IsChange
      <4>5. CASE r.op = "count"
        <5>1. m = [op |-> "count", generation |-> r.generation, ok |-> TRUE, asOf |-> version,
                   count |-> Counts(store, Asked)]
          BY <3>2, <4>5 DEF ReadBy
        <5>2. m.op = "count" /\ m.ok = TRUE /\ m.asOf = version
              /\ m.generation = r.generation
          BY <5>1
        <5>3. FetchOK(m)
          BY <2>3, <4>5, <5>2 DEF RequestOK, IsAnswer, FetchOK
        <5>4. FetchOK(m)'
          BY <4>2, <5>3 DEF FetchOK, env, Refused
        <5>5. m.ok \in BOOLEAN
          BY <5>2
        <5> QED
          BY <1>1, <4>2, <5>2, <5>4, <5>5 DEF MessageOK, IsAnswer, HasRows, IsChange
      <4> QED
        BY <4>1, <4>3, <4>4, <4>5
    <3>5. QueueOK' /\ InboxOK' /\ RelayOK'
      BY <1>9, <2>1, <3>1, <3>2, <3>4
    <3> QED
      BY <1>1, <1>3, <1>8, <2>1, <3>1, <3>5 DEF Typed
  <2> QED
    BY <2>4, <2>5
<1>17. CASE RunFails
  <2>1. /\ Same /\ UNCHANGED identity /\ relay' = relay
        /\ spent' \in 0..MaxExtras /\ queue # <<>> /\ queue' = Tail(queue)
    BY <1>7, <1>17 DEF RunFails
  <2>2. QueueOK' /\ RelayOK'
    BY <1>9, <2>1
  <2>3. InboxOK'
    <3>1. CASE Head(queue).op \notin {"fetch", "count"}
      BY <1>9, <1>17, <2>1, <3>1 DEF RunFails
    <3>2. CASE Head(queue).op \in {"fetch", "count"}
      <4>1. PICK m : m = [op |-> Head(queue).op, ok |-> FALSE, asOf |-> version,
                          generation |-> Head(queue).generation]
        OBVIOUS
      <4>2. inbox' = Append(inbox, m)
        BY <1>17, <3>2, <4>1 DEF RunFails
      <4>3. RequestOK(Head(queue))
        <5>1. Len(queue) \in Nat \ {0} /\ DOMAIN queue = 1..Len(queue) /\ Head(queue) = queue[1]
          BY <1>1, <2>1, TailSeq DEF QueueOK
        <5>2. 1 \in DOMAIN queue
          BY <5>1
        <5> QED
          BY <1>1, <5>1, <5>2 DEF QueueOK
      <4>4. FetchOK(Head(queue))
        BY <3>2, <4>3 DEF RequestOK, IsAnswer
      <4>5. /\ m.op = Head(queue).op /\ m.ok = FALSE /\ m.asOf = version
            /\ m.generation = Head(queue).generation
        BY <4>1
      <4>6. FetchOK(m)
        BY <4>4, <4>5 DEF FetchOK
      <4>7. m.ok \in BOOLEAN /\ ~m.ok
        BY <4>5
      <4>8. MessageOK(m)
        BY <1>1, <3>2, <4>5, <4>6, <4>7 DEF MessageOK, IsAnswer, IsChange, HasRows
      <4> QED
        BY <1>9, <2>1, <4>2, <4>8
    <3> QED
      BY <3>1, <3>2
  <2> QED
    BY <1>1, <1>3, <1>8, <2>1, <2>2, <2>3 DEF Typed
<1>18. CASE FetchAnswered
  <2>1. PICK i \in DOMAIN inbox :
          /\ Arrives(i, {"fetch"}) /\ inbox[i].ok
          /\ cache' = Cached(inbox[i].rows)
          /\ orphans' = Orphaned(Entering(inbox[i].rows))
          /\ IF Wants(inbox[i].generation)
             THEN /\ observer' = Taken(Resolved(inbox[i].rows), inbox[i].asOf)
                  /\ models' = models \cup Ids(inbox[i].rows)
             ELSE UNCHANGED <<observer, models>>
          /\ UNCHANGED <<env, storage, partial, queue, relay, spent>>
    BY <1>18 DEF FetchAnswered
  <2>2. /\ inbox[i].op = "fetch" /\ MessageOK(inbox[i]) /\ IsSeq(inbox')
        /\ \A j \in DOMAIN inbox' : \E k \in DOMAIN inbox : inbox'[j] = inbox[k]
    BY <2>1, Arrived
  <2>3. CacheOK' /\ ModelsOK'
    <3>1. \A k \in DOMAIN inbox[i].rows :
            inbox[i].rows[k].id \in TableIds[Asked.table] /\ IsRaw(inbox[i].rows[k].id, inbox[i].rows[k])
      BY <2>1, <2>2 DEF MessageOK, HasRows
    <3>2. models' \in {models, models \cup Ids(inbox[i].rows)}
      BY <2>1
    <3> QED
      BY <2>1, <3>1, <3>2, RowsTyped
  <2>4. ObserverOK(observer)' /\ observer'.generation = observer.generation
    <3>1. CASE Wants(inbox[i].generation)
      <4>1. inbox[i].asOf \in Nat /\ inbox[i].asOf <= version
        BY <2>2 DEF MessageOK, IsAnswer
      <4>2. PICK o : o = Taken(Resolved(inbox[i].rows), inbox[i].asOf)
        OBVIOUS
      <4>3. ObserverOK(o) /\ o.generation = observer.generation
        BY <1>1, <4>1, <4>2 DEF Taken, ObserverOK
      <4> QED
        BY <1>4, <1>6, <2>1, <3>1, <4>2, <4>3
    <3>2. CASE ~Wants(inbox[i].generation)
      BY <1>4, <1>5, <2>1, <3>2
    <3> QED
      BY <3>1, <3>2
  <2>5. QueueOK' /\ InboxOK' /\ RelayOK'
    BY <1>1, <1>4, <2>1, <2>2, <2>4, KeptQueues
  <2> QED
    BY <1>1, <1>2, <1>4, <2>1, <2>3, <2>4, <2>5 DEF Typed
<1>19. CASE CountAnswered
  <2>1. PICK i \in DOMAIN inbox :
          /\ Arrives(i, {"count"}) /\ inbox[i].ok
          /\ observer' = IF Wants(inbox[i].generation)
                         THEN Taken(inbox[i].count, inbox[i].asOf) ELSE observer
          /\ UNCHANGED <<env, storage, identity, queue, relay, spent>>
    BY <1>19 DEF CountAnswered
  <2>2. /\ inbox[i].op = "count" /\ MessageOK(inbox[i]) /\ IsSeq(inbox')
        /\ \A j \in DOMAIN inbox' : \E k \in DOMAIN inbox : inbox'[j] = inbox[k]
    BY <2>1, Arrived
  <2>4. ObserverOK(observer)' /\ observer'.generation = observer.generation
    <3>1. CASE Wants(inbox[i].generation)
      <4>1. inbox[i].asOf \in Nat /\ inbox[i].asOf <= version
        BY <2>2 DEF MessageOK, IsAnswer
      <4>2. PICK o : o = Taken(inbox[i].count, inbox[i].asOf)
        OBVIOUS
      <4>3. ObserverOK(o) /\ o.generation = observer.generation
        BY <1>1, <4>1, <4>2 DEF Taken, ObserverOK
      <4> QED
        BY <1>4, <1>6, <2>1, <3>1, <4>2, <4>3
    <3>2. CASE ~Wants(inbox[i].generation)
      BY <1>4, <1>5, <2>1, <3>2
    <3> QED
      BY <3>1, <3>2
  <2>5. QueueOK' /\ InboxOK' /\ RelayOK'
    BY <1>1, <1>4, <2>1, <2>2, <2>4, KeptQueues
  <2> QED
    BY <1>1, <1>2, <1>3, <1>4, <2>1, <2>4, <2>5 DEF Typed
<1>20. CASE ErrorAnswered
  <2>1. PICK i \in DOMAIN inbox :
          /\ Arrives(i, {"fetch", "count"}) /\ ~inbox[i].ok
          /\ observer' = IF Wants(inbox[i].generation)
                         THEN Reported(inbox[i].asOf) ELSE observer
          /\ UNCHANGED <<env, storage, identity, queue, relay, spent>>
    BY <1>20 DEF ErrorAnswered
  <2>2. /\ inbox[i].op \in {"fetch", "count"} /\ MessageOK(inbox[i]) /\ IsSeq(inbox')
        /\ \A j \in DOMAIN inbox' : \E k \in DOMAIN inbox : inbox'[j] = inbox[k]
    BY <2>1, Arrived
  <2>4. ObserverOK(observer)' /\ observer'.generation = observer.generation
    <3>1. CASE Wants(inbox[i].generation)
      <4>1. inbox[i].asOf \in Nat /\ inbox[i].asOf <= version
        BY <2>2 DEF MessageOK, IsAnswer
      <4>2. PICK o : o = Reported(inbox[i].asOf)
        OBVIOUS
      <4>3. ObserverOK(o) /\ o.generation = observer.generation
        BY <1>1, <4>1, <4>2 DEF Reported, ObserverOK
      <4> QED
        BY <1>4, <1>6, <2>1, <3>1, <4>2, <4>3
    <3>2. CASE ~Wants(inbox[i].generation)
      BY <1>4, <1>5, <2>1, <3>2
    <3> QED
      BY <3>1, <3>2
  <2>5. QueueOK' /\ InboxOK' /\ RelayOK'
    BY <1>1, <1>4, <2>1, <2>2, <2>4, KeptQueues
  <2> QED
    BY <1>1, <1>2, <1>3, <1>4, <2>1, <2>4, <2>5 DEF Typed
<1>21. CASE OnceAnswered
  <2>1. PICK i \in DOMAIN inbox :
          /\ Arrives(i, {"once"})
          /\ cache' = Cached(inbox[i].rows)
          /\ orphans' = Orphaned(Entering(inbox[i].rows))
          /\ models' = models \cup Ids(inbox[i].rows)
          /\ UNCHANGED <<env, storage, partial, observer, queue, relay, spent>>
    BY <1>21 DEF OnceAnswered
  <2>2. /\ inbox[i].op = "once" /\ MessageOK(inbox[i]) /\ IsSeq(inbox')
        /\ \A j \in DOMAIN inbox' : \E k \in DOMAIN inbox : inbox'[j] = inbox[k]
    BY <2>1, Arrived
  <2>3. CacheOK' /\ ModelsOK'
    <3>1. \A k \in DOMAIN inbox[i].rows :
            inbox[i].rows[k].id \in TableIds[Asked.table] /\ IsRaw(inbox[i].rows[k].id, inbox[i].rows[k])
      BY <2>2 DEF MessageOK, HasRows
    <3>2. models' \in {models, models \cup Ids(inbox[i].rows)}
      BY <2>1
    <3> QED
      BY <2>1, <3>1, <3>2, RowsTyped
  <2>5. QueueOK' /\ InboxOK' /\ RelayOK'
    BY <1>9, <2>1, <2>2
  <2> QED
    BY <1>1, <1>8, <2>1, <2>3, <2>5 DEF Typed
<1>22. CASE BatchAnswered
  <2>1. PICK i \in DOMAIN inbox :
          /\ Arrives(i, {"batch"})
          /\ Announce(inbox[i].change)
          /\ partial' = PartialAfter(inbox[i].change)
          /\ UNCHANGED <<env, storage, relay, spent>>
    BY <1>22 DEF BatchAnswered
  <2>2. /\ inbox[i].op = "batch" /\ MessageOK(inbox[i]) /\ IsSeq(inbox')
        /\ \A j \in DOMAIN inbox' : \E k \in DOMAIN inbox : inbox'[j] = inbox[k]
    BY <2>1, Arrived
  <2>3. PICK x : x = inbox[i].change
    OBVIOUS
  <2>4. ChangeOK(x) /\ IsWhole(x)
    BY <2>2, <2>3 DEF MessageOK, IsChange
  <2>5. /\ x.table \in Tables /\ x.id \in TableIds[x.table]
        /\ x.type # "destroyed" => IsRaw(x.id, x.row)
    BY <2>4, WrittenRow DEF ChangeOK, IsWhole
  <2>6. /\ CacheOK' /\ ModelsOK' /\ ObserverOK(observer)' /\ QueueOK'
        /\ observer.generation <= observer'.generation /\ observer'.generation \in Nat
    BY <1>4, <2>1, <2>3, <2>5, AnnounceTyped
  <2>7. InboxOK' /\ RelayOK'
    BY <1>1, <1>4, <2>1, <2>2, <2>6, KeptQueues
  <2> QED
    BY <1>1, <1>2, <1>4, <2>1, <2>6, <2>7 DEF Typed
<1>23. CASE ExternalAnnounced
  <2>1. PICK i \in DOMAIN inbox :
          /\ Arrives(i, {"external"})
          /\ IF Unseen(inbox[i].change)
             THEN /\ observer' = [observer EXCEPT
                        !.missed = @ \/ (observer.listeners > 0
                                        /\ inbox[i].change.table \in Asked.tables)]
                  /\ UNCHANGED <<identity, queue>>
             ELSE /\ Announce(AsApplied(inbox[i].change))
                  /\ partial' = PartialAfter(inbox[i].change)
          /\ UNCHANGED <<env, storage, relay, spent>>
    BY <1>23 DEF ExternalAnnounced
  <2>2. /\ inbox[i].op = "external" /\ MessageOK(inbox[i]) /\ IsSeq(inbox')
        /\ \A j \in DOMAIN inbox' : \E k \in DOMAIN inbox : inbox'[j] = inbox[k]
    BY <2>1, Arrived
  <2>3. CASE Unseen(inbox[i].change)
    <3>1. PICK b \in BOOLEAN : observer' = [observer EXCEPT !.missed = b]
      <4>1. (observer.missed \/ (observer.listeners > 0 /\ inbox[i].change.table \in Asked.tables))
              \in BOOLEAN
        OBVIOUS
      <4> QED
        BY <2>1, <2>3, <4>1
    <3>2. PICK o : o = [observer EXCEPT !.missed = b]
      OBVIOUS
    <3>3. ObserverOK(o) /\ o.generation = observer.generation
      BY <1>1, <3>2 DEF ObserverOK
    <3>4. ObserverOK(observer)' /\ observer'.generation = observer.generation
      BY <1>4, <1>6, <2>1, <3>1, <3>2, <3>3
    <3>5. QueueOK' /\ InboxOK' /\ RelayOK'
      BY <1>1, <1>4, <2>1, <2>2, <2>3, <3>4, KeptQueues
    <3> QED
      BY <1>1, <1>2, <1>3, <1>4, <2>1, <2>3, <3>4, <3>5 DEF Typed
  <2>4. CASE ~Unseen(inbox[i].change)
    <3>1. ChangeOK(inbox[i].change)
      BY <2>2 DEF MessageOK, IsChange
    <3>2. PICK a : a = AsApplied(inbox[i].change)
      OBVIOUS
    <3>3. /\ a.table \in Tables /\ a.id \in TableIds[a.table]
          /\ a.type # "destroyed" => IsRaw(a.id, a.row)
      BY <1>1, <3>1, <3>2, AppliedIs DEF ChangeOK
    <3>4. /\ CacheOK' /\ ModelsOK' /\ ObserverOK(observer)' /\ QueueOK'
          /\ observer.generation <= observer'.generation /\ observer'.generation \in Nat
      BY <1>4, <2>1, <2>4, <3>2, <3>3, AnnounceTyped
    <3>5. InboxOK' /\ RelayOK'
      BY <1>1, <1>4, <2>1, <2>2, <3>4, KeptQueues
    <3> QED
      BY <1>1, <1>2, <1>4, <2>1, <3>4, <3>5 DEF Typed
  <2> QED
    BY <2>3, <2>4
<1>24. CASE UNCHANGED vars
  <2>1. /\ Same /\ UNCHANGED identity /\ queue' = queue /\ inbox' = inbox /\ relay' = relay
        /\ spent' = spent
    BY <1>24 DEF vars
  <2> QED
    BY <1>1, <1>3, <1>8, <1>9, <2>1 DEF Typed
<1> QED
  BY <1>10, <1>11, <1>12, <1>13, <1>14, <1>15, <1>16, <1>17, <1>18, <1>19, <1>20, <1>21,
     <1>22, <1>23, <1>24 DEF Next

-----------------------------------------------------------------------------
(* The kinds of step there are.                                            *)

Posted ==
    /\ \A i \in DOMAIN queue : i \in DOMAIN queue' /\ queue'[i] = queue[i]
    /\ \A i \in DOMAIN queue' : i \in DOMAIN queue \/ queue'[i].op # "batch"

Asking == Posted /\ UNCHANGED <<env, storage, identity, inbox, relay>>

Writing ==
    /\ UNCHANGED <<env, storage, identity, inbox, relay>>
    /\ version < MaxWrites /\ ~InFlight({"batch", "external"}) /\ relay = <<>>
    /\ \E x \in Changes(Findable, [t \in Tables |-> {}]) :
          queue' = Append(queue, [op |-> "batch", change |-> x])

Overtaking ==
    /\ UNCHANGED <<env, identity, queue, inbox>>
    /\ ordered /\ ~InFlight({"batch"}) /\ version' = version + 1
    /\ \E x \in Changes(Stored, Unknown) :
          store' = Written(x) /\ relay' = Append(relay, [op |-> "external", change |-> x])

Relaying ==
    /\ UNCHANGED <<env, storage, identity, queue>>
    /\ relay # <<>> /\ inbox' = Append(inbox, Head(relay)) /\ relay' = Tail(relay)

\* Every row is a live one of storage.
Read(m) == HasRows(m) => \A k \in DOMAIN m.rows : \E id \in TableIds[Asked.table] :
    m.rows[k] = store[Asked.table][id] /\ Live(m.rows[k]) /\ m.rows[k].id = id

Reading ==
    /\ UNCHANGED <<env, storage, identity, relay>>
    /\ queue # <<>> /\ queue' = Tail(queue)
    /\ inbox' = inbox \/ \E m : inbox' = Append(inbox, m) /\ ~IsChange(m) /\ Read(m)

Committing ==
    /\ UNCHANGED <<env, identity, relay>>
    /\ queue # <<>> /\ queue' = Tail(queue) /\ Head(queue).op = "batch"
    /\ store' = Written(Head(queue).change) /\ version' = version + 1
    /\ inbox' = Append(inbox, Head(queue))

AnswerIn(i) ==
    /\ UNCHANGED <<env, storage, partial, queue, relay>>
    /\ Arrives(i, {"fetch", "count", "once"})
    /\ \/ UNCHANGED identity
       \/ /\ HasRows(inbox[i])
          /\ cache' = Cached(inbox[i].rows) /\ orphans' = Orphaned(Entering(inbox[i].rows))
          /\ models' \in {models, models \cup Ids(inbox[i].rows)}

Known(x) == cache' = CacheAfter(x) /\ models' = ModelsAfter(x) /\ orphans' = OrphansAfter(x)

BatchIn(i) ==
    /\ UNCHANGED <<env, storage, relay>> /\ Posted
    /\ Arrives(i, {"batch"})
    /\ Known(inbox[i].change) /\ partial' = PartialAfter(inbox[i].change)

ExternalIn(i) ==
    /\ UNCHANGED <<env, storage, relay>> /\ Posted
    /\ Arrives(i, {"external"})
    /\ IF Unseen(inbox[i].change) THEN UNCHANGED identity
       ELSE Known(AsApplied(inbox[i].change)) /\ partial' = PartialAfter(inbox[i].change)

Step ==
    \/ Asking \/ Writing \/ Overtaking \/ Relaying \/ Reading \/ Committing
    \/ \E i \in DOMAIN inbox : AnswerIn(i) \/ BatchIn(i) \/ ExternalIn(i)

LEMMA ReadRows ==
    ASSUME Typed
    PROVE  \A k \in DOMAIN Fetches(store, Asked) :
              LET row == Fetches(store, Asked)[k] IN
              \E id \in TableIds[Asked.table] :
                 row = store[Asked.table][id] /\ Live(row) /\ row.id = id
<1> SUFFICES ASSUME NEW k \in DOMAIN Fetches(store, Asked)
             PROVE  LET row == Fetches(store, Asked)[k] IN
                    \E id \in TableIds[Asked.table] :
                       row = store[Asked.table][id] /\ Live(row) /\ row.id = id
  OBVIOUS
<1>1. PICK id \in TableIds[Asked.table] :
        Fetches(store, Asked)[k] = store[Asked.table][id] /\ Live(store[Asked.table][id])
  BY AskedIs DEF Typed, EnvOK, StoreOK
<1>2. IsRaw(id, store[Asked.table][id])
  BY <1>1, AskedIs, StoredRow DEF Typed, EnvOK, StoreOK
<1> QED
  BY <1>1, <1>2, RawIsRow

LEMMA NotifyPosts ==
    ASSUME Typed, UNCHANGED env, UNCHANGED storage, NEW x, Notify(x)
    PROVE  Posted
<1>1. /\ version' = version
      /\ ObserverOK(Forgetting(x)) /\ Forgetting(x).generation = observer.generation
  BY ForgettingIs DEF storage, Typed
<1>2. CASE observer' = Refetched(Forgetting(x)) /\ PostFetch(queue)
  BY <1>1, <1>2, PostedIs DEF Posted, IsAnswer
<1>3. CASE UNCHANGED <<observer, queue>>
  BY <1>3 DEF Posted
<1> QED
  BY <1>2, <1>3 DEF Notify

LEMMA Steps ==
    ASSUME Typed, [Next]_vars
    PROVE  Step
<1>1. CASE Mount
  <2>1. UNCHANGED <<env, storage, identity, inbox, relay>> /\ version' = version
    BY <1>1 DEF Mount, storage
  <2>2. CASE observer.listeners = 0
    <3>1. PICK latest : /\ observer' = Refetched([observer EXCEPT !.listeners = 1, !.latest = latest])
                        /\ PostFetch(queue)
      BY <1>1, <2>2 DEF Mount
    <3>2. PICK o : o = [observer EXCEPT !.listeners = 1, !.latest = latest]
      OBVIOUS
    <3>3. ObserverOK(o) /\ o.generation = observer.generation
      <4>1. o = [listeners |-> 1, value |-> observer.value, latest |-> latest,
                 generation |-> observer.generation, previous |-> observer.previous,
                 asOf |-> observer.asOf, failed |-> observer.failed, missed |-> observer.missed,
                 kept |-> observer.kept]
        BY <3>2 DEF Typed, ObserverOK
      <4>2. /\ o.listeners = 1 /\ o.value = observer.value /\ o.latest = latest
            /\ o.generation = observer.generation /\ o.previous = observer.previous
            /\ o.asOf = observer.asOf /\ o.failed = observer.failed /\ o.missed = observer.missed
            /\ o.kept = observer.kept
        BY <4>1
      <4> QED
        BY <4>1, <4>2 DEF Typed, ObserverOK
    <3>4. Posted
      BY <2>1, <3>1, <3>2, <3>3, PostedIs DEF Posted, IsAnswer
    <3> QED
      BY <2>1, <3>4 DEF Step, Asking
  <2>3. CASE observer.listeners # 0
    BY <1>1, <2>1, <2>3 DEF Mount, Step, Asking, Posted
  <2> QED
    BY <2>2, <2>3
<1>2. CASE Unmount \/ UNCHANGED vars
  BY <1>2 DEF Unmount, vars, Step, Asking, Posted
<1>3. CASE FetchOnce
  <2>1. PICK m : m = [op |-> "once"]
    OBVIOUS
  <2>2. queue' = Append(queue, m) /\ m.op = "once" /\ IsSeq(queue)
    BY <1>3, <2>1 DEF FetchOnce, Typed, QueueOK
  <2>3. /\ Len(queue) \in Nat /\ DOMAIN queue = 1..Len(queue)
        /\ DOMAIN queue' = 1..Len(queue) + 1
        /\ \A i \in DOMAIN queue : queue'[i] = queue[i]
        /\ queue'[Len(queue) + 1] = m
    BY <2>2, AppendSeq
  <2>4. \A i \in DOMAIN queue' : i \in DOMAIN queue \/ i = Len(queue) + 1
    BY <2>3
  <2>5. \A i \in DOMAIN queue : i \in DOMAIN queue'
    BY <2>3
  <2>6. Posted
    BY <2>2, <2>3, <2>4, <2>5 DEF Posted
  <2> QED
    BY <1>3, <2>6 DEF FetchOnce, Step, Asking
<1>4. CASE LocalWrite
  BY <1>4 DEF LocalWrite, Step, Writing
<1>5. CASE ExternalWrite
  BY <1>5 DEF ExternalWrite, Step, Overtaking
<1>6. CASE Relay
  BY <1>6 DEF Relay, Step, Relaying
<1>7. CASE Run
  <2>1. CASE Head(queue).op = "batch"
    BY <1>7, <2>1 DEF Run, Step, Committing
  <2>2. CASE Head(queue).op # "batch"
    <3>1. PICK m : m = ReadBy(Head(queue))
      OBVIOUS
    <3>2. inbox' = Append(inbox, m) /\ UNCHANGED <<env, storage, identity, relay>>
          /\ queue # <<>> /\ queue' = Tail(queue)
      BY <1>7, <2>2, <3>1 DEF Run
    <3>3. ~IsChange(m) /\ (HasRows(m) => m.rows = Fetches(store, Asked))
      BY <3>1 DEF ReadBy, IsChange, HasRows
    <3>4. Read(m)
      BY <3>3, ReadRows DEF Read
    <3> QED
      BY <3>2, <3>3, <3>4 DEF Step, Reading
  <2> QED
    BY <2>1, <2>2
<1>8. CASE RunFails
  <2>1. UNCHANGED <<env, storage, identity, relay>> /\ queue # <<>> /\ queue' = Tail(queue)
    BY <1>8 DEF RunFails
  <2>2. CASE Head(queue).op \in {"fetch", "count"}
    <3>1. PICK m : m = [op |-> Head(queue).op, ok |-> FALSE, asOf |-> version,
                        generation |-> Head(queue).generation]
      OBVIOUS
    <3>2. inbox' = Append(inbox, m)
      BY <1>8, <2>2, <3>1 DEF RunFails
    <3>3. m.op = Head(queue).op /\ ~m.ok
      BY <3>1
    <3>4. ~IsChange(m) /\ ~HasRows(m)
      BY <2>2, <3>3 DEF IsChange, HasRows
    <3> QED
      BY <2>1, <3>2, <3>4 DEF Step, Reading, Read
  <2>3. CASE Head(queue).op \notin {"fetch", "count"}
    BY <1>8, <2>1, <2>3 DEF RunFails, Step, Reading
  <2> QED
    BY <2>2, <2>3
<1>9. CASE FetchAnswered
  <2>1. PICK i \in DOMAIN inbox :
          /\ Arrives(i, {"fetch"}) /\ inbox[i].ok
          /\ cache' = Cached(inbox[i].rows)
          /\ orphans' = Orphaned(Entering(inbox[i].rows))
          /\ models' \in {models, models \cup Ids(inbox[i].rows)}
          /\ UNCHANGED <<env, storage, partial, queue, relay>>
    BY <1>9 DEF FetchAnswered
  <2>2. HasRows(inbox[i]) /\ Arrives(i, {"fetch", "count", "once"})
    BY <2>1 DEF Arrives, HasRows
  <2> QED
    BY <2>1, <2>2 DEF Step, AnswerIn
<1>10. CASE OnceAnswered
  <2>1. PICK i \in DOMAIN inbox :
          /\ Arrives(i, {"once"})
          /\ cache' = Cached(inbox[i].rows)
          /\ orphans' = Orphaned(Entering(inbox[i].rows))
          /\ models' \in {models, models \cup Ids(inbox[i].rows)}
          /\ UNCHANGED <<env, storage, partial, queue, relay>>
    BY <1>10 DEF OnceAnswered
  <2>2. HasRows(inbox[i]) /\ Arrives(i, {"fetch", "count", "once"})
    BY <2>1 DEF Arrives, HasRows
  <2> QED
    BY <2>1, <2>2 DEF Step, AnswerIn
<1>11. CASE CountAnswered \/ ErrorAnswered
  <2>1. PICK i \in DOMAIN inbox :
          /\ Arrives(i, {"fetch", "count"}) \/ Arrives(i, {"count"})
          /\ UNCHANGED <<env, storage, identity, queue, relay>>
    BY <1>11 DEF CountAnswered, ErrorAnswered
  <2>2. Arrives(i, {"fetch", "count", "once"})
    BY <2>1 DEF Arrives
  <2> QED
    BY <2>1, <2>2 DEF Step, AnswerIn, identity
<1>12. CASE BatchAnswered
  <2>1. PICK i \in DOMAIN inbox :
          /\ Arrives(i, {"batch"})
          /\ Announce(inbox[i].change)
          /\ partial' = PartialAfter(inbox[i].change)
          /\ UNCHANGED env /\ UNCHANGED storage /\ relay' = relay
    BY <1>12 DEF BatchAnswered
  <2>2. Posted
    BY <2>1, NotifyPosts DEF Announce
  <2> QED
    BY <2>1, <2>2 DEF Step, BatchIn, Announce, Known
<1>13. CASE ExternalAnnounced
  <2>1. PICK i \in DOMAIN inbox :
          /\ Arrives(i, {"external"})
          /\ IF Unseen(inbox[i].change) THEN UNCHANGED <<identity, queue>>
             ELSE Announce(AsApplied(inbox[i].change)) /\ partial' = PartialAfter(inbox[i].change)
          /\ UNCHANGED env /\ UNCHANGED storage /\ relay' = relay
    BY <1>13 DEF ExternalAnnounced
  <2>2. CASE Unseen(inbox[i].change)
    BY <2>1, <2>2 DEF Step, ExternalIn, Posted
  <2>3. CASE ~Unseen(inbox[i].change)
    <3>1. Posted
      BY <2>1, <2>3, NotifyPosts DEF Announce
    <3> QED
      BY <2>1, <2>3, <3>1 DEF Step, ExternalIn, Announce, Known
  <2> QED
    BY <2>2, <2>3
<1> QED
  BY <1>1, <1>2, <1>3, <1>4, <1>5, <1>6, <1>7, <1>8, <1>9, <1>10, <1>11, <1>12, <1>13 DEF Next

\* One that is run leaves the queue, one that is read or written here ends it.
LEMMA Shifted ==
    ASSUME NEW s, IsSeq(s), s # <<>>, NEW r, r = Tail(s)
    PROVE  /\ 1 \in DOMAIN s /\ Head(s) = s[1]
           /\ \A i \in DOMAIN r : i + 1 \in DOMAIN s /\ r[i] = s[i + 1]
           /\ \A j \in DOMAIN s : j # 1 => j - 1 \in DOMAIN r /\ r[j - 1] = s[j]
           /\ \A i \in DOMAIN r : i \in Nat \ {0}
           /\ \A i \in DOMAIN s : i \in Nat \ {0}
<1>1. /\ Len(s) \in Nat \ {0} /\ DOMAIN s = 1..Len(s)
      /\ DOMAIN r = 1..Len(s) - 1 /\ \A i \in DOMAIN r : r[i] = s[i + 1]
      /\ Head(s) = s[1]
  BY TailSeq
<1>2. \A j \in DOMAIN s : j # 1 => j - 1 \in DOMAIN r /\ (j - 1) + 1 = j
  BY <1>1
<1> QED
  BY <1>1, <1>2

LEMMA Appended ==
    ASSUME NEW s, IsSeq(s), NEW e, NEW r, r = Append(s, e)
    PROVE  /\ Len(s) \in Nat /\ DOMAIN s = 1..Len(s)
           /\ Len(s) + 1 \in DOMAIN r /\ r[Len(s) + 1] = e /\ Len(r) = Len(s) + 1
           /\ \A i \in DOMAIN s : i \in DOMAIN r /\ r[i] = s[i] /\ i < Len(s) + 1
           /\ \A i \in DOMAIN r : i \in DOMAIN s \/ i = Len(s) + 1
           /\ \A i \in DOMAIN r : i \in Nat \ {0}
<1>1. /\ IsSeq(r) /\ Len(s) \in Nat /\ DOMAIN s = 1..Len(s)
      /\ DOMAIN r = 1..Len(s) + 1
      /\ \A i \in DOMAIN s : r[i] = s[i]
      /\ r[Len(s) + 1] = e
  BY AppendSeq
<1>2. Len(r) \in Nat /\ DOMAIN r = 1..Len(r)
  BY <1>1, SeqDomain
<1>3. Len(r) = Len(s) + 1
  BY <1>1, <1>2
<1> QED
  BY <1>1, <1>3

LEMMA AloneStep ==
    ASSUME Typed, Alone, Step
    PROVE  Alone'
<1>1. IsSeq(queue) /\ IsSeq(inbox) /\ IsSeq(relay)
  BY DEF Typed, QueueOK, InboxOK, RelayOK
<1>2. CASE Asking
  BY <1>2 DEF Asking, Posted, Alone, storage
<1>3. CASE Writing
  <2>1. PICK x : queue' = Append(queue, [op |-> "batch", change |-> x])
    BY <1>3 DEF Writing
  <2>2. /\ \A i \in DOMAIN queue : queue[i].op # "batch"
        /\ \A i \in DOMAIN inbox : ~IsChange(inbox[i])
    BY <1>3 DEF Writing, InFlight, IsChange
  <2>3. /\ \A i \in DOMAIN queue : i \in DOMAIN queue' /\ queue'[i] = queue[i]
        /\ \A i \in DOMAIN queue' : i \in DOMAIN queue \/ i = Len(queue) + 1
    BY <1>1, <2>1, Appended
  <2>4. inbox' = inbox /\ relay' = relay /\ relay = <<>> /\ version' = version /\ version < MaxWrites
    BY <1>3 DEF Writing, storage
  <2> QED
    BY <2>2, <2>3, <2>4 DEF Alone, IsChange
<1>4. CASE Overtaking
  <2>1. /\ \A i \in DOMAIN queue : queue[i].op # "batch"
        /\ \A i \in DOMAIN inbox : inbox[i].op # "batch"
        /\ queue' = queue /\ inbox' = inbox
    BY <1>4 DEF Overtaking, InFlight
  <2> QED
    BY <2>1 DEF Alone
<1>5. CASE Relaying
  <2>1. /\ \A i \in DOMAIN queue : queue[i].op # "batch"
        /\ \A i \in DOMAIN inbox : inbox[i].op # "batch"
        /\ queue' = queue /\ inbox' = Append(inbox, Head(relay)) /\ relay # <<>>
    BY <1>5 DEF Relaying, Alone
  <2>2. Head(relay).op = "external"
    BY <1>1, <2>1, Shifted DEF Typed, RelayOK
  <2>3. \A i \in DOMAIN inbox' : inbox'[i].op # "batch"
    BY <1>1, <2>1, <2>2, Appended
  <2> QED
    BY <2>1, <2>3 DEF Alone
<1>6. CASE Reading
  <2>1. /\ queue # <<>> /\ queue' = Tail(queue) /\ relay' = relay /\ version' = version
        /\ inbox' = inbox \/ \E m : inbox' = Append(inbox, m) /\ ~IsChange(m)
    BY <1>6 DEF Reading, storage
  <2>2. \A i \in DOMAIN queue' : i + 1 \in DOMAIN queue /\ queue'[i] = queue[i + 1] /\ i \in Nat
    BY <1>1, <2>1, Shifted
  <2>3. \A j \in DOMAIN inbox' : IsChange(inbox'[j]) => j \in DOMAIN inbox /\ inbox'[j] = inbox[j]
    <3>1. CASE inbox' = inbox
      BY <3>1
    <3>2. CASE \E m : inbox' = Append(inbox, m) /\ ~IsChange(m)
      <4>1. PICK m : inbox' = Append(inbox, m) /\ ~IsChange(m)
        BY <3>2
      <4> QED
        BY <1>1, <4>1, Appended
    <3> QED
      BY <2>1, <3>1, <3>2
  <2>4. ASSUME NEW i \in DOMAIN queue', queue'[i].op = "batch"
        PROVE  /\ \A j \in DOMAIN queue' : queue'[j].op = "batch" => j = i
               /\ \A j \in DOMAIN inbox' : ~IsChange(inbox'[j])
               /\ relay' = <<>> /\ version' < MaxWrites
    <3>1. i + 1 \in DOMAIN queue /\ queue[i + 1].op = "batch"
      BY <2>2, <2>4
    <3>2. /\ \A j \in DOMAIN queue : queue[j].op = "batch" => j = i + 1
          /\ \A j \in DOMAIN inbox : ~IsChange(inbox[j])
          /\ relay = <<>> /\ version < MaxWrites
      BY <3>1 DEF Alone
    <3>3. \A j \in DOMAIN queue' : queue'[j].op = "batch" => j + 1 = i + 1
      BY <2>2, <3>2
    <3> QED
      BY <2>1, <2>2, <2>3, <3>2, <3>3
  <2>5. ASSUME NEW i \in DOMAIN inbox', inbox'[i].op = "batch"
        PROVE  (\A j \in DOMAIN inbox' : IsChange(inbox'[j]) => j = i) /\ relay' = <<>>
    <3>1. i \in DOMAIN inbox /\ inbox[i].op = "batch"
      BY <2>3, <2>5 DEF IsChange
    <3>2. (\A j \in DOMAIN inbox : IsChange(inbox[j]) => j = i) /\ relay = <<>>
      BY <3>1 DEF Alone
    <3> QED
      BY <2>1, <2>3, <3>2
  <2> QED
    BY <2>4, <2>5 DEF Alone
<1>7. CASE Committing
  <2>1. /\ queue # <<>> /\ queue' = Tail(queue) /\ Head(queue).op = "batch"
        /\ inbox' = Append(inbox, Head(queue)) /\ relay' = relay
    BY <1>7 DEF Committing
  <2>2. /\ 1 \in DOMAIN queue /\ Head(queue) = queue[1]
        /\ \A i \in DOMAIN queue' : i + 1 \in DOMAIN queue /\ queue'[i] = queue[i + 1] /\ i \in Nat \ {0}
    BY <1>1, <2>1, Shifted
  <2>3. /\ \A j \in DOMAIN queue : queue[j].op = "batch" => j = 1
        /\ \A j \in DOMAIN inbox : ~IsChange(inbox[j])
        /\ relay = <<>>
    BY <2>1, <2>2 DEF Alone
  <2>4. \A i \in DOMAIN queue' : queue'[i].op # "batch"
    <3>1. \A i \in DOMAIN queue' : i + 1 # 1
      BY <2>2
    <3> QED
      BY <2>2, <2>3, <3>1
  <2>5. \A j \in DOMAIN inbox' : IsChange(inbox'[j]) => j = Len(inbox) + 1
    BY <1>1, <2>1, <2>3, Appended
  <2> QED
    BY <2>1, <2>3, <2>4, <2>5 DEF Alone, IsChange
<1>8. ASSUME NEW i \in DOMAIN inbox, AnswerIn(i) \/ BatchIn(i) \/ ExternalIn(i)
      PROVE  Alone'
  <2>1. /\ Posted /\ relay' = relay /\ version' = version
        /\ \E kinds : Arrives(i, kinds)
    BY <1>8 DEF AnswerIn, BatchIn, ExternalIn, Posted, storage
  <2>2. /\ \A j \in DOMAIN inbox' : \E k \in DOMAIN inbox :
              /\ k # i /\ inbox'[j] = inbox[k]
              /\ (j < i => k = j) /\ (j >= i => k = j + 1)
        /\ DOMAIN inbox' = 1..Len(inbox) - 1 /\ DOMAIN inbox = 1..Len(inbox) /\ Len(inbox) \in Nat
    BY <2>1, Arrived
  <2>3. ASSUME NEW n \in DOMAIN queue', queue'[n].op = "batch"
        PROVE  /\ \A j \in DOMAIN queue' : queue'[j].op = "batch" => j = n
               /\ \A j \in DOMAIN inbox' : ~IsChange(inbox'[j])
               /\ relay' = <<>> /\ version' < MaxWrites
    BY <2>1, <2>2, <2>3 DEF Alone, Posted
  <2>4. ASSUME NEW n \in DOMAIN inbox', inbox'[n].op = "batch"
        PROVE  (\A j \in DOMAIN inbox' : IsChange(inbox'[j]) => j = n) /\ relay' = <<>>
    <3>1. PICK k \in DOMAIN inbox : /\ k # i /\ inbox'[n] = inbox[k]
                                    /\ (n < i => k = n) /\ (n >= i => k = n + 1)
      BY <2>2
    <3>2. (\A j \in DOMAIN inbox : IsChange(inbox[j]) => j = k) /\ relay = <<>>
      BY <2>4, <3>1 DEF Alone
    <3>3. ASSUME NEW j \in DOMAIN inbox', IsChange(inbox'[j])
          PROVE  j = n
      <4>1. PICK l \in DOMAIN inbox : /\ l # i /\ inbox'[j] = inbox[l]
                                      /\ (j < i => l = j) /\ (j >= i => l = j + 1)
        BY <2>2
      <4>2. l = k
        BY <3>2, <3>3, <4>1
      <4> QED
        BY <2>2, <3>1, <4>1, <4>2
    <3> QED
      BY <2>1, <3>2, <3>3
  <2> QED
    BY <2>3, <2>4 DEF Alone
<1> QED
  BY <1>2, <1>3, <1>4, <1>5, <1>6, <1>7, <1>8 DEF Step

-----------------------------------------------------------------------------
(* A write block finds what storage has.                                   *)

LEMMA AnswerCache ==
    ASSUME Typed, NEW i \in DOMAIN inbox, AnswerIn(i)
    PROVE  /\ ~IsChange(inbox[i])
           /\ \A t \in Tables : \A id \in TableIds[t] :
                 /\ cache[t][id] # NoRow => cache'[t][id] = cache[t][id]
                 /\ \/ cache'[t][id] = cache[t][id]
                    \/ /\ HasRows(inbox[i]) /\ t = Asked.table /\ cache[t][id] = NoRow
                       /\ \E k \in DOMAIN inbox[i].rows :
                             /\ inbox[i].rows[k].id = id
                             /\ cache'[t][id] = SanitizedRaw(inbox[i].rows[k])
           /\ HasRows(inbox[i]) /\ ~UNCHANGED cache =>
                 \A k \in DOMAIN inbox[i].rows :
                    cache'[Asked.table][inbox[i].rows[k].id] # NoRow
<1>1. inbox[i].op \in {"fetch", "count", "once"} /\ MessageOK(inbox[i])
  BY Arrived DEF AnswerIn
<1>2. ~IsChange(inbox[i])
  BY <1>1 DEF IsChange
<1>3. CASE UNCHANGED identity
  BY <1>2, <1>3 DEF identity
<1>4. CASE HasRows(inbox[i]) /\ cache' = Cached(inbox[i].rows)
  <2>1. \A k \in DOMAIN inbox[i].rows :
           inbox[i].rows[k].id \in TableIds[Asked.table] /\ IsRaw(inbox[i].rows[k].id, inbox[i].rows[k])
    BY <1>1, <1>4 DEF MessageOK
  <2>2. CacheOK /\ Asked.table \in Tables
    BY AskedIs DEF Typed, EnvOK
  <2>3. /\ \A t \in Tables : \A id \in TableIds[t] :
              \/ cache'[t][id] = cache[t][id]
              \/ /\ t = Asked.table /\ cache[t][id] = NoRow
                 /\ \E k \in DOMAIN inbox[i].rows :
                       inbox[i].rows[k].id = id /\ cache'[t][id] = SanitizedRaw(inbox[i].rows[k])
        /\ \A t \in Tables : \A id \in TableIds[t] :
              cache[t][id] # NoRow => cache'[t][id] = cache[t][id]
        /\ \A k \in DOMAIN inbox[i].rows : cache'[Asked.table][inbox[i].rows[k].id] # NoRow
    BY <1>4, <2>1, <2>2, CachedIs
  <2> QED
    BY <1>2, <1>4, <2>3
<1> QED
  BY <1>3, <1>4 DEF AnswerIn

LEMMA StandsAlone ==
    ASSUME \A j \in DOMAIN inbox : ~IsChange(inbox[j]), relay = <<>>,
           NEW p, NEW t, NEW id, NEW c, NEW v, Stands(inbox, p, relay, store, t, id, c, v)
    PROVE  Agrees(store, t, id, c, v)
<1>1. \A j : j \notin DOMAIN relay
  BY NoElements
<1> QED
  BY <1>1 DEF Stands, ComesAfter, Touches

LEMMA SameLength ==
    ASSUME NEW a \in Nat, NEW b \in Int, b >= 0, 1..a = 1..b
    PROVE  a = b
<1>1. a \in 1..a \/ a = 0
  OBVIOUS
<1>2. b \in 1..b \/ b = 0
  OBVIOUS
<1>3. a = 0 => ~(1 \in 1..b)
  OBVIOUS
<1>4. b = 0 => ~(1 \in 1..a)
  OBVIOUS
<1> QED
  BY <1>1, <1>2, <1>3, <1>4

LEMMA BatchFitsStep ==
    ASSUME Typed, Alone, BatchFits, OrderedInv, Step
    PROVE  BatchFits'
<1>1. /\ IsSeq(queue) /\ IsSeq(inbox) /\ IsSeq(relay) /\ EnvOK /\ CacheOK /\ StoreOK
      /\ Asked.table \in Tables
  BY AskedIs DEF Typed, QueueOK, InboxOK, RelayOK, EnvOK
<1>2. UNCHANGED env => Asked' = Asked /\ ordered' = ordered
  BY DEF Asked, env
<1>3. CASE Asking
  <2>1. Asked' = Asked /\ ordered' = ordered /\ cache' = cache /\ store' = store /\ inbox' = inbox
        /\ Posted
    BY <1>2, <1>3 DEF Asking, identity, storage
  <2> QED
    BY <2>1 DEF BatchFits, NotSeen, Posted
<1>4. CASE Writing
  <2>1. Asked' = Asked /\ ordered' = ordered /\ cache' = cache /\ store' = store /\ inbox' = inbox
    BY <1>2, <1>4 DEF Writing, identity, storage
  <2>2. /\ \A i \in DOMAIN queue : queue[i].op # "batch"
        /\ \A i \in DOMAIN inbox : ~IsChange(inbox[i])
        /\ relay = <<>>
    BY <1>4 DEF Writing, InFlight, IsChange
  <2>3. PICK x \in Changes(Findable, [t \in Tables |-> {}]) :
          queue' = Append(queue, [op |-> "batch", change |-> x])
    BY <1>4 DEF Writing
  <2>4. /\ ChangeOK(x)
        /\ x.type = "created" => store[x.table][x.id] = NoRow
        /\ x.type # "created" => Findable[x.table][x.id] # NoRow
    BY WritersChange
  <2>5. x.table \in Tables /\ x.id \in TableIds[x.table] /\ x.type \in {"created", "updated", "destroyed"}
    BY <2>4 DEF ChangeOK
  <2>6. ASSUME ordered, cache[x.table][x.id] # NoRow
        PROVE  Live(store[x.table][x.id])
    <3>1. Stands(inbox, 0, relay, store, x.table, x.id, "id", cache[x.table][x.id]["id"])
      BY <2>5, <2>6 DEF OrderedInv, CacheStands, Columns
    <3> QED
      BY <2>2, <3>1, StandsAlone DEF Agrees
  <2>7. ordered /\ x.type = "updated" => Live(store[x.table][x.id])
    BY <2>4, <2>5, <2>6 DEF Findable, Stored
  <2>8. ASSUME ordered, x.type = "created"
        PROVE  NotSeen(x, Len(inbox) + 1)
    <3>1. ~Live(store[x.table][x.id])
      BY <2>4, <2>8 DEF Live
    <3>2. cache[x.table][x.id] = NoRow
      BY <2>6, <2>8, <3>1
    <3>3. ASSUME x.table = Asked.table, NEW j \in DOMAIN inbox, HasRows(inbox[j]),
                 NEW k \in DOMAIN inbox[j].rows
          PROVE  inbox[j].rows[k].id # x.id
      <4>1. Stands(inbox, j, relay, store, Asked.table, inbox[j].rows[k].id, "id",
                   SanitizedRaw(inbox[j].rows[k])["id"])
        BY <2>8, <3>3 DEF OrderedInv, AnswersStand, Columns
      <4>2. Live(store[Asked.table][inbox[j].rows[k].id])
        BY <2>2, <4>1, StandsAlone DEF Agrees
      <4> QED
        BY <3>1, <3>3, <4>2
    <3> QED
      BY <3>2, <3>3 DEF NotSeen
  <2>9. PICK m : m = [op |-> "batch", change |-> x]
    OBVIOUS
  <2>10. /\ \A i \in DOMAIN queue : i \in DOMAIN queue' /\ queue'[i] = queue[i]
         /\ \A i \in DOMAIN queue' : i \in DOMAIN queue \/ i = Len(queue) + 1
         /\ queue'[Len(queue) + 1] = m
    BY <1>1, <2>3, <2>9, Appended
  <2>11. \A i \in DOMAIN queue' : queue'[i].op = "batch" => queue'[i].change = x
    BY <2>2, <2>9, <2>10
  <2>12. \A i \in DOMAIN inbox' : inbox'[i].op # "batch"
    BY <2>1, <2>2 DEF IsChange
  <2>13. ordered /\ x.type = "created" => NotSeen(x, Len(inbox) + 1)'
    BY <2>1, <2>8 DEF NotSeen
  <2> QED
    BY <2>1, <2>4, <2>7, <2>11, <2>12, <2>13 DEF BatchFits, NotSeen
<1>5. CASE Overtaking \/ Relaying
  <2>1. /\ \A i \in DOMAIN queue : queue[i].op # "batch"
        /\ \A i \in DOMAIN inbox : inbox[i].op # "batch"
        /\ queue' = queue
        /\ inbox' = inbox \/ (relay # <<>> /\ inbox' = Append(inbox, Head(relay)))
    BY <1>5 DEF Overtaking, Relaying, InFlight, Alone
  <2>2. relay # <<>> => Head(relay).op # "batch"
    BY <1>1, Shifted DEF Typed, RelayOK
  <2>3. \A i \in DOMAIN inbox' : inbox'[i].op # "batch"
    <3>1. CASE inbox' = inbox
      BY <2>1, <3>1
    <3>2. CASE relay # <<>> /\ inbox' = Append(inbox, Head(relay))
      BY <1>1, <2>1, <2>2, <3>2, Appended
    <3> QED
      BY <2>1, <3>1, <3>2
  <2> QED
    BY <2>1, <2>3 DEF BatchFits
<1>6. CASE Reading
  <2>1. /\ Asked' = Asked /\ ordered' = ordered /\ cache' = cache /\ store' = store
        /\ queue # <<>> /\ queue' = Tail(queue)
    BY <1>2, <1>6 DEF Reading, identity, storage
  <2>2. \A i \in DOMAIN queue' : i + 1 \in DOMAIN queue /\ queue'[i] = queue[i + 1]
    BY <1>1, <2>1, Shifted
  <2>3. /\ \A j \in DOMAIN inbox : j \in DOMAIN inbox' /\ inbox'[j] = inbox[j]
        /\ \A j \in DOMAIN inbox' :
              \/ j \in DOMAIN inbox /\ j < Len(inbox) + 1
              \/ ~IsChange(inbox'[j]) /\ Read(inbox'[j])
        /\ \A j \in DOMAIN inbox : j < Len(inbox) + 1
    <3>1. Len(inbox) \in Nat /\ DOMAIN inbox = 1..Len(inbox)
      BY <1>1, SeqDomain
    <3>2. CASE inbox' = inbox
      BY <3>1, <3>2
    <3>3. CASE \E m : inbox' = Append(inbox, m) /\ ~IsChange(m) /\ Read(m)
      <4>1. PICK m : inbox' = Append(inbox, m) /\ ~IsChange(m) /\ Read(m)
        BY <3>3
      <4>2. /\ \A j \in DOMAIN inbox : j \in DOMAIN inbox' /\ inbox'[j] = inbox[j] /\ j < Len(inbox) + 1
            /\ \A j \in DOMAIN inbox' : j \in DOMAIN inbox \/ j = Len(inbox) + 1
            /\ inbox'[Len(inbox) + 1] = m
        BY <1>1, <4>1, Appended
      <4> QED
        BY <4>1, <4>2
    <3> QED
      BY <1>6, <3>2, <3>3 DEF Reading
  <2>4. ASSUME NEW i \in DOMAIN queue', queue'[i].op = "batch", NEW x, x = queue'[i].change
        PROVE  /\ x.type = "created" => store'[x.table][x.id] = NoRow
               /\ ordered' /\ x.type = "updated" => Live(store'[x.table][x.id])
               /\ ordered' /\ x.type = "created" => NotSeen(x, Len(inbox) + 1)'
    <3>1. i + 1 \in DOMAIN queue /\ queue[i + 1].op = "batch" /\ x = queue[i + 1].change
      BY <2>2, <2>4
    <3>2. /\ x.type = "created" => store[x.table][x.id] = NoRow
          /\ ordered /\ x.type = "updated" => Live(store[x.table][x.id])
          /\ ordered /\ x.type = "created" => NotSeen(x, Len(inbox) + 1)
      BY <3>1 DEF BatchFits
    <3>3. ASSUME ordered, x.type = "created"
          PROVE  NotSeen(x, Len(inbox) + 1)'
      <4>1. cache'[x.table][x.id] = NoRow
        BY <2>1, <3>2, <3>3 DEF NotSeen
      <4>2. ASSUME x.table = Asked.table, NEW j \in DOMAIN inbox', HasRows(inbox'[j]),
                   NEW k \in DOMAIN inbox'[j].rows
            PROVE  inbox'[j].rows[k].id # x.id
        <5>1. CASE j \in DOMAIN inbox /\ j < Len(inbox) + 1
          BY <2>3, <3>2, <3>3, <4>2, <5>1 DEF NotSeen
        <5>2. CASE Read(inbox'[j])
          <6>1. PICK id \in TableIds[Asked.table] :
                  /\ inbox'[j].rows[k] = store[Asked.table][id] /\ Live(inbox'[j].rows[k])
                  /\ inbox'[j].rows[k].id = id
            BY <4>2, <5>2 DEF Read
          <6> QED
            BY <3>2, <3>3, <4>2, <6>1 DEF Live
        <5> QED
          BY <2>3, <5>1, <5>2
      <4> QED
        BY <2>1, <4>1, <4>2 DEF NotSeen
    <3> QED
      BY <2>1, <3>2, <3>3
  <2>5. ASSUME NEW i \in DOMAIN inbox', inbox'[i].op = "batch", ordered',
               NEW x, x = inbox'[i].change, x.type = "created"
        PROVE  NotSeen(x, i)'
    <3>1. i \in DOMAIN inbox /\ inbox[i] = inbox'[i]
      BY <2>3, <2>5 DEF IsChange
    <3>2. NotSeen(x, i)
      BY <2>1, <2>5, <3>1 DEF BatchFits
    <3>3. \A j \in DOMAIN inbox' : j < i => j \in DOMAIN inbox
      <4>1. Len(inbox) \in Nat /\ DOMAIN inbox = 1..Len(inbox)
        BY <1>1, SeqDomain
      <4>3. \A j \in DOMAIN inbox' : j \in Nat \ {0}
        <5>1. CASE inbox' = inbox
          BY <4>1, <5>1
        <5>2. CASE \E m : inbox' = Append(inbox, m)
          <6>1. PICK m : inbox' = Append(inbox, m)
            BY <5>2
          <6> QED
            BY <1>1, <6>1, Appended
        <5> QED
          BY <1>6, <5>1, <5>2 DEF Reading
      <4> QED
        BY <3>1, <4>1, <4>3
    <3> QED
      BY <2>1, <2>3, <3>2, <3>3 DEF NotSeen
  <2> QED
    BY <2>4, <2>5 DEF BatchFits, NotSeen
<1>7. CASE Committing
  <2>1. /\ Asked' = Asked /\ ordered' = ordered /\ cache' = cache
        /\ queue # <<>> /\ queue' = Tail(queue) /\ Head(queue).op = "batch"
        /\ inbox' = Append(inbox, Head(queue))
    BY <1>2, <1>7 DEF Committing, identity
  <2>2. /\ 1 \in DOMAIN queue /\ Head(queue) = queue[1]
        /\ \A i \in DOMAIN queue' : i + 1 \in DOMAIN queue /\ queue'[i] = queue[i + 1] /\ i \in Nat \ {0}
    BY <1>1, <2>1, Shifted
  <2>3. /\ \A j \in DOMAIN queue : queue[j].op = "batch" => j = 1
        /\ \A j \in DOMAIN inbox : ~IsChange(inbox[j])
    BY <2>1, <2>2 DEF Alone
  <2>4. \A i \in DOMAIN queue' : queue'[i].op # "batch"
    <3>1. \A i \in DOMAIN queue' : i + 1 # 1
      BY <2>2
    <3> QED
      BY <2>2, <2>3, <3>1
  <2>5. /\ \A j \in DOMAIN inbox : j \in DOMAIN inbox' /\ inbox'[j] = inbox[j] /\ j < Len(inbox) + 1
        /\ \A j \in DOMAIN inbox' : j \in DOMAIN inbox \/ j = Len(inbox) + 1
        /\ inbox'[Len(inbox) + 1] = Head(queue)
        /\ Len(inbox) \in Nat
    BY <1>1, <2>1, Appended
  <2>6. ASSUME NEW i \in DOMAIN inbox', inbox'[i].op = "batch", ordered',
               NEW x, x = inbox'[i].change, x.type = "created"
        PROVE  NotSeen(x, i)'
    <3>1. i = Len(inbox) + 1 /\ x = queue[1].change
      BY <2>2, <2>3, <2>5, <2>6 DEF IsChange
    <3>2. NotSeen(x, Len(inbox) + 1)
      BY <2>1, <2>2, <2>6, <3>1 DEF BatchFits
    <3>3. \A j \in DOMAIN inbox' : j < i => j \in DOMAIN inbox
      BY <2>5, <3>1
    <3> QED
      BY <2>1, <2>5, <3>1, <3>2, <3>3 DEF NotSeen
  <2> QED
    BY <2>4, <2>6 DEF BatchFits, NotSeen
<1>8. ASSUME NEW i \in DOMAIN inbox, AnswerIn(i)
      PROVE  BatchFits'
  <2>1. /\ Asked' = Asked /\ ordered' = ordered /\ store' = store /\ queue' = queue
        /\ Arrives(i, {"fetch", "count", "once"})
    BY <1>2, <1>8 DEF AnswerIn, storage
  <2>2. /\ ordered => i = 1
        /\ \A j \in DOMAIN inbox' : \E k \in DOMAIN inbox :
              /\ k # i /\ inbox'[j] = inbox[k]
              /\ (j < i => k = j) /\ (j >= i => k = j + 1)
        /\ DOMAIN inbox' = 1..Len(inbox) - 1 /\ DOMAIN inbox = 1..Len(inbox) /\ Len(inbox) \in Nat
        /\ IsSeq(inbox')
    BY <2>1, Arrived
  <2>3. Len(inbox') = Len(inbox) - 1
    <3>1. DOMAIN inbox' = 1..Len(inbox') /\ Len(inbox') \in Nat
      BY <2>2, SeqDomain
    <3>2. Len(inbox) >= 1
      BY <1>8, <2>2
    <3>3. PICK a, b : a = Len(inbox') /\ b = Len(inbox) - 1
      OBVIOUS
    <3>4. a \in Nat /\ b \in Int /\ b >= 0 /\ 1..a = 1..b
      <4>1. 1..a = DOMAIN inbox'
        BY <3>1, <3>3
      <4>2. 1..b = DOMAIN inbox'
        BY <2>2, <3>3
      <4>3. a \in Nat /\ b \in Int /\ b >= 0
        BY <2>2, <3>1, <3>2, <3>3
      <4> QED
        BY ONLY <4>1, <4>2, <4>3
    <3>5. a = b
      BY <3>4, SameLength
    <3> QED
      BY <3>3, <3>5
  <2>4. ASSUME ordered, NEW x, x.table \in Tables, x.id \in TableIds[x.table],
               NEW p \in 1..Len(inbox), NotSeen(x, p + 1)
        PROVE  NotSeen(x, p)'
    <3>1. i = 1 /\ \A j \in DOMAIN inbox' : inbox'[j] = inbox[j + 1] /\ j + 1 \in DOMAIN inbox
                                           /\ (j < p => j + 1 < p + 1)
      BY <2>2, <2>4
    <3>2. cache'[x.table][x.id] = NoRow
      <4>1. /\ cache[x.table][x.id] = NoRow
            /\ x.table = Asked.table /\ HasRows(inbox[1]) =>
                  \A k \in DOMAIN inbox[1].rows : inbox[1].rows[k].id # x.id
        BY <2>2, <2>4, <3>1 DEF NotSeen
      <4> QED
        BY <1>8, <2>4, <3>1, <4>1, AnswerCache
    <3> QED
      BY <2>1, <2>4, <3>1, <3>2 DEF NotSeen
  <2>5. ASSUME NEW n \in DOMAIN queue', queue'[n].op = "batch", NEW x, x = queue'[n].change
        PROVE  /\ x.type = "created" => store'[x.table][x.id] = NoRow
               /\ ordered' /\ x.type = "updated" => Live(store'[x.table][x.id])
               /\ ordered' /\ x.type = "created" => NotSeen(x, Len(inbox) + 1)'
    <3>1. x.table \in Tables /\ x.id \in TableIds[x.table]
      BY <2>1, <2>5 DEF Typed, QueueOK, RequestOK, ChangeOK
    <3>2. /\ x.type = "created" => store[x.table][x.id] = NoRow
          /\ ordered /\ x.type = "updated" => Live(store[x.table][x.id])
          /\ ordered /\ x.type = "created" => NotSeen(x, Len(inbox) + 1)
      BY <2>1, <2>5 DEF BatchFits
    <3>3. Len(inbox') + 1 = Len(inbox) /\ Len(inbox) \in 1..Len(inbox)
      BY <2>2, <2>3
    <3> QED
      BY <2>1, <2>4, <3>1, <3>2, <3>3
  <2>6. ASSUME NEW n \in DOMAIN inbox', inbox'[n].op = "batch", ordered',
               NEW x, x = inbox'[n].change, x.type = "created"
        PROVE  NotSeen(x, n)'
    <3>1. inbox'[n] = inbox[n + 1] /\ n + 1 \in DOMAIN inbox /\ n \in 1..Len(inbox)
      BY <2>1, <2>2, <2>6
    <3>2. NotSeen(x, n + 1)
      BY <2>1, <2>6, <3>1 DEF BatchFits
    <3>3. x.table \in Tables /\ x.id \in TableIds[x.table]
      BY <2>6, <3>1 DEF Typed, InboxOK, MessageOK, IsChange, ChangeOK
    <3> QED
      BY <2>1, <2>4, <2>6, <3>1, <3>2, <3>3
  <2> QED
    BY <2>5, <2>6 DEF BatchFits, NotSeen
<1>9. ASSUME NEW i \in DOMAIN inbox, BatchIn(i) \/ ExternalIn(i)
      PROVE  BatchFits'
  <2>1. /\ Posted
        /\ \E kinds \in {{"batch"}, {"external"}} : Arrives(i, kinds)
    BY <1>9 DEF BatchIn, ExternalIn
  <2>2. /\ \A j \in DOMAIN inbox' : \E k \in DOMAIN inbox : k # i /\ inbox'[j] = inbox[k]
        /\ IsChange(inbox[i])
    BY <2>1, Arrived DEF IsChange
  <2>3. /\ \A n \in DOMAIN queue : queue[n].op # "batch"
        /\ \A k \in DOMAIN inbox : k # i => inbox[k].op # "batch"
    BY <2>2 DEF Alone
  <2>4. /\ \A n \in DOMAIN queue' : queue'[n].op # "batch"
        /\ \A n \in DOMAIN inbox' : inbox'[n].op # "batch"
    BY <2>1, <2>2, <2>3 DEF Posted
  <2> QED
    BY <2>4 DEF BatchFits
<1> QED
  BY <1>3, <1>4, <1>5, <1>6, <1>7, <1>8, <1>9 DEF Step

-----------------------------------------------------------------------------
(* Answers in order: what stands goes on standing.                         *)

LEMMA OverSanitized ==
    ASSUME NEW t \in Tables, NEW id \in TableIds[t], NEW row, IsWritten(t, id, row),
           NEW base, base = NoRow \/ IsRaw(id, base), NEW o, o = Over(row, base)
    PROVE  /\ IsRaw(id, o) /\ Live(o)
           /\ \A c \in Columns :
                 /\ c \in DOMAIN row => /\ o[c] = SanitizedRaw(row)[c]
                                        /\ SanitizedRaw(o)[c] = SanitizedRaw(row)[c]
                 /\ c \notin DOMAIN row /\ base # NoRow =>
                       o[c] = base[c] /\ SanitizedRaw(o)[c] = SanitizedRaw(base)[c]
                 /\ base = NoRow => SanitizedRaw(o)[c] = SanitizedRaw(row)[c]
<1>1. /\ o = [id |-> o.id, val |-> o.val, ref |-> o.ref, gone |-> o.gone]
      /\ \A c \in Columns : o[c] = IF c \in DOMAIN row THEN row[c] ELSE base[c]
      /\ o.id = IF "id" \in DOMAIN row THEN row.id ELSE base.id
      /\ o.gone = IF "gone" \in DOMAIN row THEN row.gone ELSE base.gone
  BY OverRow
<1>2. o.id = id /\ o.gone = FALSE /\ {"id", "gone"} \subseteq DOMAIN row
  BY <1>1 DEF IsWritten
<1>3. IsRaw(id, o)
  BY <1>1, <1>2, ObserveAssumption DEF IsRaw
<1>4. Live(o) /\ DOMAIN o = Columns
  BY <1>3, RawIsRow
<1>5. \A c \in DOMAIN row : c \in Columns /\ SanitizedRaw(row)[c] = row[c]
  BY WrittenRow
<1>6. ASSUME NEW c \in Columns, c \in DOMAIN row
      PROVE  o[c] = SanitizedRaw(row)[c] /\ SanitizedRaw(o)[c] = SanitizedRaw(row)[c]
  BY <1>1, <1>4, <1>5, <1>6, SameColumn
<1>7. ASSUME NEW c \in Columns, c \notin DOMAIN row, base # NoRow
      PROVE  o[c] = base[c] /\ SanitizedRaw(o)[c] = SanitizedRaw(base)[c]
  <2>1. DOMAIN base = Columns
    BY <1>7, RawIsRow
  <2> QED
    BY <1>1, <1>4, <1>7, <2>1, SameColumn
<1>8. ASSUME NEW c \in Columns, c \notin DOMAIN row, base = NoRow
      PROVE  SanitizedRaw(o)[c] = SanitizedRaw(row)[c]
  <2>1. c \in {"val", "ref"}
    BY <1>2, <1>8 DEF Columns
  <2>2. o[c] = Null
    BY <1>1, <1>8, <2>1 DEF NoRow
  <2>3. SanitizeValue(o, c) = NullValue(c) /\ SanitizeValue(row, c) = NullValue(c)
    BY <1>8, <2>2 DEF SanitizeValue
  <2> QED
    BY <2>1, <2>3, SanitizedColumns
<1> QED
  BY <1>3, <1>4, <1>6, <1>7, <1>8

\* The new row of a commit says what the change says.
LEMMA CommitAgrees ==
    ASSUME Typed, NEW x, ChangeOK(x), store' = Written(x),
           x.type = "created" => store[x.table][x.id] = NoRow,
           x.type = "updated" => Live(store[x.table][x.id])
    PROVE  /\ \A c \in Columns : Says(x, c) =>
                 Agrees(store', x.table, x.id, c, SanitizedRaw(x.row)[c])
           /\ \A t \in Tables : \A id \in TableIds[t] : \A c \in Columns : \A v :
                 Agrees(store, t, id, c, v) =>
                    \/ Agrees(store', t, id, c, v)
                    \/ t = x.table /\ id = x.id /\ Sets(x, c)
<1> DEFINE t == x.table
           id == x.id
           before == store[t][id]
           after == store'[t][id]
<1>1. /\ t \in Tables /\ id \in TableIds[t] /\ x.type \in {"created", "updated", "destroyed"}
      /\ store \in AnyStorage
  BY DEF ChangeOK, Typed, StoreOK
<1>2. /\ \A u \in Tables : \A i \in TableIds[u] :
            ~(u = t /\ i = id) => store'[u][i] = store[u][i]
      /\ x.type = "created" => after = Over(x.row, NoRow)
      /\ x.type = "updated" => after = IF before = NoRow THEN NoRow ELSE Over(x.row, before)
  BY <1>1, WrittenIs
<1>3. x.type # "destroyed" => IsWritten(t, id, x.row)
  BY DEF ChangeOK
<1>4. Live(before) => IsRaw(id, before)
  BY <1>1, StoredRow
<1>5. CASE x.type = "created"
  <2>1. Live(after) /\ \A c \in Columns : SanitizedRaw(after)[c] = SanitizedRaw(x.row)[c]
    BY <1>1, <1>2, <1>3, <1>5, OverSanitized
  <2>2. ~Live(before)
    BY <1>5 DEF Live
  <2> QED
    BY <1>2, <2>1, <2>2 DEF Agrees
<1>6. CASE x.type = "updated"
  <2>1. IsRaw(id, before) /\ before # NoRow /\ after = Over(x.row, before)
    BY <1>2, <1>4, <1>6 DEF Live
  <2>2. /\ Live(after)
        /\ \A c \in Columns :
              /\ c \in DOMAIN x.row => SanitizedRaw(after)[c] = SanitizedRaw(x.row)[c]
              /\ c \notin DOMAIN x.row => SanitizedRaw(after)[c] = SanitizedRaw(before)[c]
    BY <1>1, <1>3, <1>6, <2>1, OverSanitized
  <2> QED
    BY <1>2, <1>6, <2>2 DEF Agrees, Says, Sets
<1>7. CASE x.type = "destroyed"
  BY <1>2, <1>7 DEF Agrees, Says, Sets
<1> QED
  BY <1>1, <1>5, <1>6, <1>7

LEMMA StandsRead ==
    ASSUME Typed, Reading, NEW p, NEW t, NEW id, NEW c, NEW v,
           Stands(inbox, p, relay, store, t, id, c, v)
    PROVE  Stands(inbox', p, relay', store', t, id, c, v)
<1>1. relay' = relay /\ store' = store /\ IsSeq(inbox)
  BY DEF Reading, storage, Typed, InboxOK
<1>2. \A j \in DOMAIN inbox : j \in DOMAIN inbox' /\ inbox'[j] = inbox[j]
  BY <1>1, Appended DEF Reading
<1> QED
  BY <1>1, <1>2 DEF Stands, ComesAfter

LEMMA StandsRelay ==
    ASSUME Typed, Relaying, NEW p \in 0..Len(inbox), NEW t, NEW id, NEW c, NEW v,
           Stands(inbox, p, relay, store, t, id, c, v)
    PROVE  Stands(inbox', p, relay', store', t, id, c, v)
<1>1. /\ relay # <<>> /\ relay' = Tail(relay) /\ store' = store
      /\ inbox' = Append(inbox, Head(relay)) /\ IsSeq(inbox) /\ IsSeq(relay)
  BY DEF Relaying, storage, Typed, InboxOK, RelayOK
<1>2. /\ \A j \in DOMAIN inbox : j \in DOMAIN inbox' /\ inbox'[j] = inbox[j]
      /\ Len(inbox) + 1 \in DOMAIN inbox' /\ inbox'[Len(inbox) + 1] = Head(relay)
      /\ Len(inbox) \in Nat
  BY <1>1, Appended
<1>3. /\ Head(relay) = relay[1]
      /\ \A j \in DOMAIN relay : j # 1 => j - 1 \in DOMAIN relay' /\ relay'[j - 1] = relay[j]
      /\ \A j \in DOMAIN relay : j \in Nat \ {0}
      /\ \A j \in DOMAIN relay' : j \in Nat \ {0}
  BY <1>1, Shifted
<1>4. CASE ComesAfter(inbox, p, t, id, c) \/ Agrees(store, t, id, c, v)
  BY <1>1, <1>2, <1>4 DEF Stands, ComesAfter
<1>5. CASE ComesAfter(relay, 0, t, id, c)
  <2>1. PICK j \in DOMAIN relay : j > 0 /\ Touches(relay[j], t, id, c)
    BY <1>5 DEF ComesAfter
  <2>2. CASE j = 1
    <3>1. Len(inbox) + 1 > p
      BY <1>2
    <3> QED
      BY <1>2, <1>3, <2>1, <2>2, <3>1 DEF Stands, ComesAfter
  <2>3. CASE j # 1
    <3>1. j - 1 \in DOMAIN relay' /\ j - 1 > 0 /\ Touches(relay'[j - 1], t, id, c)
      BY <1>3, <2>1, <2>3
    <3> QED
      BY <3>1 DEF Stands, ComesAfter
  <2> QED
    BY <2>2, <2>3
<1> QED
  BY <1>4, <1>5 DEF Stands

LEMMA StandsArrive ==
    ASSUME Typed, ordered, relay' = relay, store' = store,
           NEW i \in DOMAIN inbox, NEW kinds, Arrives(i, kinds),
           NEW t, NEW id, NEW c, NEW v, NEW p, NEW q,
           \/ p = 0 /\ q = 0 /\ ~Touches(inbox[1], t, id, c)
           \/ q \in Nat /\ p = q + 1,
           Stands(inbox, p, relay, store, t, id, c, v)
    PROVE  Stands(inbox', q, relay', store', t, id, c, v)
<1>1. /\ i = 1 /\ DOMAIN inbox = 1..Len(inbox) /\ Len(inbox) \in Nat
      /\ \A k \in DOMAIN inbox : k # i => \E j \in DOMAIN inbox' :
            inbox'[j] = inbox[k] /\ (k < i => j = k) /\ (k > i => j = k - 1)
  BY Arrived
<1>2. CASE ComesAfter(inbox, p, t, id, c)
  <2>1. PICK k \in DOMAIN inbox : k > p /\ Touches(inbox[k], t, id, c)
    BY <1>2 DEF ComesAfter
  <2>2. k # 1 /\ k > 1 /\ k - 1 > q
    BY <1>1, <2>1
  <2>3. PICK j \in DOMAIN inbox' : inbox'[j] = inbox[k] /\ j = k - 1
    BY <1>1, <2>2
  <2>4. j > q /\ Touches(inbox'[j], t, id, c)
    BY <2>1, <2>2, <2>3
  <2> QED
    BY <2>4 DEF Stands, ComesAfter
<1> QED
  BY <1>2 DEF Stands

\* What a change on its way does to the cache once it is here.
LEMMA ChangeCache ==
    ASSUME Typed, NEW i \in DOMAIN inbox, BatchIn(i) \/ ExternalIn(i),
           NEW x, x = inbox[i].change
    PROVE  /\ ChangeOK(x) /\ IsChange(inbox[i])
           /\ \A t \in Tables : \A id \in TableIds[t] : ~(t = x.table /\ id = x.id) =>
                 /\ cache'[t][id] = cache[t][id]
                 /\ <<t, id>> \in partial' <=> <<t, id>> \in partial
           /\ \/ cache'[x.table][x.id] = NoRow
              \/ \A c \in Columns :
                    \/ Says(x, c) /\ cache'[x.table][x.id][c] = SanitizedRaw(x.row)[c]
                    \/ /\ ~Sets(x, c) /\ cache[x.table][x.id] # NoRow
                       /\ cache'[x.table][x.id][c] = cache[x.table][x.id][c]
                       /\ <<x.table, x.id>> \in partial' <=> <<x.table, x.id>> \in partial
                    \/ c # "id" /\ <<x.table, x.id>> \in partial'
<1>1. /\ inbox[i].op \in {"batch", "external"}
      /\ MessageOK(inbox[i])
  BY Arrived DEF BatchIn, ExternalIn
<1>2. ChangeOK(x) /\ IsChange(inbox[i]) /\ CacheOK
  BY <1>1 DEF MessageOK, IsChange, Typed
<1>3. /\ x.table \in Tables /\ x.id \in TableIds[x.table]
      /\ x.type \in {"created", "updated", "destroyed"}
      /\ x.type # "destroyed" => IsWritten(x.table, x.id, x.row)
  BY <1>2 DEF ChangeOK
<1>4. partial' = PartialAfter(x) \/ partial' = partial =>
        \A t \in Tables : \A id \in TableIds[t] : ~(t = x.table /\ id = x.id) =>
           (<<t, id>> \in partial' <=> <<t, id>> \in partial)
  BY DEF PartialAfter
<1>5. CASE BatchIn(i)
  <2>1. cache' = CacheAfter(x) /\ partial' = PartialAfter(x)
    BY <1>5 DEF BatchIn, Known
  <2>2. /\ \A t \in Tables : \A id \in TableIds[t] :
              ~(t = x.table /\ id = x.id) => cache'[t][id] = cache[t][id]
        /\ cache'[x.table][x.id] = IF x.type = "destroyed" THEN NoRow ELSE x.row
    BY <1>2, <1>3, <2>1, CacheAfterIs
  <2>3. inbox[i].op = "batch"
    BY <1>5, Arrived DEF BatchIn
  <2>4. x.type # "destroyed" => DOMAIN x.row = Columns
    BY <1>1, <2>3 DEF MessageOK, IsWhole
  <2>5. x.type # "destroyed" => SanitizedRaw(x.row) = x.row /\ \A c \in Columns : Says(x, c)
    BY <1>3, <2>4, WrittenRow DEF Says
  <2> QED
    BY <1>2, <1>4, <2>1, <2>2, <2>5
<1>6. CASE ExternalIn(i) /\ Unseen(x)
  <2>1. cache' = cache /\ partial' = partial
    BY <1>6 DEF ExternalIn, identity
  <2> QED
    BY <1>2, <1>6, <2>1 DEF Unseen
<1>7. CASE ExternalIn(i) /\ ~Unseen(x)
  <2>1. PICK a : a = AsApplied(x)
    OBVIOUS
  <2>2. cache' = CacheAfter(a) /\ partial' = PartialAfter(x)
    BY <1>7, <2>1 DEF ExternalIn, Known
  <2> DEFINE raw == cache[x.table][x.id]
  <2>3. /\ a.table = x.table /\ a.id = x.id
        /\ x.type = "destroyed" => a = x
        /\ x.type # "destroyed" =>
              /\ raw = NoRow => a.type = "created" /\ a.row = SanitizedRaw(x.row)
              /\ raw # NoRow => a.type = "updated" /\ a.row = Over(x.row, raw)
    BY <1>2, <2>1, AppliedIs
  <2>4. /\ \A t \in Tables : \A id \in TableIds[t] :
              ~(t = x.table /\ id = x.id) => cache'[t][id] = cache[t][id]
        /\ cache'[x.table][x.id] = IF a.type = "destroyed" THEN NoRow ELSE a.row
    BY <1>2, <1>3, <2>2, <2>3, CacheAfterIs
  <2>5. CASE x.type = "destroyed"
    BY <1>2, <1>4, <2>2, <2>3, <2>4, <2>5
  <2>6. CASE x.type # "destroyed" /\ raw = NoRow
    <3>1. cache'[x.table][x.id] = SanitizedRaw(x.row)
      BY <2>3, <2>4, <2>6
    <3>2. ASSUME NEW c \in Columns
          PROVE  Says(x, c) \/ (c # "id" /\ <<x.table, x.id>> \in partial')
      <4>1. CASE x.type = "created" \/ c \in DOMAIN x.row
        BY <1>3, <2>6, <4>1 DEF Says
      <4>2. CASE x.type = "updated" /\ c \notin DOMAIN x.row
        <5>1. c # "id" /\ DOMAIN x.row # Columns
          BY <1>3, <4>2 DEF IsWritten
        <5> QED
          BY <2>2, <2>6, <4>2, <5>1 DEF PartialAfter
      <4> QED
        BY <1>3, <2>6, <4>1, <4>2
    <3> QED
      BY <1>2, <1>4, <2>2, <2>4, <3>1, <3>2
  <2>7. CASE x.type # "destroyed" /\ raw # NoRow
    <3>1. cache'[x.table][x.id] = Over(x.row, raw) /\ IsRaw(x.id, raw)
      BY <1>2, <1>3, <2>3, <2>4, <2>7 DEF CacheOK
    <3>2. \A c \in Columns :
             /\ c \in DOMAIN x.row => cache'[x.table][x.id][c] = SanitizedRaw(x.row)[c]
             /\ c \notin DOMAIN x.row => cache'[x.table][x.id][c] = raw[c]
      BY <1>3, <2>7, <3>1, OverSanitized
    <3>3. \A c \in Columns : c \notin DOMAIN x.row => partial' = partial
      BY <2>2, <2>7 DEF PartialAfter
    <3>4. ASSUME NEW c \in Columns
          PROVE  \/ Says(x, c) /\ cache'[x.table][x.id][c] = SanitizedRaw(x.row)[c]
                 \/ /\ ~Sets(x, c) /\ raw # NoRow
                    /\ cache'[x.table][x.id][c] = raw[c]
                    /\ <<x.table, x.id>> \in partial' <=> <<x.table, x.id>> \in partial
      BY <1>3, <2>7, <3>2, <3>3 DEF Says, Sets
    <3> QED
      BY <1>2, <1>4, <2>2, <2>4, <3>4
  <2> QED
    BY <2>5, <2>6, <2>7
<1> QED
  BY <1>5, <1>6, <1>7

\* A Model wraps the raw of its id, whatever arrives.
LEMMA ModelsCachedStep ==
    ASSUME Typed, BatchFits, ordered, ModelsCached, Step
    PROVE  ModelsCached'
<1>1. UNCHANGED env => Asked' = Asked
  BY DEF Asked, env
<1>2. Asked.table \in Tables /\ models \subseteq TableIds[Asked.table] /\ CacheOK
  BY AskedIs DEF Typed, EnvOK, ModelsOK
<1>3. CASE UNCHANGED identity /\ UNCHANGED env
  BY <1>1, <1>3 DEF identity, ModelsCached
<1>4. ASSUME NEW i \in DOMAIN inbox, AnswerIn(i), ~UNCHANGED identity
      PROVE  ModelsCached'
  <2>1. /\ HasRows(inbox[i]) /\ Asked' = Asked
        /\ cache' = Cached(inbox[i].rows) /\ orphans' = Orphaned(Entering(inbox[i].rows))
        /\ models' \in {models, models \cup Ids(inbox[i].rows)}
    BY <1>1, <1>4 DEF AnswerIn
  <2>2. orphans' = {}
    BY <2>1 DEF Orphaned, Entering, ModelsCached
  <2>3. MessageOK(inbox[i])
    BY <1>4, Arrived DEF AnswerIn
  <2>4. \A k \in DOMAIN inbox[i].rows :
           inbox[i].rows[k].id \in TableIds[Asked.table] /\ IsRaw(inbox[i].rows[k].id, inbox[i].rows[k])
    BY <2>1, <2>3 DEF MessageOK
  <2>5. /\ \A t \in Tables : \A id \in TableIds[t] :
              cache[t][id] # NoRow => cache'[t][id] = cache[t][id]
        /\ \A k \in DOMAIN inbox[i].rows : cache'[Asked.table][inbox[i].rows[k].id] # NoRow
    BY <1>2, <2>1, <2>4, CachedIs
  <2>6. \A id \in models' : cache'[Asked.table][id] # NoRow
    BY <1>2, <2>1, <2>5 DEF Ids, ModelsCached
  <2> QED
    BY <2>1, <2>2, <2>6 DEF ModelsCached
<1>5. ASSUME NEW i \in DOMAIN inbox, NEW a, Known(a), UNCHANGED env,
             a.table \in Tables, a.id \in TableIds[a.table],
             a.type # "destroyed" => IsRaw(a.id, a.row),
             ReplacesRaw(a) => cache[a.table][a.id] = NoRow
      PROVE  ModelsCached'
  <2>1. /\ cache' = CacheAfter(a) /\ models' = ModelsAfter(a) /\ orphans' = OrphansAfter(a)
        /\ Asked' = Asked
    BY <1>1, <1>5 DEF Known
  <2>2. /\ \A t \in Tables : \A id \in TableIds[t] :
              ~(t = a.table /\ id = a.id) => cache'[t][id] = cache[t][id]
        /\ cache'[a.table][a.id] = IF a.type = "destroyed" THEN NoRow ELSE a.row
    BY <1>2, <1>5, <2>1, CacheAfterIs
  <2>3. orphans' = {}
    BY <1>5, <2>1 DEF OrphansAfter, Orphaned, ModelsCached
  <2>4. a.type # "destroyed" => a.row # NoRow
    BY <1>5, RawIsRow
  <2>5. ASSUME NEW id \in models'
        PROVE  cache'[Asked.table][id] # NoRow
    <3>1. id \in models /\ id \in TableIds[Asked.table]
          /\ ~(a.type = "destroyed" /\ a.table = Asked.table /\ id = a.id)
      BY <1>2, <2>1, <2>5 DEF ModelsAfter
    <3> QED
      BY <1>2, <2>2, <2>4, <3>1 DEF ModelsCached
  <2> QED
    BY <2>1, <2>3, <2>5 DEF ModelsCached
<1>6. ASSUME NEW i \in DOMAIN inbox, BatchIn(i)
      PROVE  ModelsCached'
  <2>1. PICK x : x = inbox[i].change
    OBVIOUS
  <2>2. inbox[i].op = "batch" /\ MessageOK(inbox[i])
    BY <1>6, Arrived DEF BatchIn
  <2>3. ChangeOK(x) /\ IsWhole(x)
    BY <2>1, <2>2 DEF MessageOK, IsChange
  <2>4. /\ x.table \in Tables /\ x.id \in TableIds[x.table]
        /\ x.type # "destroyed" => IsRaw(x.id, x.row)
    BY <2>3, WrittenRow DEF ChangeOK, IsWhole
  <2>5. ReplacesRaw(x) => cache[x.table][x.id] = NoRow
    BY <2>1, <2>2 DEF ReplacesRaw, BatchFits, NotSeen
  <2> QED
    BY <1>5, <1>6, <2>1, <2>4, <2>5 DEF BatchIn
<1>7. ASSUME NEW i \in DOMAIN inbox, ExternalIn(i), ~UNCHANGED identity
      PROVE  ModelsCached'
  <2>1. PICK a : a = AsApplied(inbox[i].change)
    OBVIOUS
  <2>2. inbox[i].op = "external" /\ MessageOK(inbox[i])
    BY <1>7, Arrived DEF ExternalIn
  <2>3. ChangeOK(inbox[i].change)
    BY <2>2 DEF MessageOK, IsChange
  <2>4. /\ a.table \in Tables /\ a.id \in TableIds[a.table]
        /\ a.type # "destroyed" => IsRaw(a.id, a.row)
        /\ ReplacesRaw(a) => cache[a.table][a.id] = NoRow
    BY <1>2, <2>1, <2>3, AppliedIs DEF ChangeOK, ReplacesRaw
  <2>5. Known(a) /\ UNCHANGED env
    BY <1>7, <2>1 DEF ExternalIn
  <2> QED
    BY <1>5, <1>7, <2>4, <2>5
<1>8. ASSUME NEW i \in DOMAIN inbox, AnswerIn(i) \/ ExternalIn(i) PROVE UNCHANGED env
  BY <1>8 DEF AnswerIn, ExternalIn
<1> QED
  BY <1>3, <1>4, <1>6, <1>7, <1>8
     DEF Step, Asking, Writing, Overtaking, Relaying, Reading, Committing

LEMMA OrderedSame ==
    ASSUME OrderedInv, UNCHANGED <<env, storage, inbox, relay, cache, partial>>, ordered
    PROVE  CacheStands' /\ AnswersStand' /\ ChangesStand'
<1>1. /\ Asked' = Asked /\ store' = store /\ inbox' = inbox /\ relay' = relay
      /\ cache' = cache /\ partial' = partial
  BY DEF env, storage, Asked
<1>2. CacheStands /\ AnswersStand /\ ChangesStand
  BY DEF OrderedInv
<1>3. CacheStands'
  BY <1>1, <1>2 DEF CacheStands
<1>4. AnswersStand'
  BY <1>1, <1>2 DEF AnswersStand
<1>5. ChangesStand'
  BY <1>1, <1>2 DEF ChangesStand
<1> QED
  BY <1>3, <1>4, <1>5

LEMMA OrderedOvertaking ==
    ASSUME Typed, OrderedInv, Overtaking
    PROVE  CacheStands' /\ AnswersStand' /\ ChangesStand'
<1>1. /\ ordered /\ Asked' = Asked /\ inbox' = inbox /\ cache' = cache /\ partial' = partial
      /\ CacheStands /\ AnswersStand /\ ChangesStand /\ IsSeq(relay) /\ CacheOK
      /\ EnvOK /\ Asked.table \in Tables
  BY AskedIs DEF Overtaking, env, identity, Asked, OrderedInv, Typed, RelayOK, EnvOK
<1>2. PICK x \in Changes(Stored, Unknown) :
        store' = Written(x) /\ relay' = Append(relay, [op |-> "external", change |-> x])
  BY DEF Overtaking
<1>3. /\ ChangeOK(x)
      /\ x.type = "created" => store[x.table][x.id] = NoRow
      /\ x.type # "created" => Stored[x.table][x.id] # NoRow
  BY WritersChange
<1>4. x.type = "updated" => Live(store[x.table][x.id])
  BY <1>3 DEF Stored, ChangeOK
<1>5. /\ \A c \in Columns : Says(x, c) =>
            Agrees(store', x.table, x.id, c, SanitizedRaw(x.row)[c])
      /\ \A t \in Tables : \A id \in TableIds[t] : \A c \in Columns : \A v :
            Agrees(store, t, id, c, v) =>
               Agrees(store', t, id, c, v) \/ (t = x.table /\ id = x.id /\ Sets(x, c))
  BY <1>2, <1>3, <1>4, CommitAgrees
<1>6. PICK m : m = [op |-> "external", change |-> x]
  OBVIOUS
<1>7. /\ \A j \in DOMAIN relay : j \in DOMAIN relay' /\ relay'[j] = relay[j] /\ j < Len(relay) + 1
      /\ \A j \in DOMAIN relay' : j \in DOMAIN relay \/ j = Len(relay) + 1
      /\ Len(relay) + 1 \in DOMAIN relay' /\ relay'[Len(relay) + 1] = m /\ Len(relay) \in Nat
  BY <1>1, <1>2, <1>6, Appended
<1>8. \A c \in Columns : Sets(x, c) => Touches(relay'[Len(relay) + 1], x.table, x.id, c)
  BY <1>6, <1>7 DEF Touches, IsChange
<1>9. ASSUME NEW t \in Tables, NEW id \in TableIds[t], NEW c \in Columns, NEW v, NEW p \in 0..Len(relay),
             ComesAfter(relay, p, t, id, c) \/ Agrees(store, t, id, c, v)
      PROVE  ComesAfter(relay', p, t, id, c) \/ Agrees(store', t, id, c, v)
  <2>1. CASE ComesAfter(relay, p, t, id, c)
    BY <1>7, <2>1 DEF ComesAfter
  <2>2. CASE t = x.table /\ id = x.id /\ Sets(x, c)
    <3>1. Len(relay) + 1 > p
      BY <1>7
    <3> QED
      BY <1>7, <1>8, <2>2, <3>1 DEF ComesAfter
  <2>3. CASE Agrees(store', t, id, c, v)
    BY <2>3
  <2> QED
    BY <1>5, <1>9, <2>1, <2>2, <2>3
<1>10. ASSUME NEW t \in Tables, NEW id \in TableIds[t], NEW c \in Columns, NEW v, NEW p,
              Stands(inbox, p, relay, store, t, id, c, v)
       PROVE  Stands(inbox', p, relay', store', t, id, c, v)
  <2>1. 0 \in 0..Len(relay)
    BY <1>7
  <2> QED
    BY <1>1, <1>9, <1>10, <2>1 DEF Stands
<1>11. CacheStands'
  BY <1>1, <1>10 DEF CacheStands
<1>12. AnswersStand'
  <2> SUFFICES ASSUME NEW p \in DOMAIN inbox, HasRows(inbox[p]), NEW k \in DOMAIN inbox[p].rows,
                      NEW c \in Columns
               PROVE  LET r == inbox[p].rows[k] IN
                      Stands(inbox', p, relay', store', Asked.table, r.id, c, SanitizedRaw(r)[c])
    BY <1>1 DEF AnswersStand
  <2>1. inbox[p].rows[k].id \in TableIds[Asked.table]
    BY DEF Typed, InboxOK, MessageOK
  <2> QED
    BY <1>1, <1>10, <2>1 DEF AnswersStand
<1>13. ASSUME NEW p \in DOMAIN inbox', IsChange(inbox'[p]), NEW c \in Columns,
              Says(inbox'[p].change, c)
       PROVE  LET y == inbox'[p].change IN
              Stands(inbox', p, relay', store', y.table, y.id, c, SanitizedRaw(y.row)[c])
  <2>1. ChangeOK(inbox[p].change) /\ p \in DOMAIN inbox
    BY <1>1, <1>13 DEF Typed, InboxOK, MessageOK
  <2> QED
    BY <1>1, <1>10, <1>13, <2>1 DEF ChangesStand, ChangeOK
<1>14. ASSUME NEW p \in DOMAIN relay', NEW c \in Columns, Says(relay'[p].change, c)
       PROVE  LET y == relay'[p].change IN
              \/ ComesAfter(relay', p, y.table, y.id, c)
              \/ Agrees(store', y.table, y.id, c, SanitizedRaw(y.row)[c])
  <2>1. CASE p \in DOMAIN relay
    <3>1. ChangeOK(relay[p].change) /\ p \in 0..Len(relay) /\ relay'[p] = relay[p]
      <4>1. DOMAIN relay = 1..Len(relay) /\ Len(relay) \in Nat
        BY <1>1, SeqDomain
      <4>2. ChangeOK(relay[p].change)
        BY <2>1 DEF Typed, RelayOK, MessageOK, IsChange
      <4> QED
        BY <1>7, <2>1, <4>1, <4>2
    <3>2. LET y == relay[p].change IN
          \/ ComesAfter(relay, p, y.table, y.id, c)
          \/ Agrees(store, y.table, y.id, c, SanitizedRaw(y.row)[c])
      BY <1>1, <1>14, <2>1, <3>1 DEF ChangesStand
    <3> QED
      BY <1>9, <3>1, <3>2 DEF ChangeOK
  <2>2. CASE p = Len(relay) + 1
    BY <1>5, <1>6, <1>7, <1>14, <2>2
  <2> QED
    BY <1>7, <2>1, <2>2
<1>15. ChangesStand'
  BY <1>13, <1>14 DEF ChangesStand
<1> QED
  BY <1>11, <1>12, <1>15

LEMMA OrderedRelaying ==
    ASSUME Typed, OrderedInv, Relaying, ordered
    PROVE  CacheStands' /\ AnswersStand' /\ ChangesStand'
<1>1. /\ Asked' = Asked /\ cache' = cache /\ partial' = partial /\ store' = store
      /\ CacheStands /\ AnswersStand /\ ChangesStand /\ IsSeq(relay) /\ IsSeq(inbox)
      /\ relay # <<>> /\ relay' = Tail(relay) /\ inbox' = Append(inbox, Head(relay))
  BY DEF Relaying, env, identity, storage, Asked, OrderedInv, Typed, RelayOK, InboxOK
<1>2. /\ \A j \in DOMAIN inbox : j \in DOMAIN inbox' /\ inbox'[j] = inbox[j]
      /\ \A j \in DOMAIN inbox' : j \in DOMAIN inbox \/ j = Len(inbox) + 1
      /\ inbox'[Len(inbox) + 1] = Head(relay)
      /\ Len(inbox) \in Nat /\ DOMAIN inbox = 1..Len(inbox)
  BY <1>1, Appended
<1>3. /\ 1 \in DOMAIN relay /\ Head(relay) = relay[1]
      /\ \A j \in DOMAIN relay' : j + 1 \in DOMAIN relay /\ relay'[j] = relay[j + 1]
      /\ \A j \in DOMAIN relay : j # 1 => j - 1 \in DOMAIN relay' /\ relay'[j - 1] = relay[j]
      /\ \A j \in DOMAIN relay' : j \in Nat \ {0}
      /\ \A j \in DOMAIN relay : j \in Nat \ {0}
  BY <1>1, Shifted
<1>4. Head(relay).op = "external"
  BY <1>3 DEF Typed, RelayOK
<1>5. \A p \in 0..Len(inbox) : \A t, id, c, v :
         Stands(inbox, p, relay, store, t, id, c, v) => Stands(inbox', p, relay', store', t, id, c, v)
  BY StandsRelay
<1>6. CacheStands'
  <2>1. 0 \in 0..Len(inbox)
    BY <1>2
  <2> QED
    BY <1>1, <1>5, <2>1 DEF CacheStands
<1>7. \A p \in DOMAIN inbox : p \in 0..Len(inbox)
  BY <1>2
<1>8. AnswersStand'
  <2> SUFFICES ASSUME NEW p \in DOMAIN inbox', HasRows(inbox'[p]), NEW k \in DOMAIN inbox'[p].rows,
                      NEW c \in Columns
               PROVE  LET r == inbox'[p].rows[k] IN
                      Stands(inbox', p, relay', store', Asked.table, r.id, c, SanitizedRaw(r)[c])
    BY <1>1 DEF AnswersStand
  <2>1. p \in DOMAIN inbox /\ inbox'[p] = inbox[p]
    BY <1>2, <1>4 DEF HasRows
  <2> QED
    BY <1>1, <1>5, <1>7, <2>1 DEF AnswersStand
<1>9. ASSUME NEW p \in Nat, NEW t, NEW id, NEW c, ComesAfter(relay, p + 1, t, id, c)
      PROVE  ComesAfter(relay', p, t, id, c)
  <2>1. PICK j \in DOMAIN relay : j > p + 1 /\ Touches(relay[j], t, id, c)
    BY <1>9 DEF ComesAfter
  <2>2. j # 1 /\ j - 1 > p
    BY <1>3, <2>1
  <2>3. j - 1 \in DOMAIN relay' /\ Touches(relay'[j - 1], t, id, c)
    BY <1>3, <2>1, <2>2
  <2> QED
    BY <2>2, <2>3 DEF ComesAfter
<1>10. ASSUME NEW p \in DOMAIN inbox', IsChange(inbox'[p]), NEW c \in Columns,
              Says(inbox'[p].change, c)
       PROVE  LET y == inbox'[p].change IN
              Stands(inbox', p, relay', store', y.table, y.id, c, SanitizedRaw(y.row)[c])
  <2>1. CASE p \in DOMAIN inbox
    BY <1>1, <1>2, <1>5, <1>7, <1>10, <2>1 DEF ChangesStand
  <2>2. CASE p = Len(inbox) + 1
    <3>1. inbox'[p] = relay[1]
      BY <1>2, <1>3, <2>2
    <3>2. LET y == relay[1].change IN
          \/ ComesAfter(relay, 0 + 1, y.table, y.id, c)
          \/ Agrees(store, y.table, y.id, c, SanitizedRaw(y.row)[c])
      BY <1>1, <1>3, <1>10, <3>1 DEF ChangesStand
    <3> QED
      BY <1>1, <1>9, <3>1, <3>2 DEF Stands
  <2> QED
    BY <1>2, <2>1, <2>2
<1>11. ASSUME NEW p \in DOMAIN relay', NEW c \in Columns, Says(relay'[p].change, c)
       PROVE  LET y == relay'[p].change IN
              \/ ComesAfter(relay', p, y.table, y.id, c)
              \/ Agrees(store', y.table, y.id, c, SanitizedRaw(y.row)[c])
  <2>1. p + 1 \in DOMAIN relay /\ relay'[p] = relay[p + 1] /\ p \in Nat
    BY <1>3
  <2>2. LET y == relay[p + 1].change IN
        \/ ComesAfter(relay, p + 1, y.table, y.id, c)
        \/ Agrees(store, y.table, y.id, c, SanitizedRaw(y.row)[c])
    BY <1>1, <1>11, <2>1 DEF ChangesStand
  <2> QED
    BY <1>1, <1>9, <2>1, <2>2
<1>12. ChangesStand'
  BY <1>10, <1>11 DEF ChangesStand
<1> QED
  BY <1>6, <1>8, <1>12

LEMMA OrderedReading ==
    ASSUME Typed, OrderedInv, Reading, ordered
    PROVE  CacheStands' /\ AnswersStand' /\ ChangesStand'
<1>1. /\ Asked' = Asked /\ cache' = cache /\ partial' = partial /\ store' = store
      /\ CacheStands /\ AnswersStand /\ ChangesStand /\ IsSeq(inbox) /\ relay' = relay
  BY DEF Reading, env, identity, storage, Asked, OrderedInv, Typed, InboxOK
<1>2. \A p, t, id, c, v :
         Stands(inbox, p, relay, store, t, id, c, v) => Stands(inbox', p, relay', store', t, id, c, v)
  BY StandsRead
<1>3. \A p \in DOMAIN inbox' :
         \/ p \in DOMAIN inbox /\ inbox'[p] = inbox[p]
         \/ ~IsChange(inbox'[p]) /\ Read(inbox'[p])
  <2>1. CASE inbox' = inbox
    BY <2>1
  <2>2. CASE \E m : inbox' = Append(inbox, m) /\ ~IsChange(m) /\ Read(m)
    <3>1. PICK m : inbox' = Append(inbox, m) /\ ~IsChange(m) /\ Read(m)
      BY <2>2
    <3> QED
      BY <1>1, <3>1, Appended
  <2> QED
    BY <2>1, <2>2 DEF Reading
<1>4. CacheStands'
  BY <1>1, <1>2 DEF CacheStands
<1>5. AnswersStand'
  <2> SUFFICES ASSUME NEW p \in DOMAIN inbox', HasRows(inbox'[p]), NEW k \in DOMAIN inbox'[p].rows,
                      NEW c \in Columns
               PROVE  LET r == inbox'[p].rows[k] IN
                      Stands(inbox', p, relay', store', Asked.table, r.id, c, SanitizedRaw(r)[c])
    BY <1>1 DEF AnswersStand
  <2>1. CASE p \in DOMAIN inbox /\ inbox'[p] = inbox[p]
    BY <1>1, <1>2, <2>1 DEF AnswersStand
  <2>2. CASE Read(inbox'[p])
    <3>1. PICK id \in TableIds[Asked.table] :
            /\ inbox'[p].rows[k] = store[Asked.table][id] /\ Live(inbox'[p].rows[k])
            /\ inbox'[p].rows[k].id = id
      BY <2>2 DEF Read
    <3> QED
      BY <1>1, <3>1 DEF Stands, Agrees
  <2> QED
    BY <1>3, <2>1, <2>2
<1>6. ChangesStand'
  BY <1>1, <1>2, <1>3 DEF ChangesStand
<1> QED
  BY <1>4, <1>5, <1>6

LEMMA OrderedCommitting ==
    ASSUME Typed, Alone, BatchFits, OrderedInv, Committing, ordered
    PROVE  CacheStands' /\ AnswersStand' /\ ChangesStand'
<1>1. /\ Asked' = Asked /\ cache' = cache /\ partial' = partial /\ relay' = relay
      /\ CacheStands /\ AnswersStand /\ ChangesStand /\ IsSeq(inbox) /\ IsSeq(queue)
      /\ queue # <<>> /\ Head(queue).op = "batch" /\ store' = Written(Head(queue).change)
      /\ inbox' = Append(inbox, Head(queue)) /\ Asked.table \in Tables /\ CacheOK
  BY AskedIs DEF Committing, env, identity, Asked, OrderedInv, Typed, InboxOK, QueueOK, EnvOK
<1>2. PICK x : x = Head(queue).change
  OBVIOUS
<1>3. 1 \in DOMAIN queue /\ Head(queue) = queue[1]
  BY <1>1, Shifted
<1>4. ChangeOK(x) /\ IsWhole(x)
  BY <1>1, <1>2, <1>3 DEF Typed, QueueOK, RequestOK
<1>5. /\ x.type = "created" => store[x.table][x.id] = NoRow
      /\ x.type = "updated" => Live(store[x.table][x.id])
  BY <1>1, <1>2, <1>3 DEF BatchFits
<1>6. /\ \A j \in DOMAIN inbox : ~IsChange(inbox[j])
      /\ relay = <<>>
  BY <1>1, <1>3 DEF Alone
<1>7. /\ \A c \in Columns : Says(x, c) =>
            Agrees(store', x.table, x.id, c, SanitizedRaw(x.row)[c])
      /\ \A t \in Tables : \A id \in TableIds[t] : \A c \in Columns : \A v :
            Agrees(store, t, id, c, v) =>
               Agrees(store', t, id, c, v) \/ (t = x.table /\ id = x.id /\ Sets(x, c))
  BY <1>1, <1>2, <1>4, <1>5, CommitAgrees
<1>8. /\ \A j \in DOMAIN inbox : j \in DOMAIN inbox' /\ inbox'[j] = inbox[j] /\ j < Len(inbox) + 1
      /\ \A j \in DOMAIN inbox' : j \in DOMAIN inbox \/ j = Len(inbox) + 1
      /\ Len(inbox) + 1 \in DOMAIN inbox' /\ inbox'[Len(inbox) + 1] = Head(queue)
      /\ Len(inbox) \in Nat /\ DOMAIN inbox = 1..Len(inbox)
  BY <1>1, Appended
<1>9. \A c : Sets(x, c) => Touches(inbox'[Len(inbox) + 1], x.table, x.id, c)
  BY <1>1, <1>2, <1>8 DEF Touches, IsChange
<1>10. ASSUME NEW t \in Tables, NEW id \in TableIds[t], NEW c \in Columns, NEW v, NEW p \in 0..Len(inbox),
              Stands(inbox, p, relay, store, t, id, c, v)
       PROVE  Stands(inbox', p, relay', store', t, id, c, v)
  <2>1. Agrees(store, t, id, c, v)
    BY <1>6, <1>10, StandsAlone
  <2>2. CASE Agrees(store', t, id, c, v)
    BY <2>2 DEF Stands
  <2>3. CASE t = x.table /\ id = x.id /\ Sets(x, c)
    <3>1. Len(inbox) + 1 > p
      BY <1>8
    <3> QED
      BY <1>8, <1>9, <2>3, <3>1 DEF Stands, ComesAfter
  <2> QED
    BY <1>7, <2>1, <2>2, <2>3
<1>11. \A p \in DOMAIN inbox : p \in 0..Len(inbox)
  BY <1>8
<1>12. CacheStands'
  <2>1. 0 \in 0..Len(inbox)
    BY <1>8
  <2> QED
    BY <1>1, <1>10, <2>1 DEF CacheStands
<1>13. AnswersStand'
  <2> SUFFICES ASSUME NEW p \in DOMAIN inbox', HasRows(inbox'[p]), NEW k \in DOMAIN inbox'[p].rows,
                      NEW c \in Columns
               PROVE  LET r == inbox'[p].rows[k] IN
                      Stands(inbox', p, relay', store', Asked.table, r.id, c, SanitizedRaw(r)[c])
    BY <1>1 DEF AnswersStand
  <2>1. p \in DOMAIN inbox /\ inbox'[p] = inbox[p]
    BY <1>1, <1>8 DEF HasRows
  <2>2. inbox[p].rows[k].id \in TableIds[Asked.table]
    BY <2>1 DEF Typed, InboxOK, MessageOK
  <2>3. Stands(inbox, p, relay, store, Asked.table, inbox[p].rows[k].id, c,
               SanitizedRaw(inbox[p].rows[k])[c])
    BY <1>1, <2>1 DEF AnswersStand
  <2> QED
    BY <1>1, <1>10, <1>11, <2>1, <2>2, <2>3
<1>14. ASSUME NEW p \in DOMAIN inbox', IsChange(inbox'[p]), NEW c \in Columns,
              Says(inbox'[p].change, c)
       PROVE  LET y == inbox'[p].change IN
              Stands(inbox', p, relay', store', y.table, y.id, c, SanitizedRaw(y.row)[c])
  <2>1. inbox'[p].change = x
    BY <1>2, <1>6, <1>8, <1>14
  <2> QED
    BY <1>7, <1>14, <2>1 DEF Stands
<1>15. \A p : p \notin DOMAIN relay'
  BY <1>1, <1>6, NoElements
<1>16. ChangesStand'
  BY <1>14, <1>15 DEF ChangesStand
<1> QED
  BY <1>12, <1>13, <1>16

LEMMA OrderedArrival ==
    ASSUME Typed, OrderedInv, ordered, NEW i \in DOMAIN inbox,
           AnswerIn(i) \/ BatchIn(i) \/ ExternalIn(i)
    PROVE  CacheStands' /\ AnswersStand' /\ ChangesStand'
<1>1. /\ Asked' = Asked /\ store' = store /\ relay' = relay
      /\ \E kinds : Arrives(i, kinds)
      /\ CacheStands /\ AnswersStand /\ ChangesStand /\ CacheOK /\ Asked.table \in Tables
  BY AskedIs DEF AnswerIn, BatchIn, ExternalIn, env, storage, Asked, OrderedInv, Typed, EnvOK
<1>2. PICK kinds : Arrives(i, kinds)
  BY <1>1
<1>3. /\ i = 1 /\ DOMAIN inbox = 1..Len(inbox) /\ Len(inbox) \in Nat
      /\ DOMAIN inbox' = 1..Len(inbox) - 1
      /\ \A j \in DOMAIN inbox' : \E k \in DOMAIN inbox :
            k # i /\ inbox'[j] = inbox[k] /\ (j < i => k = j) /\ (j >= i => k = j + 1)
      /\ MessageOK(inbox[i])
  BY <1>2, Arrived
<1>4. \A j \in DOMAIN inbox' : j + 1 \in DOMAIN inbox /\ inbox'[j] = inbox[j + 1] /\ j \in Nat
  BY <1>3
<1>5. \A q \in Nat : \A t, id, c, v :
         Stands(inbox, q + 1, relay, store, t, id, c, v) => Stands(inbox', q, relay', store', t, id, c, v)
  BY <1>1, <1>2, StandsArrive
<1>6. \A t, id, c, v :
         Stands(inbox, 0, relay, store, t, id, c, v) /\ ~Touches(inbox[1], t, id, c) =>
            Stands(inbox', 0, relay', store', t, id, c, v)
  BY <1>1, <1>2, StandsArrive
<1>7. AnswersStand'
  <2> SUFFICES ASSUME NEW p \in DOMAIN inbox', HasRows(inbox'[p]), NEW k \in DOMAIN inbox'[p].rows,
                      NEW c \in Columns
               PROVE  LET r == inbox'[p].rows[k] IN
                      Stands(inbox', p, relay', store', Asked.table, r.id, c, SanitizedRaw(r)[c])
    BY <1>1 DEF AnswersStand
  <2>1. p + 1 \in DOMAIN inbox /\ inbox'[p] = inbox[p + 1] /\ p \in Nat
    BY <1>4
  <2>2. Stands(inbox, p + 1, relay, store, Asked.table, inbox[p + 1].rows[k].id, c,
               SanitizedRaw(inbox[p + 1].rows[k])[c])
    BY <1>1, <2>1 DEF AnswersStand
  <2> QED
    BY <1>5, <2>1, <2>2
<1>8. ASSUME NEW p \in DOMAIN inbox', IsChange(inbox'[p]), NEW c \in Columns,
             Says(inbox'[p].change, c)
      PROVE  LET y == inbox'[p].change IN
             Stands(inbox', p, relay', store', y.table, y.id, c, SanitizedRaw(y.row)[c])
  <2>1. p + 1 \in DOMAIN inbox /\ inbox'[p] = inbox[p + 1] /\ p \in Nat
    BY <1>4
  <2>2. PICK y : y = inbox[p + 1].change
    OBVIOUS
  <2>3. Stands(inbox, p + 1, relay, store, y.table, y.id, c, SanitizedRaw(y.row)[c])
    BY <1>1, <1>8, <2>1, <2>2 DEF ChangesStand
  <2> QED
    BY <1>5, <2>1, <2>2, <2>3
<1>9. ChangesStand'
  BY <1>1, <1>8 DEF ChangesStand
<1>10. CASE AnswerIn(i)
  <2>1. partial' = partial
    BY <1>10 DEF AnswerIn
  <2>2. /\ ~IsChange(inbox[1])
        /\ \A t \in Tables : \A id \in TableIds[t] :
              \/ cache'[t][id] = cache[t][id]
              \/ /\ HasRows(inbox[1]) /\ t = Asked.table /\ cache[t][id] = NoRow
                 /\ \E k \in DOMAIN inbox[1].rows :
                       /\ inbox[1].rows[k].id = id
                       /\ cache'[t][id] = SanitizedRaw(inbox[1].rows[k])
    BY <1>3, <1>10, AnswerCache
  <2> SUFFICES ASSUME NEW t \in Tables, NEW id \in TableIds[t], cache'[t][id] # NoRow,
                      NEW c \in Columns, <<t, id>> \in partial => c = "id"
               PROVE  Stands(inbox', 0, relay', store', t, id, c, cache'[t][id][c])
    BY <1>7, <1>9, <2>1 DEF CacheStands
  <2>3. CASE cache'[t][id] = cache[t][id]
    <3>1. Stands(inbox, 0, relay, store, t, id, c, cache[t][id][c])
      BY <1>1, <2>3 DEF CacheStands
    <3>2. ~Touches(inbox[1], t, id, c)
      BY <2>2 DEF Touches
    <3> QED
      BY <1>6, <2>3, <3>1, <3>2
  <2>4. CASE HasRows(inbox[1]) /\ t = Asked.table /\ \E k \in DOMAIN inbox[1].rows :
                inbox[1].rows[k].id = id /\ cache'[t][id] = SanitizedRaw(inbox[1].rows[k])
    <3>1. PICK k \in DOMAIN inbox[1].rows :
            inbox[1].rows[k].id = id /\ cache'[t][id] = SanitizedRaw(inbox[1].rows[k])
      BY <2>4
    <3>2. Stands(inbox, 1, relay, store, t, id, c, SanitizedRaw(inbox[1].rows[k])[c])
      BY <1>1, <1>3, <2>4, <3>1 DEF AnswersStand
    <3>3. Stands(inbox, 0 + 1, relay, store, t, id, c, cache'[t][id][c])
      BY <3>1, <3>2
    <3> QED
      BY <1>5, <3>3
  <2> QED
    BY <2>2, <2>3, <2>4
<1>11. CASE BatchIn(i) \/ ExternalIn(i)
  <2>1. PICK x : x = inbox[i].change
    OBVIOUS
  <2>2. /\ ChangeOK(x) /\ IsChange(inbox[i])
        /\ \A t \in Tables : \A id \in TableIds[t] : ~(t = x.table /\ id = x.id) =>
              /\ cache'[t][id] = cache[t][id]
              /\ <<t, id>> \in partial' <=> <<t, id>> \in partial
        /\ \/ cache'[x.table][x.id] = NoRow
           \/ \A c \in Columns :
                 \/ Says(x, c) /\ cache'[x.table][x.id][c] = SanitizedRaw(x.row)[c]
                 \/ /\ ~Sets(x, c) /\ cache[x.table][x.id] # NoRow
                    /\ cache'[x.table][x.id][c] = cache[x.table][x.id][c]
                    /\ <<x.table, x.id>> \in partial' <=> <<x.table, x.id>> \in partial
                 \/ c # "id" /\ <<x.table, x.id>> \in partial'
    BY <1>11, <2>1, ChangeCache
  <2> SUFFICES ASSUME NEW t \in Tables, NEW id \in TableIds[t], cache'[t][id] # NoRow,
                      NEW c \in Columns, <<t, id>> \in partial' => c = "id"
               PROVE  Stands(inbox', 0, relay', store', t, id, c, cache'[t][id][c])
    BY <1>7, <1>9 DEF CacheStands
  <2>3. CASE ~(t = x.table /\ id = x.id)
    <3>1. cache'[t][id] = cache[t][id] /\ (<<t, id>> \in partial => c = "id")
      BY <2>2, <2>3
    <3>2. Stands(inbox, 0, relay, store, t, id, c, cache[t][id][c])
      BY <1>1, <3>1 DEF CacheStands
    <3>3. ~Touches(inbox[1], t, id, c)
      BY <1>3, <2>1, <2>3 DEF Touches
    <3> QED
      BY <1>6, <3>1, <3>2, <3>3
  <2>4. CASE t = x.table /\ id = x.id
    <3>1. CASE Says(x, c) /\ cache'[t][id][c] = SanitizedRaw(x.row)[c]
      <4>1. Stands(inbox, 1, relay, store, t, id, c, SanitizedRaw(x.row)[c])
        BY <1>1, <1>3, <2>1, <2>2, <2>4, <3>1 DEF ChangesStand
      <4>2. Stands(inbox, 0 + 1, relay, store, t, id, c, cache'[t][id][c])
        BY <3>1, <4>1
      <4> QED
        BY <1>5, <4>2
    <3>2. CASE /\ ~Sets(x, c) /\ cache[t][id] # NoRow
               /\ cache'[t][id][c] = cache[t][id][c]
               /\ <<t, id>> \in partial' <=> <<t, id>> \in partial
      <4>1. Stands(inbox, 0, relay, store, t, id, c, cache[t][id][c])
        BY <1>1, <3>2 DEF CacheStands
      <4>2. ~Touches(inbox[1], t, id, c)
        BY <1>3, <2>1, <3>2 DEF Touches
      <4> QED
        BY <1>6, <3>2, <4>1, <4>2
    <3> QED
      BY <2>2, <2>4, <3>1, <3>2
  <2> QED
    BY <2>3, <2>4
<1> QED
  BY <1>10, <1>11

LEMMA OrderedStep ==
    ASSUME Typed, Alone, BatchFits, OrderedInv, Step
    PROVE  OrderedInv'
<1> SUFFICES ASSUME ordered'
             PROVE  CacheStands' /\ AnswersStand' /\ ChangesStand' /\ ModelsCached'
  BY DEF OrderedInv
<1>1. UNCHANGED env
  BY DEF Step, Asking, Writing, Overtaking, Relaying, Reading, Committing, AnswerIn, BatchIn, ExternalIn
<1>2. ordered
  BY <1>1 DEF env
<1>3. ModelsCached'
  BY <1>2, ModelsCachedStep DEF OrderedInv
<1>4. CASE Asking \/ Writing
  BY <1>2, <1>3, <1>4, OrderedSame DEF Asking, Writing, identity
<1> QED
  BY <1>2, <1>3, <1>4, OrderedOvertaking, OrderedRelaying, OrderedReading, OrderedCommitting,
     OrderedArrival DEF Step

-----------------------------------------------------------------------------
(* Answers out of order: what is in the cache and in storage is the same.  *)

LEMMA WholeOver ==
    ASSUME NEW t \in Tables, NEW id \in TableIds[t], NEW row, IsWritten(t, id, row),
           DOMAIN row = Columns, NEW base, NEW o, o = Over(row, base)
    PROVE  SanitizedRaw(o) = row
<1>1. /\ o = [id |-> o.id, val |-> o.val, ref |-> o.ref, gone |-> o.gone]
      /\ \A c \in Columns : o[c] = IF c \in DOMAIN row THEN row[c] ELSE base[c]
  BY OverRow
<1>2. \A c \in Columns : o[c] = row[c]
  BY <1>1
<1>3. IsRaw(id, row) /\ SanitizedRaw(row) = row
  BY WrittenRow
<1>4. o["id"] = id /\ o["gone"] = FALSE
  BY <1>2, <1>3, RawIsRow DEF Columns
<1>5. IsRaw(id, o)
  BY <1>1, <1>3, <1>4 DEF IsRaw
<1>6. o = row
  BY <1>2, <1>3, <1>5, RawsEqual
<1> QED
  BY <1>3, <1>6

\* Answers out of order come of no other context.
LEMMA NoRelay ==
    ASSUME Typed, ~ordered
    PROVE  /\ relay = <<>>
           /\ \A i \in DOMAIN inbox : inbox[i].op # "external"
<1>1. \A i : i \notin DOMAIN relay
  BY DEF Typed, RelayOK, MessageOK
<1>2. relay # <<>> => 1 \in DOMAIN relay
  BY Shifted DEF Typed, RelayOK
<1> QED
  BY <1>1, <1>2 DEF Typed, InboxOK, MessageOK

LEMMA UnorderedReading ==
    ASSUME Typed, ~ordered, NoSurprise, Reading
    PROVE  NoSurprise'
<1>1. /\ IsSeq(inbox) /\ EnvOK /\ StoreOK /\ Asked' = Asked /\ cache' = cache /\ store' = store
  BY DEF Typed, InboxOK, Reading, env, storage, identity, Asked
<1>2. \A j \in DOMAIN inbox' : \/ j \in DOMAIN inbox /\ inbox'[j] = inbox[j]
                               \/ ~IsChange(inbox'[j]) /\ Read(inbox'[j])
  <2>1. CASE inbox' = inbox
    BY <2>1
  <2>2. CASE \E m : inbox' = Append(inbox, m) /\ ~IsChange(m) /\ Read(m)
    <3>1. PICK m : inbox' = Append(inbox, m) /\ ~IsChange(m) /\ Read(m)
      BY <2>2
    <3> QED
      BY <1>1, <3>1, Appended
  <2> QED
    BY <2>1, <2>2 DEF Reading
<1>3. \A j \in DOMAIN inbox : j \in DOMAIN inbox' /\ inbox'[j] = inbox[j]
  <2>1. CASE inbox' = inbox
    BY <2>1
  <2>2. CASE \E m : inbox' = Append(inbox, m)
    <3>1. PICK m : inbox' = Append(inbox, m)
      BY <2>2
    <3> QED
      BY <1>1, <3>1, Appended
  <2> QED
    BY <2>1, <2>2 DEF Reading
<1>4. \A t \in Tables : \A id \in TableIds[t] : Coming(t, id) => Coming(t, id)'
  BY <1>3 DEF Coming, IsChange
<1>5. ASSUME NEW t \in Tables, NEW id \in TableIds[t], Live(store'[t][id]), ~Coming(t, id)'
      PROVE  /\ cache'[t][id] # NoRow => cache'[t][id] = SanitizedRaw(store'[t][id])
             /\ t = (Asked.table)' /\ cache'[t][id] = NoRow =>
                   \A p \in DOMAIN inbox' : HasRows(inbox'[p]) =>
                       \A k \in DOMAIN inbox'[p].rows : inbox'[p].rows[k].id = id =>
                           SanitizedRaw(inbox'[p].rows[k]) = SanitizedRaw(store'[t][id])
  <2>1. Live(store[t][id]) /\ ~Coming(t, id)
    BY <1>1, <1>4, <1>5
  <2>2. cache'[t][id] # NoRow => cache'[t][id] = SanitizedRaw(store'[t][id])
    BY <1>1, <2>1 DEF NoSurprise
  <2>3. ASSUME t = Asked.table, cache[t][id] = NoRow, NEW p \in DOMAIN inbox', HasRows(inbox'[p]),
               NEW k \in DOMAIN inbox'[p].rows, inbox'[p].rows[k].id = id
        PROVE  SanitizedRaw(inbox'[p].rows[k]) = SanitizedRaw(store'[t][id])
    <3>1. CASE p \in DOMAIN inbox /\ inbox'[p] = inbox[p]
      BY <1>1, <2>1, <2>3, <3>1 DEF NoSurprise
    <3>2. CASE Read(inbox'[p])
      BY <1>1, <2>3, <3>2 DEF Read
    <3> QED
      BY <1>2, <3>1, <3>2
  <2> QED
    BY <1>1, <2>2, <2>3
<1>6. \A p \in DOMAIN inbox' : IsChange(inbox'[p]) => p \in DOMAIN inbox /\ inbox'[p] = inbox[p]
  BY <1>2
<1>7. \A p \in DOMAIN inbox' :
          IsChange(inbox'[p]) /\ Live(store'[inbox'[p].change.table][inbox'[p].change.id]) =>
              /\ inbox'[p].change.type # "destroyed"
              /\ inbox'[p].change.row =
                    SanitizedRaw(store'[inbox'[p].change.table][inbox'[p].change.id])
  BY <1>1, <1>6 DEF NoSurprise
<1> QED
  BY <1>5, <1>7 DEF NoSurprise, IsChange, HasRows

LEMMA UnorderedCommitting ==
    ASSUME Typed, ~ordered, Alone, NoSurprise, Committing
    PROVE  NoSurprise'
<1>1. /\ IsSeq(queue) /\ IsSeq(inbox) /\ Asked' = Asked /\ cache' = cache
      /\ queue # <<>> /\ Head(queue).op = "batch"
      /\ inbox' = Append(inbox, Head(queue)) /\ store \in AnyStorage
  BY DEF Typed, QueueOK, InboxOK, StoreOK, Committing, env, identity, Asked
<1>2. 1 \in DOMAIN queue /\ Head(queue) = queue[1]
  BY <1>1, Shifted
<1>3. \A j \in DOMAIN inbox : ~IsChange(inbox[j])
  BY <1>1, <1>2 DEF Alone
<1>4. PICK x : x = Head(queue).change
  OBVIOUS
<1>5. ChangeOK(x) /\ IsWhole(x) /\ store' = Written(x)
  BY <1>1, <1>2, <1>4 DEF Typed, QueueOK, RequestOK, Committing
<1>6. /\ \A j \in DOMAIN inbox : j \in DOMAIN inbox' /\ inbox'[j] = inbox[j]
      /\ \A j \in DOMAIN inbox' : j \in DOMAIN inbox \/ j = Len(inbox) + 1
      /\ inbox'[Len(inbox) + 1] = Head(queue) /\ Len(inbox) + 1 \in DOMAIN inbox'
  BY <1>1, Appended, AppendSeq
<1>7. /\ \A p \in DOMAIN inbox' : IsChange(inbox'[p]) => inbox'[p].change = x
      /\ \A p \in DOMAIN inbox' : HasRows(inbox'[p]) => p \in DOMAIN inbox
      /\ Coming(x.table, x.id)'
      /\ \A t, id : ~Coming(t, id)
  BY <1>1, <1>3, <1>4, <1>6 DEF IsChange, HasRows, Coming
<1>8. ASSUME NEW t \in Tables, NEW id \in TableIds[t], Live(store'[t][id]), ~Coming(t, id)'
      PROVE  /\ cache'[t][id] # NoRow => cache'[t][id] = SanitizedRaw(store'[t][id])
             /\ t = (Asked.table)' /\ cache'[t][id] = NoRow =>
                   \A p \in DOMAIN inbox' : HasRows(inbox'[p]) =>
                       \A k \in DOMAIN inbox'[p].rows : inbox'[p].rows[k].id = id =>
                           SanitizedRaw(inbox'[p].rows[k]) = SanitizedRaw(store'[t][id])
  <2>1. ~(t = x.table /\ id = x.id)
    BY <1>7, <1>8
  <2>2. store'[t][id] = store[t][id]
    BY <1>1, <1>5, <2>1, WrittenIs
  <2>3. Live(store[t][id]) /\ ~Coming(t, id)
    BY <1>7, <1>8, <2>2
  <2> QED
    BY <1>1, <1>6, <1>7, <2>2, <2>3 DEF NoSurprise
<1>9. ASSUME Live(store'[x.table][x.id])
      PROVE  x.type # "destroyed" /\ x.row = SanitizedRaw(store'[x.table][x.id])
  <2>1. PICK after : after = store'[x.table][x.id]
    OBVIOUS
  <2>2. /\ x.type = "created" => after = Over(x.row, NoRow)
        /\ x.type = "updated" =>
              after = IF store[x.table][x.id] = NoRow THEN NoRow
                      ELSE Over(x.row, store[x.table][x.id])
        /\ x.type # "destroyed"
    BY <1>1, <1>5, <1>9, <2>1, WrittenIs
  <2>3. after # NoRow
    BY <1>9, <2>1 DEF Live
  <2>4. PICK base : after = Over(x.row, base)
    BY <1>5, <2>2, <2>3 DEF ChangeOK
  <2>5. /\ x.table \in Tables /\ x.id \in TableIds[x.table]
        /\ IsWritten(x.table, x.id, x.row) /\ DOMAIN x.row = Columns
    BY <1>5, <2>2 DEF ChangeOK, IsWhole
  <2>6. SanitizedRaw(after) = x.row
    BY <2>4, <2>5, WholeOver
  <2> QED
    BY <2>1, <2>2, <2>6
<1> QED
  BY <1>7, <1>8, <1>9 DEF NoSurprise, IsChange, HasRows

LEMMA UnorderedArrival ==
    ASSUME Typed, ~ordered, Alone, NoSurprise, NEW i \in DOMAIN inbox,
           AnswerIn(i) \/ BatchIn(i)
    PROVE  NoSurprise'
<1>1. /\ Asked' = Asked /\ store' = store /\ \E kinds : Arrives(i, kinds)
      /\ Asked.table \in Tables
  BY AskedIs DEF AnswerIn, BatchIn, env, storage, Asked, Typed, EnvOK
<1>2. /\ \A j \in DOMAIN inbox' : \E k \in DOMAIN inbox : k # i /\ inbox'[j] = inbox[k]
      /\ \A k \in DOMAIN inbox : k # i => \E j \in DOMAIN inbox' : inbox'[j] = inbox[k]
  BY <1>1, Arrived
<1>a. ASSUME \A t \in Tables : \A id \in TableIds[t] : Live(store[t][id]) /\ ~Coming(t, id)' =>
          /\ cache'[t][id] # NoRow => cache'[t][id] = SanitizedRaw(store[t][id])
          /\ cache'[t][id] = NoRow => cache[t][id] = NoRow /\ ~Coming(t, id)
      PROVE  NoSurprise'
  <2>1. ASSUME NEW t \in Tables, NEW id \in TableIds[t], Live(store'[t][id]), ~Coming(t, id)'
        PROVE  /\ cache'[t][id] # NoRow => cache'[t][id] = SanitizedRaw(store'[t][id])
               /\ t = (Asked.table)' /\ cache'[t][id] = NoRow =>
                     \A p \in DOMAIN inbox' : HasRows(inbox'[p]) =>
                         \A k \in DOMAIN inbox'[p].rows : inbox'[p].rows[k].id = id =>
                             SanitizedRaw(inbox'[p].rows[k]) = SanitizedRaw(store'[t][id])
    <3>1. Live(store[t][id])
      BY <1>1, <2>1
    <3>2. ASSUME t = Asked.table, cache'[t][id] = NoRow, NEW p \in DOMAIN inbox', HasRows(inbox'[p]),
                 NEW k \in DOMAIN inbox'[p].rows, inbox'[p].rows[k].id = id
          PROVE  SanitizedRaw(inbox'[p].rows[k]) = SanitizedRaw(store'[t][id])
      <4>1. cache[t][id] = NoRow /\ ~Coming(t, id)
        BY <1>a, <2>1, <3>1, <3>2
      <4>2. PICK q \in DOMAIN inbox : inbox'[p] = inbox[q]
        BY <1>2
      <4> QED
        BY <1>1, <3>1, <3>2, <4>1, <4>2 DEF NoSurprise
    <3>3. cache'[t][id] # NoRow => cache'[t][id] = SanitizedRaw(store'[t][id])
      BY <1>1, <1>a, <2>1, <3>1
    <3> QED
      BY <1>1, <3>2, <3>3
  <2>2. \A p \in DOMAIN inbox' :
            IsChange(inbox'[p]) /\ Live(store'[inbox'[p].change.table][inbox'[p].change.id]) =>
                /\ inbox'[p].change.type # "destroyed"
                /\ inbox'[p].change.row =
                      SanitizedRaw(store'[inbox'[p].change.table][inbox'[p].change.id])
    BY <1>1, <1>2 DEF NoSurprise
  <2> QED
    BY <2>1, <2>2 DEF NoSurprise, IsChange, HasRows
<1>3. CASE AnswerIn(i)
  <2>1. /\ ~IsChange(inbox[i])
        /\ \A t \in Tables : \A id \in TableIds[t] :
              /\ cache[t][id] # NoRow => cache'[t][id] = cache[t][id]
              /\ \/ cache'[t][id] = cache[t][id]
                 \/ /\ HasRows(inbox[i]) /\ t = Asked.table /\ cache[t][id] = NoRow
                    /\ \E k \in DOMAIN inbox[i].rows :
                          /\ inbox[i].rows[k].id = id
                          /\ cache'[t][id] = SanitizedRaw(inbox[i].rows[k])
    BY <1>3, AnswerCache
  <2>2. \A t, id : Coming(t, id) => Coming(t, id)'
    BY <1>2, <2>1 DEF Coming, IsChange
  <2>3. ASSUME NEW t \in Tables, NEW id \in TableIds[t], Live(store[t][id]), ~Coming(t, id)
        PROVE  /\ cache'[t][id] # NoRow => cache'[t][id] = SanitizedRaw(store[t][id])
               /\ cache'[t][id] = NoRow => cache[t][id] = NoRow
    <3>1. CASE cache'[t][id] = cache[t][id]
      BY <2>3, <3>1 DEF NoSurprise
    <3>2. CASE /\ HasRows(inbox[i]) /\ t = Asked.table /\ cache[t][id] = NoRow
               /\ \E k \in DOMAIN inbox[i].rows :
                     /\ inbox[i].rows[k].id = id
                     /\ cache'[t][id] = SanitizedRaw(inbox[i].rows[k])
      BY <2>3, <3>2 DEF NoSurprise
    <3> QED
      BY <2>1, <3>1, <3>2
  <2> QED
    BY <1>a, <2>2, <2>3
<1>4. CASE BatchIn(i)
  <2>1. /\ inbox[i].op = "batch" /\ IsChange(inbox[i]) /\ MessageOK(inbox[i])
        /\ cache' = CacheAfter(inbox[i].change)
    BY <1>4, Arrived DEF BatchIn, IsChange, Known
  <2>2. PICK x : x = inbox[i].change
    OBVIOUS
  <2>3. \A k \in DOMAIN inbox : IsChange(inbox[k]) => k = i
    BY <2>1 DEF Alone
  <2>4. /\ x.table \in Tables /\ x.id \in TableIds[x.table] /\ ChangeOK(x)
    BY <2>1, <2>2 DEF MessageOK, ChangeOK
  <2>5. /\ \A t \in Tables : \A id \in TableIds[t] :
              ~(t = x.table /\ id = x.id) => cache'[t][id] = cache[t][id]
        /\ cache'[x.table][x.id] = IF x.type = "destroyed" THEN NoRow ELSE x.row
    BY <2>1, <2>2, <2>4, CacheAfterIs DEF Typed
  <2>6. ASSUME NEW t \in Tables, NEW id \in TableIds[t], Live(store[t][id])
        PROVE  /\ cache'[t][id] # NoRow => cache'[t][id] = SanitizedRaw(store[t][id])
               /\ cache'[t][id] = NoRow => cache[t][id] = NoRow /\ ~Coming(t, id)
    <3>1. CASE t = x.table /\ id = x.id
      <4>1. x.type # "destroyed" /\ x.row = SanitizedRaw(store[t][id])
        BY <2>1, <2>2, <2>6, <3>1 DEF NoSurprise
      <4>2. IsRaw(id, SanitizedRaw(store[t][id]))
        BY <2>6, StoredRow DEF Typed, StoreOK
      <4>3. SanitizedRaw(store[t][id]) # NoRow
        BY <4>2, RawIsRow
      <4> QED
        BY <2>5, <3>1, <4>1, <4>3
    <3>2. CASE ~(t = x.table /\ id = x.id)
      <4>1. ~Coming(t, id)
        BY <2>2, <2>3, <3>2 DEF Coming
      <4> QED
        BY <2>5, <2>6, <3>2, <4>1 DEF NoSurprise
    <3> QED
      BY <3>1, <3>2
  <2> QED
    BY <1>a, <2>6
<1> QED
  BY <1>3, <1>4

LEMMA UnorderedStep ==
    ASSUME Typed, Alone, UnorderedInv, Step
    PROVE  UnorderedInv'
<1>1. ordered' = ordered
  BY DEF Step, Asking, Writing, Overtaking, Relaying, Reading, Committing, AnswerIn, BatchIn,
         ExternalIn, env
<1> SUFFICES ASSUME ~ordered PROVE NoSurprise'
  BY <1>1 DEF UnorderedInv
<1>2. NoSurprise /\ relay = <<>> /\ \A i \in DOMAIN inbox : inbox[i].op # "external"
  BY NoRelay DEF UnorderedInv
<1>3. CASE Asking \/ Writing
  <2>1. Asked' = Asked /\ cache' = cache /\ store' = store /\ inbox' = inbox
    BY <1>3 DEF Asking, Writing, env, storage, identity, Asked
  <2> QED
    BY <1>2, <2>1 DEF NoSurprise, Coming
<1>4. CASE Overtaking \/ Relaying
  BY <1>2, <1>4 DEF Overtaking, Relaying
<1>5. CASE Reading
  BY <1>2, <1>5, UnorderedReading
<1>6. CASE Committing
  BY <1>2, <1>6, UnorderedCommitting
<1>7. ASSUME NEW i \in DOMAIN inbox, ExternalIn(i) PROVE FALSE
  <2>1. inbox[i].op = "external"
    BY <1>7, Arrived DEF ExternalIn
  <2> QED
    BY <1>2, <2>1
<1>8. ASSUME NEW i \in DOMAIN inbox, AnswerIn(i) \/ BatchIn(i) PROVE NoSurprise'
  BY <1>2, <1>8, UnorderedArrival
<1> QED
  BY <1>3, <1>4, <1>5, <1>6, <1>7, <1>8 DEF Step

-----------------------------------------------------------------------------
(* The observer.                                                           *)

LEMMA LeavesIs ==
    ASSUME NEW o, ObserverOK(o), NEW r, r = Leaves(o)
    PROVE  /\ r.generation = o.generation /\ r.asOf = o.asOf /\ r.latest = o.latest
           /\ o.listeners = 2 => /\ r.listeners = 1 /\ r.value = o.value
                                 /\ r.previous = o.previous /\ r.failed = o.failed
                                 /\ r.missed = o.missed /\ r.kept = o.kept
           /\ o.listeners # 2 => /\ r.listeners = 0 /\ r.value = Loading /\ r.previous = <<>>
                                 /\ r.failed = FALSE /\ r.missed = FALSE
<1>1. CASE o.listeners = 2
  <2>1. r = [listeners |-> 1, value |-> o.value, latest |-> o.latest,
             generation |-> o.generation, previous |-> o.previous, asOf |-> o.asOf,
             failed |-> o.failed, missed |-> o.missed, kept |-> o.kept]
    BY <1>1 DEF Leaves, ObserverOK
  <2> QED
    BY <1>1, <2>1
<1>2. CASE o.listeners # 2
  <2>1. PICK loading : loading = Loading
    OBVIOUS
  <2>2. r = [o EXCEPT !.listeners = 0, !.value = loading, !.previous = <<>>,
                      !.missed = FALSE, !.failed = FALSE, !.kept = FALSE]
    BY <1>2, <2>1 DEF Leaves
  <2>3. r = [listeners |-> 0, value |-> loading, latest |-> o.latest,
             generation |-> o.generation, previous |-> <<>>, asOf |-> o.asOf,
             failed |-> FALSE, missed |-> FALSE, kept |-> FALSE]
    BY <2>2 DEF ObserverOK
  <2> QED
    BY <1>2, <2>1, <2>3
<1> QED
  BY <1>1, <1>2

Success(data) == Shown(data, FALSE)
Failure(data) == Shown(data, TRUE)

LEMMA TakenIs ==
    ASSUME ObserverOK(observer), NEW result, NEW asOf, NEW r, r = Taken(result, asOf)
    PROVE  /\ r.generation = observer.generation /\ r.listeners = observer.listeners
           /\ r.missed = observer.missed /\ r.asOf = asOf /\ ~r.failed
           /\ Differs(observer.previous, result) =>
                 /\ r.previous = <<result>> /\ r.latest = result
                 /\ r.value = Success(result)
           /\ ~Differs(observer.previous, result) =>
                 /\ r.previous = observer.previous /\ r.latest = observer.latest
                 /\ r.value = observer.value
<1>1. PICK t : t = [observer EXCEPT !.asOf = asOf, !.failed = FALSE,
                                    !.kept = observer.value.error]
  OBVIOUS
<1>2. t = [listeners |-> observer.listeners, value |-> observer.value,
           latest |-> observer.latest, generation |-> observer.generation,
           previous |-> observer.previous, asOf |-> asOf, failed |-> FALSE,
           missed |-> observer.missed, kept |-> observer.value.error]
  BY <1>1 DEF ObserverOK
<1>3. PICK shown, one : shown = Success(result) /\ one = <<result>>
  OBVIOUS
<1>4. r = IF Differs(observer.previous, result)
          THEN [t EXCEPT !.previous = one, !.latest = result, !.kept = FALSE, !.value = shown]
          ELSE t
  BY <1>1, <1>3 DEF Taken, Success
<1>5. CASE Differs(observer.previous, result)
  <2>1. r = [listeners |-> observer.listeners, value |-> shown, latest |-> result,
             generation |-> observer.generation, previous |-> one, asOf |-> asOf,
             failed |-> FALSE, missed |-> observer.missed, kept |-> FALSE]
    BY <1>2, <1>4, <1>5
  <2> QED
    BY <1>3, <1>5, <2>1
<1>6. CASE ~Differs(observer.previous, result)
  <2>1. r = t
    BY <1>4, <1>6
  <2> QED
    BY <1>2, <1>6, <2>1
<1> QED
  BY <1>5, <1>6

LEMMA TakenKeeps ==
    ASSUME ObserverOK(observer), NEW result, NEW asOf, NEW r, r = Taken(result, asOf)
    PROVE  r.kept = IF Differs(observer.previous, result) THEN FALSE ELSE observer.value.error
<1>1. PICK t, shown, one : /\ t = [observer EXCEPT !.asOf = asOf, !.failed = FALSE,
                                                 !.kept = observer.value.error]
                           /\ shown = Success(result) /\ one = <<result>>
  OBVIOUS
<1>2. t = [listeners |-> observer.listeners, value |-> observer.value,
           latest |-> observer.latest, generation |-> observer.generation,
           previous |-> observer.previous, asOf |-> asOf, failed |-> FALSE,
           missed |-> observer.missed, kept |-> observer.value.error]
  BY <1>1 DEF ObserverOK
<1>3. r = IF Differs(observer.previous, result)
          THEN [t EXCEPT !.previous = one, !.latest = result, !.kept = FALSE, !.value = shown]
          ELSE t
  BY <1>1 DEF Taken, Success
<1>4. CASE Differs(observer.previous, result)
  <2>1. r.kept = FALSE
    BY <1>2, <1>3, <1>4
  <2> QED
    BY <1>4, <2>1
<1>5. CASE ~Differs(observer.previous, result)
  <2>1. r.kept = observer.value.error
    BY <1>2, <1>3, <1>5
  <2> QED
    BY <1>5, <2>1
<1> QED
  BY <1>4, <1>5

LEMMA ReportedIs ==
    ASSUME ObserverOK(observer), NEW asOf, NEW r, r = Reported(asOf)
    PROVE  /\ r.generation = observer.generation /\ r.listeners = observer.listeners
           /\ r.missed = observer.missed /\ r.asOf = asOf /\ r.failed
           /\ r.previous = observer.previous /\ r.latest = observer.latest
           /\ r.value = Failure(observer.latest)
<1>1. PICK shown : shown = Failure(observer.latest)
  OBVIOUS
<1>2. r = [observer EXCEPT !.asOf = asOf, !.failed = TRUE, !.kept = FALSE, !.value = shown]
  BY <1>1 DEF Reported, Failure
<1>3. r = [listeners |-> observer.listeners, value |-> shown,
           latest |-> observer.latest, generation |-> observer.generation,
           previous |-> observer.previous, asOf |-> asOf, failed |-> TRUE,
           missed |-> observer.missed, kept |-> FALSE]
  BY <1>2 DEF ObserverOK
<1> QED
  BY <1>1, <1>3

LEMMA ShownIs ==
    ASSUME NEW data, NEW error
    PROVE  LET s == Shown(data, error) IN
           s.data = data /\ s.loading = FALSE /\ s.error = error
BY DEF Shown

\* With no change on its way, what is in the cache and in storage is the same.
LEMMA CacheFresh ==
    ASSUME Typed, OrderedInv, UnorderedInv, ~NewsComing,
           NEW id \in TableIds[Asked.table],
           Live(store[Asked.table][id]), cache[Asked.table][id] # NoRow,
           <<Asked.table, id>> \notin partial
    PROVE  cache[Asked.table][id] = SanitizedRaw(store[Asked.table][id])
<1>1. Asked.table \in Tables /\ Asked.table \in Asked.tables /\ store \in AnyStorage
  BY AskedIs DEF Typed, EnvOK, StoreOK
<1>2. PICK t : t = Asked.table
  OBVIOUS
<1>3. CASE ordered
  <2>1. ASSUME NEW c \in Columns
        PROVE  cache[t][id][c] = SanitizedRaw(store[t][id])[c]
    <3>1. Stands(inbox, 0, relay, store, t, id, c, cache[t][id][c])
      BY <1>1, <1>2, <1>3 DEF OrderedInv, CacheStands
    <3>2. \A s : ComesAfter(s, 0, t, id, c) => News(s)
      BY <1>1, <1>2 DEF ComesAfter, Touches, News
    <3> QED
      BY <3>1, <3>2 DEF Stands, NewsComing, Agrees
  <2>2. IsRaw(id, cache[t][id]) /\ IsRaw(id, SanitizedRaw(store[t][id]))
    BY <1>1, <1>2, StoredRow DEF Typed, CacheOK
  <2> QED
    BY <1>2, <2>1, <2>2, RawsEqual
<1>4. CASE ~ordered
  <2>1. ~Coming(t, id)
    BY <1>1, <1>2 DEF Coming, NewsComing, News
  <2> QED
    BY <1>1, <1>2, <1>4, <2>1 DEF UnorderedInv, NoSurprise
<1> QED
  BY <1>3, <1>4

\* The rows of an answer that is right come out as what is in storage.
LEMMA ResolvedRight ==
    ASSUME Typed, OrderedInv, UnorderedInv, ~NewsComing, query.kind = "records",
           \A record \in partial : record[1] # Asked.table,
           NEW rows, rows = Asks(store, Asked)
    PROVE  Resolved(rows) = Expected
<1>1. Asked.table \in Tables /\ store \in AnyStorage
  BY AskedIs DEF Typed, EnvOK, StoreOK
<1>2. PICK t : t = Asked.table
  OBVIOUS
<1>3. ASSUME NEW i \in DOMAIN rows
      PROVE  (IF cache[t][rows[i].id] # NoRow THEN cache[t][rows[i].id] ELSE SanitizedRaw(rows[i]))
                = SanitizedRaw(rows[i])
  <2>1. PICK id \in TableIds[t] : rows[i] = store[t][id] /\ Live(store[t][id])
    BY <1>1, <1>2, AskedIs DEF Typed, EnvOK
  <2>2. rows[i].id = id
    <3>1. IsRaw(id, rows[i])
      BY <1>1, <1>2, <2>1, StoredRow
    <3> QED
      BY <3>1, RawIsRow
  <2>3. <<t, id>> \notin partial
    BY <1>2
  <2>4. cache[t][id] # NoRow => cache[t][id] = SanitizedRaw(rows[i])
    BY <1>2, <2>1, <2>3, CacheFresh
  <2> QED
    BY <2>2, <2>4
<1>4. Resolved(rows) = [i \in DOMAIN rows |-> SanitizedRaw(rows[i])]
  BY <1>2, <1>3 DEF Resolved
<1> QED
  BY <1>4 DEF Expected

-----------------------------------------------------------------------------
(* The ways the observer goes on.                                          *)

\* It hears nothing new, and neither does storage.
Undisturbed ==
    /\ UNCHANGED env
    /\ observer'.value = observer.value /\ observer'.latest = observer.latest
    /\ observer'.previous = observer.previous /\ observer'.generation = observer.generation
    /\ observer'.failed = observer.failed /\ observer'.missed = observer.missed
    /\ observer'.kept = observer.kept
    /\ observer'.listeners > 0 <=> observer.listeners > 0
    /\ observer'.listeners = 0 <=> observer.listeners = 0
    /\ NewsComing => NewsComing'
    /\ NewsComing' \/ Asks(store', Asked) = Asks(store, Asked)
    /\ Excused => Excused'
    /\ AnswerComing => AnswerComing'
    /\ \A p \in DOMAIN inbox' :
          \/ \E q \in DOMAIN inbox : inbox'[p] = inbox[q]
          \/ ~IsAnswer(inbox'[p]) \/ ~inbox'[p].ok
          \/ IF query.kind = "count" THEN inbox'[p].count = Len(Asks(store', Asked))
             ELSE inbox'[p].rows = Asks(store', Asked)

LEMMA UndisturbedIsRight ==
    ASSUME ObserverInv, Undisturbed
    PROVE  ObserverInv'
<1>1. query' = query /\ Asked' = Asked /\ Loading' = Loading
  BY DEF Undisturbed, env, Asked, Loading, Nothing
<1>2. Emitted'
  BY <1>1 DEF ObserverInv, Emitted, Undisturbed
<1>3. NewestIsRight'
  <2> SUFFICES ASSUME observer'.listeners > 0, ~observer'.missed, ~NewsComing',
                      NEW p \in DOMAIN inbox', Newest(inbox[p])', inbox'[p].ok
               PROVE  IF query.kind = "count" THEN inbox'[p].count = Len(Asks(store', Asked))
                      ELSE inbox'[p].rows = Asks(store', Asked)
    BY <1>1 DEF NewestIsRight
  <2>1. observer.listeners > 0 /\ ~observer.missed /\ ~NewsComing
        /\ Asks(store', Asked) = Asks(store, Asked)
    BY DEF Undisturbed
  <2>2. CASE \E q \in DOMAIN inbox : inbox'[p] = inbox[q]
    <3>1. PICK q \in DOMAIN inbox : inbox'[p] = inbox[q]
      BY <2>2
    <3>2. Newest(inbox[q])
      BY <3>1 DEF Newest, IsAnswer, Undisturbed
    <3> QED
      BY <2>1, <3>1, <3>2 DEF ObserverInv, NewestIsRight
  <2>3. IsAnswer(inbox'[p])
    BY DEF Newest, IsAnswer
  <2> QED
    BY <2>2, <2>3 DEF Undisturbed
<1>4. ShownIsRight'
  <2> SUFFICES ASSUME observer'.listeners > 0, ~Excused', ~NewsComing', ~AnswerComing'
               PROVE  UpToDate'
    BY DEF ShownIsRight
  <2>1. observer.listeners > 0 /\ UpToDate /\ observer.listeners # 0 /\ observer'.listeners # 0
    <3>1. observer.listeners > 0 => observer.listeners # 0
      OBVIOUS
    <3>2. observer'.listeners > 0 => observer'.listeners # 0
      OBVIOUS
    <3> QED
      BY <3>1, <3>2 DEF Undisturbed, ObserverInv, ShownIsRight
  <2>2. Asks(store', Asked) = Asks(store, Asked)
    BY DEF Undisturbed
  <2>3. Expected' = Expected
    BY <1>1, <2>2 DEF Expected, SanitizedRaw, SanitizeValue, NullValue
  <2>4. \A data : Shown(data, TRUE)' = Shown(data, TRUE)
    BY DEF Shown
  <2> QED
    BY <1>1, <2>1, <2>3 DEF UpToDate, Undisturbed, Shown
<1> QED
  BY <1>2, <1>3, <1>4 DEF ObserverInv

\* Nobody observes.
LEMMA IdleIsRight ==
    ASSUME observer'.listeners = 0, Emitted'
    PROVE  ObserverInv'
BY DEF ObserverInv, NewestIsRight, ShownIsRight

\* It fetches again.
LEMMA RefetchedIsRight ==
    ASSUME Typed, ObserverInv, UNCHANGED env, version' = version,
           NEW o, ObserverOK(o), o.generation = observer.generation, o.listeners > 0,
           o.previous # <<>> => /\ o.previous = <<o.latest>>
                                /\ o.value = Shown(o.latest, o.value.error),
           observer' = Refetched(o), PostFetch(queue),
           \A p \in DOMAIN inbox' : \E q \in DOMAIN inbox : inbox'[p] = inbox[q]
    PROVE  ObserverInv'
<1>1. query' = query /\ Asked' = Asked /\ Loading' = Loading /\ Refused' = Refused
  BY DEF env, Asked, Loading, Nothing, Refused
<1>2. /\ observer'.listeners = o.listeners /\ observer'.latest = o.latest
      /\ observer'.previous = o.previous /\ observer'.failed = Refused
      /\ observer'.value = IF Refused THEN Shown(o.latest, TRUE) ELSE o.value
      /\ o.listeners \in 0..2
  BY RefetchedIs DEF ObserverOK
<1>3. \A p \in DOMAIN inbox' : ~Newest(inbox[p])'
  <2>1. \A q \in DOMAIN inbox : ~Newest(inbox[q])' \/ MessageOK(inbox[q])
    BY DEF Typed, InboxOK
  <2>2. \A m : MessageOK(m) => ~Newest(m)'
    BY PostedIs
  <2> QED
    BY <2>2 DEF Typed, InboxOK
<1>4. ~Refused => AnswerComing'
  BY PostedIs DEF AnswerComing
<1>5. Emitted'
  <2>1. observer'.listeners # 0
    BY <1>2
  <2>3. observer'.previous # <<>> =>
          observer'.value = Shown(observer'.latest, observer'.value.error)
    <3>1. CASE Refused
      <4>1. observer'.value = Shown(o.latest, TRUE) /\ Shown(o.latest, TRUE).error = TRUE
        BY <1>2, <3>1, ShownIs
      <4> QED
        BY <1>2, <4>1
    <3>2. CASE ~Refused
      BY <1>2, <3>2
    <3> QED
      BY <3>1, <3>2
  <2> QED
    BY <1>2, <2>1, <2>3 DEF Emitted
<1>6. NewestIsRight'
  BY <1>3 DEF NewestIsRight
<1>7. ShownIsRight'
  <2>1. observer'.listeners # 0
    BY <1>2
  <2> QED
    BY <1>1, <1>2, <1>4, <2>1 DEF ShownIsRight, UpToDate, Shown
<1> QED
  BY <1>5, <1>6, <1>7 DEF ObserverInv

-----------------------------------------------------------------------------
(* The observer, step by step.                                             *)

LEMMA NewsAppended ==
    ASSUME NEW s, IsSeq(s), NEW e, NEW r, r = Append(s, e)
    PROVE  /\ News(s) => News(r)
           /\ IsChange(e) /\ e.change.table \in Asked.tables => News(r)
<1>1. /\ \A i \in DOMAIN s : i \in DOMAIN r /\ r[i] = s[i]
      /\ Len(s) + 1 \in DOMAIN r /\ r[Len(s) + 1] = e
  BY Appended
<1> QED
  BY <1>1 DEF News

\* A message that says nothing to the observer.
LEMMA DroppedIsRight ==
    ASSUME Typed, ObserverInv, UNCHANGED <<env, storage, queue, relay>>,
           NEW i \in DOMAIN inbox, NEW kinds, Arrives(i, kinds), observer' = observer,
           ~Newest(inbox[i]), Excused => Excused',
           IsChange(inbox[i]) => inbox[i].change.table \notin Asked.tables
    PROVE  ObserverInv'
<1>1. /\ \A j \in DOMAIN inbox' : \E k \in DOMAIN inbox : k # i /\ inbox'[j] = inbox[k]
      /\ \A k \in DOMAIN inbox : k # i => \E j \in DOMAIN inbox' : inbox'[j] = inbox[k]
  BY Arrived
<1>2. Asked' = Asked /\ store' = store
  BY DEF env, storage, Asked
<1>3. NewsComing => NewsComing'
  <2>1. News(inbox) => News(inbox)'
    <3> SUFFICES ASSUME NEW j \in DOMAIN inbox, IsChange(inbox[j]),
                        inbox[j].change.table \in Asked.tables
                 PROVE  News(inbox)'
      BY DEF News
    <3>1. PICK k \in DOMAIN inbox' : inbox'[k] = inbox[j]
      BY <1>1
    <3> QED
      BY <1>2, <3>1 DEF News, IsChange
  <2> QED
    BY <1>2, <2>1 DEF NewsComing, News, IsChange
<1>4. AnswerComing => AnswerComing'
  <2>1. ASSUME NEW j \in DOMAIN inbox, Newest(inbox[j]) PROVE AnswerComing'
    <3>1. PICK k \in DOMAIN inbox' : inbox'[k] = inbox[j]
      BY <1>1, <2>1
    <3> QED
      BY <2>1, <3>1 DEF AnswerComing, Newest, IsAnswer
  <2>2. ASSUME NEW j \in DOMAIN queue, Newest(queue[j]) PROVE AnswerComing'
    BY <2>2 DEF AnswerComing, Newest, IsAnswer
  <2> QED
    BY <2>1, <2>2 DEF AnswerComing
<1> QED
  BY <1>1, <1>2, <1>3, <1>4, UndisturbedIsRight DEF Undisturbed

\* A change is announced.
LEMMA AnnouncedIsRight ==
    ASSUME Typed, ObserverInv, UNCHANGED <<env, storage, relay>>,
           NEW i \in DOMAIN inbox, NEW kinds, Arrives(i, kinds), IsChange(inbox[i]),
           NEW x, x.table = inbox[i].change.table, Notify(x),
           \A record : record[1] # x.table => (record \in partial' <=> record \in partial)
    PROVE  ObserverInv'
<1>1. \A j \in DOMAIN inbox' : \E k \in DOMAIN inbox : inbox'[j] = inbox[k]
  BY Arrived
<1>2. /\ ObserverOK(observer) /\ observer.listeners \in 0..2 /\ version' = version
      /\ Asked' = Asked /\ query' = query /\ Loading' = Loading /\ UNCHANGED env
      /\ Asked.table \in Asked.tables
  BY AskedIs DEF Typed, ObserverOK, storage, env, Asked, Loading, Nothing, EnvOK
<1>3. CASE observer.listeners > 0 /\ x.table \in Asked.tables
  <2>1. PICK o : o = Forgetting(x)
    OBVIOUS
  <2>2. observer' = Refetched(o) /\ PostFetch(queue)
    BY <1>3, <2>1 DEF Notify
  <2>3. /\ ObserverOK(o) /\ o.listeners = observer.listeners
        /\ o.generation = observer.generation /\ o.latest = observer.latest
        /\ o.value = observer.value /\ o.previous \in {observer.previous, <<>>}
    BY <1>2, <2>1, ForgettingIs
  <2>4. o.previous # <<>> =>
           /\ o.previous = <<o.latest>>
           /\ o.value = Shown(o.latest, o.value.error)
    BY <2>3 DEF ObserverInv, Emitted
  <2> QED
    BY <1>1, <1>2, <1>3, <2>2, <2>3, <2>4, RefetchedIsRight
<1>4. CASE ~(observer.listeners > 0 /\ x.table \in Asked.tables)
  <2>1. observer' = observer /\ queue' = queue
    BY <1>4 DEF Notify
  <2>2. CASE observer.listeners = 0
    <3>1. Emitted'
      BY <1>2, <2>1 DEF ObserverInv, Emitted
    <3> QED
      BY <2>1, <2>2, <3>1, IdleIsRight
  <2>3. CASE x.table \notin Asked.tables
    <3>1. Excused => Excused'
      BY <1>2, <2>1, <2>3 DEF Excused
    <3>2. ~Newest(inbox[i])
      BY DEF Newest, IsAnswer, IsChange
    <3> QED
      BY <2>1, <2>3, <3>1, <3>2, DroppedIsRight
  <2> QED
    BY <1>2, <1>4, <2>2, <2>3
<1> QED
  BY <1>3, <1>4

LEMMA PartialAfterIs ==
    ASSUME NEW x, partial' = PartialAfter(x)
    PROVE  \A record : record[1] # x.table => (record \in partial' <=> record \in partial)
<1>1. <<x.table, x.id>>[1] = x.table
  OBVIOUS
<1> QED
  BY <1>1 DEF PartialAfter

\* An answer that is wanted.
LEMMA TakenIsRight ==
    ASSUME Typed, OrderedInv, UnorderedInv, ObserverInv,
           UNCHANGED <<env, storage, partial, queue, relay>>,
           NEW i \in DOMAIN inbox, NEW kinds, Arrives(i, kinds),
           Newest(inbox[i]), observer.listeners > 0,
           IF inbox[i].ok
           THEN observer' = Taken(IF query.kind = "count" THEN inbox[i].count
                                  ELSE Resolved(inbox[i].rows), inbox[i].asOf)
           ELSE observer' = Reported(inbox[i].asOf)
    PROVE  ObserverInv'
<1>1. /\ \A j \in DOMAIN inbox' : \E k \in DOMAIN inbox : k # i /\ inbox'[j] = inbox[k]
      /\ \A k \in DOMAIN inbox : k # i => \E j \in DOMAIN inbox' : inbox'[j] = inbox[k]
  BY Arrived
<1>2. /\ ObserverOK(observer) /\ Asked' = Asked /\ store' = store /\ query' = query
      /\ Loading' = Loading
  BY DEF Typed, env, storage, Asked, Loading, Nothing
<1>3. NewsComing => NewsComing'
  <2>0. ~IsChange(inbox[i])
    BY DEF Newest, IsAnswer, IsChange
  <2>1. News(inbox) => News(inbox)'
    <3> SUFFICES ASSUME NEW j \in DOMAIN inbox, IsChange(inbox[j]),
                        inbox[j].change.table \in Asked.tables
                 PROVE  News(inbox)'
      BY DEF News
    <3>1. PICK k \in DOMAIN inbox' : inbox'[k] = inbox[j]
      BY <1>1, <2>0
    <3> QED
      BY <1>2, <3>1 DEF News, IsChange
  <2> QED
    BY <1>2, <2>1 DEF NewsComing, News, IsChange
<1>r. PICK result : result = IF query.kind = "count" THEN inbox[i].count
                             ELSE Resolved(inbox[i].rows)
  OBVIOUS
<1>t. inbox[i].ok => observer' = Taken(result, inbox[i].asOf)
  BY <1>r
<1>e. ~inbox[i].ok => observer' = Reported(inbox[i].asOf)
  OBVIOUS
<1>4. /\ observer'.generation = observer.generation
      /\ observer'.listeners = observer.listeners /\ observer'.missed = observer.missed
  <2>1. CASE inbox[i].ok
    BY <1>2, <1>t, <2>1, TakenIs
  <2>2. CASE ~inbox[i].ok
    BY <1>2, <1>e, <2>2, ReportedIs
  <2> QED
    BY <2>1, <2>2
<1>5. observer.previous # <<>> =>
         /\ observer.previous = <<observer.latest>>
         /\ observer.value = Shown(observer.latest, observer.value.error)
  BY DEF ObserverInv, Emitted
<1>6. observer'.listeners # 0 /\ observer'.listeners > 0
  BY <1>4
<1>s. \A data : /\ Success(data) = Shown(data, Success(data).error) /\ Success(data).error = FALSE
                /\ Failure(data) = Shown(data, Failure(data).error)
  BY DEF Shown, Success, Failure
<1>7. inbox[i].ok => /\ ~observer'.failed
                     /\ observer'.value = Shown(result, observer'.value.error)
                     /\ observer'.kept = observer'.value.error
                     /\ observer'.previous = <<result>> /\ observer'.latest = result
  <2>1. CASE inbox[i].ok /\ Differs(observer.previous, result)
    <3>1. /\ ~observer'.failed /\ observer'.previous = <<result>>
          /\ observer'.latest = result /\ observer'.value = Success(result)
          /\ observer'.kept = FALSE
      <4>1. observer'.kept = FALSE
        BY <1>2, <1>t, <2>1, TakenKeeps
      <4> QED
        BY <1>2, <1>t, <2>1, <4>1, TakenIs
    <3> QED
      BY <1>s, <3>1
  <2>2. CASE inbox[i].ok /\ ~Differs(observer.previous, result)
    <3>1. /\ ~observer'.failed /\ observer'.previous = observer.previous
          /\ observer'.latest = observer.latest /\ observer'.value = observer.value
          /\ observer'.kept = observer.value.error
      <4>1. observer'.kept = observer.value.error
        BY <1>2, <1>t, <2>2, TakenKeeps
      <4> QED
        BY <1>2, <1>t, <2>2, <4>1, TakenIs
    <3>2. observer.previous = <<result>>
      BY <2>2 DEF Differs
    <3>3. observer.previous # <<>>
      BY <3>2
    <3>4. observer.latest = result
      BY <1>5, <3>2, <3>3
    <3> QED
      BY <1>5, <3>1, <3>2, <3>3, <3>4
  <2> QED
    BY <2>1, <2>2
<1>8. ~inbox[i].ok => /\ observer'.failed /\ observer'.previous = observer.previous
                      /\ observer'.latest = observer.latest
                      /\ observer'.value = Failure(observer.latest)
                      /\ observer'.value = Shown(observer.latest, observer'.value.error)
  <2> SUFFICES ASSUME ~inbox[i].ok
               PROVE  /\ observer'.failed /\ observer'.previous = observer.previous
                      /\ observer'.latest = observer.latest
                      /\ observer'.value = Failure(observer.latest)
                      /\ observer'.value = Shown(observer.latest, observer'.value.error)
    OBVIOUS
  <2>1. /\ observer'.failed /\ observer'.previous = observer.previous
        /\ observer'.latest = observer.latest /\ observer'.value = Failure(observer.latest)
    BY <1>2, <1>e, ReportedIs
  <2> QED
    BY <1>s, <2>1
<1>9. Emitted'
  BY <1>5, <1>6, <1>7, <1>8 DEF Emitted
<1>10. NewestIsRight'
  <2> SUFFICES ASSUME ~observer'.missed, ~NewsComing',
                      NEW p \in DOMAIN inbox', Newest(inbox[p])', inbox'[p].ok
               PROVE  IF query.kind = "count" THEN inbox'[p].count = Len(Asks(store', Asked))
                      ELSE inbox'[p].rows = Asks(store', Asked)
    BY <1>2 DEF NewestIsRight
  <2>1. PICK q \in DOMAIN inbox : inbox'[p] = inbox[q]
    BY <1>1
  <2>2. Newest(inbox[q])
    BY <1>4, <2>1 DEF Newest, IsAnswer
  <2> QED
    BY <1>2, <1>3, <1>4, <2>1, <2>2 DEF ObserverInv, NewestIsRight
<1>11. ShownIsRight'
  <2> SUFFICES ASSUME ~Excused', ~NewsComing'
               PROVE  UpToDate'
    BY DEF ShownIsRight
  <2>1. CASE ~inbox[i].ok
    BY <1>6, <1>8, <2>1 DEF UpToDate, Failure, Shown
  <2>2. CASE inbox[i].ok
    <3>1. ~observer.missed /\ ~NewsComing
      BY <1>3, <1>4 DEF Excused
    <3>2. query.kind = "records" => \A record \in partial : record[1] # Asked.table
      BY <1>2 DEF Excused
    <3>3. IF query.kind = "count" THEN inbox[i].count = Len(Asks(store, Asked))
          ELSE inbox[i].rows = Asks(store, Asked)
      BY <2>2, <3>1 DEF ObserverInv, NewestIsRight
    <3>4. result = Expected
      <4>1. CASE query.kind = "count"
        BY <1>r, <3>3, <4>1 DEF Expected
      <4>2. CASE query.kind # "count"
        <5>1. query.kind = "records"
          BY <4>2 DEF Typed, EnvOK
        <5>2. result = Resolved(inbox[i].rows) /\ inbox[i].rows = Asks(store, Asked)
          BY <1>r, <3>3, <4>2
        <5>3. PICK rows : rows = Asks(store, Asked)
          OBVIOUS
        <5>4. Resolved(rows) = Expected
          BY <3>1, <3>2, <5>1, <5>3, ResolvedRight
        <5> QED
          BY <5>2, <5>3, <5>4
      <4> QED
        BY <4>1, <4>2
    <3>5. observer'.value = Shown(result, observer'.kept) /\ ~observer'.failed
      BY <1>7, <2>2
    <3>6. Expected' = Expected
      BY <1>2 DEF Expected, SanitizedRaw, SanitizeValue, NullValue
    <3> QED
      BY <1>6, <3>4, <3>5, <3>6 DEF UpToDate, Shown
  <2> QED
    BY <2>1, <2>2
<1> QED
  BY <1>9, <1>10, <1>11 DEF ObserverInv

LEMMA QuietIsRight ==
    ASSUME ObserverInv, UNCHANGED <<env, partial, observer>>,
           NewsComing => NewsComing',
           NewsComing' \/ Asks(store', Asked) = Asks(store, Asked),
           \A i \in DOMAIN queue : Newest(queue[i]) =>
              \/ \E j \in DOMAIN queue' : queue'[j] = queue[i]
              \/ \E j \in DOMAIN inbox' : Newest(inbox'[j]),
           \A i \in DOMAIN inbox : i \in DOMAIN inbox' /\ inbox'[i] = inbox[i],
           \A p \in DOMAIN inbox' :
              \/ \E q \in DOMAIN inbox : inbox'[p] = inbox[q]
              \/ ~IsAnswer(inbox'[p]) \/ ~inbox'[p].ok
              \/ IF query.kind = "count" THEN inbox'[p].count = Len(Asks(store', Asked))
                 ELSE inbox'[p].rows = Asks(store', Asked)
    PROVE  ObserverInv'
<1>1. Asked' = Asked /\ query' = query /\ observer' = observer /\ partial' = partial
  BY DEF env, Asked
<1>2. Excused => Excused'
  BY <1>1 DEF Excused
<1>3. \A m : Newest(m) => Newest(m)'
  BY <1>1 DEF Newest, IsAnswer
<1>4. AnswerComing => AnswerComing'
  BY <1>1, <1>3 DEF AnswerComing, Newest, IsAnswer
<1> QED
  BY <1>1, <1>2, <1>4, UndisturbedIsRight DEF Undisturbed

LEMMA NewsKept ==
    ASSUME UNCHANGED env, News(inbox) => News(inbox') \/ News(relay'), News(relay) => News(inbox') \/ News(relay')
    PROVE  NewsComing => NewsComing'
<1>1. Asked' = Asked
  BY DEF env, Asked
<1>2. (News(inbox) <=> News(inbox)) /\ (News(inbox') <=> News(inbox)') /\ (News(relay') <=> News(relay)')
  BY <1>1 DEF News, IsChange
<1> QED
  BY <1>2 DEF NewsComing

\* What a statement's answer will say.
LEMMA ReadByIs ==
    ASSUME Typed, NEW r, RequestOK(r), r.op # "batch", NEW m, m = ReadBy(r)
    PROVE  /\ IsAnswer(r) <=> IsAnswer(m)
           /\ ~IsChange(m)
           /\ IsAnswer(r) => /\ m.generation = r.generation /\ m.ok /\ m.asOf = version
                             /\ IF query.kind = "count" THEN m.count = Len(Asks(store, Asked))
                                ELSE m.rows = Asks(store, Asked)
<1>1. store \in AnyStorage /\ query.of \in DOMAIN Observed
  BY DEF Typed, StoreOK, EnvOK
<1>2. CASE r.op = "count"
  <2>1. PICK n : n = Counts(store, Asked)
    OBVIOUS
  <2>2. m = [op |-> "count", generation |-> r.generation, ok |-> TRUE, asOf |-> version, count |-> n]
    BY <1>2, <2>1 DEF ReadBy
  <2>3. m.op = "count" /\ m.generation = r.generation /\ m.ok /\ m.asOf = version /\ m.count = n
    BY <2>2
  <2>4. query.kind = "count" /\ Asked.countable
    BY <1>2 DEF RequestOK, IsAnswer, FetchOK, Refused
  <2>5. n = Len(Asks(store, Asked))
    BY <1>1, <2>1, <2>4, AskedIs
  <2> QED
    BY <1>2, <2>3, <2>4, <2>5 DEF IsAnswer, IsChange
<1>3. CASE r.op = "fetch"
  <2>1. PICK n : n = Fetches(store, Asked)
    OBVIOUS
  <2>2. m = [op |-> "fetch", generation |-> r.generation, ok |-> TRUE, asOf |-> version, rows |-> n]
    BY <1>3, <2>1 DEF ReadBy
  <2>3. m.op = "fetch" /\ m.generation = r.generation /\ m.ok /\ m.asOf = version /\ m.rows = n
    BY <2>2
  <2>4. query.kind # "count"
    BY <1>3 DEF RequestOK, IsAnswer, FetchOK
  <2>5. n = Asks(store, Asked)
    BY <1>1, <2>1, AskedIs
  <2> QED
    BY <1>3, <2>3, <2>4, <2>5 DEF IsAnswer, IsChange
<1>4. CASE r.op = "once"
  <2>1. PICK n : n = Fetches(store, Asked)
    OBVIOUS
  <2>2. m = [op |-> "once", rows |-> n]
    BY <1>4, <2>1 DEF ReadBy
  <2>3. m.op = "once"
    BY <2>2
  <2> QED
    BY <1>4, <2>3 DEF IsAnswer, IsChange
<1> QED
  BY <1>2, <1>3, <1>4 DEF RequestOK

LEMMA RunIsRight ==
    ASSUME Typed, ObserverInv, Run \/ RunFails
    PROVE  ObserverInv'
<1>1. /\ queue # <<>> /\ queue' = Tail(queue) /\ UNCHANGED <<env, partial, observer, relay>>
      /\ Asked' = Asked
  BY DEF Run, RunFails, env, identity, Asked
<1>2. IsSeq(queue) /\ IsSeq(inbox)
  BY DEF Typed, QueueOK, InboxOK
<1>3. /\ 1 \in DOMAIN queue /\ Head(queue) = queue[1]
      /\ \A j \in DOMAIN queue : j # 1 => j - 1 \in DOMAIN queue' /\ queue'[j - 1] = queue[j]
  BY <1>1, <1>2, Shifted
<1>4. PICK r : r = Head(queue)
  OBVIOUS
<1>5. RequestOK(r)
  BY <1>3, <1>4 DEF Typed, QueueOK
<1>6. ASSUME inbox' = inbox, ~IsAnswer(r), store' = store
      PROVE  ObserverInv'
  <2>1. NewsComing => NewsComing'
    BY <1>1, <1>6, NewsKept
  <2>2. \A i \in DOMAIN queue : Newest(queue[i]) => \E j \in DOMAIN queue' : queue'[j] = queue[i]
    BY <1>3, <1>4, <1>6 DEF Newest
  <2> QED
    BY <1>1, <1>6, <2>1, <2>2, QuietIsRight
<1>7. ASSUME NEW m, inbox' = Append(inbox, m), Newest(r) => Newest(m),
             IsAnswer(m) /\ m.ok =>
                IF query.kind = "count" THEN m.count = Len(Asks(store', Asked))
                ELSE m.rows = Asks(store', Asked),
             (IsChange(m) /\ m.change.table \in Asked.tables) \/ Asks(store', Asked) = Asks(store, Asked)
      PROVE  ObserverInv'
  <2>1. /\ \A i \in DOMAIN inbox : i \in DOMAIN inbox' /\ inbox'[i] = inbox[i]
        /\ \A i \in DOMAIN inbox' : i \in DOMAIN inbox \/ i = Len(inbox) + 1
        /\ Len(inbox) + 1 \in DOMAIN inbox' /\ inbox'[Len(inbox) + 1] = m
    BY <1>2, <1>7, Appended
  <2>2. (News(inbox) => News(inbox'))
        /\ (IsChange(m) /\ m.change.table \in Asked.tables => News(inbox'))
    BY <1>2, <1>7, NewsAppended
  <2>3. NewsComing => NewsComing'
    BY <1>1, <2>2, NewsKept
  <2>4. News(inbox') => NewsComing'
    BY <1>1 DEF NewsComing, News, IsChange
  <2>5. \A i \in DOMAIN queue : Newest(queue[i]) =>
              \/ \E j \in DOMAIN queue' : queue'[j] = queue[i]
              \/ \E j \in DOMAIN inbox' : Newest(inbox'[j])
    BY <1>3, <1>4, <1>7, <2>1
  <2>6. \A p \in DOMAIN inbox' :
              \/ \E q \in DOMAIN inbox : inbox'[p] = inbox[q]
              \/ ~IsAnswer(inbox'[p]) \/ ~inbox'[p].ok
              \/ IF query.kind = "count" THEN inbox'[p].count = Len(Asks(store', Asked))
                 ELSE inbox'[p].rows = Asks(store', Asked)
    BY <1>7, <2>1
  <2> QED
    BY <1>1, <1>7, <2>1, <2>2, <2>3, <2>4, <2>5, <2>6, QuietIsRight
<1>8. CASE Run
  <2>1. CASE r.op = "batch"
    <3>1. store' = Written(r.change) /\ inbox' = Append(inbox, r)
      BY <1>4, <1>8, <2>1 DEF Run
    <3>2. ChangeOK(r.change) /\ IsChange(r) /\ ~IsAnswer(r)
      BY <1>5, <2>1 DEF RequestOK, IsChange, IsAnswer
    <3>3. r.change.table \notin Asked.tables => Asks(store', Asked) = Asks(store, Asked)
      BY <3>1, <3>2, WrittenIs DEF Typed, StoreOK, EnvOK
    <3> QED
      BY <1>7, <3>1, <3>2, <3>3
  <2>2. CASE r.op # "batch"
    <3>1. PICK m : m = ReadBy(r)
      OBVIOUS
    <3>2. inbox' = Append(inbox, m) /\ store' = store
      BY <1>4, <1>8, <2>2, <3>1 DEF Run, storage
    <3>3. /\ IsAnswer(r) <=> IsAnswer(m)
          /\ IsAnswer(r) => /\ m.generation = r.generation
                            /\ IF query.kind = "count" THEN m.count = Len(Asks(store, Asked))
                               ELSE m.rows = Asks(store, Asked)
      BY <1>5, <2>2, <3>1, ReadByIs
    <3>4. Newest(r) => Newest(m)
      BY <3>3 DEF Newest
    <3> QED
      BY <1>7, <3>2, <3>3, <3>4
  <2> QED
    BY <2>1, <2>2
<1>9. CASE RunFails
  <2>0. store' = store
    BY <1>9 DEF RunFails, storage
  <2>1. CASE r.op \in {"fetch", "count"}
    <3>1. PICK m : m = [op |-> r.op, ok |-> FALSE, asOf |-> version, generation |-> r.generation]
      OBVIOUS
    <3>2. inbox' = Append(inbox, m)
      BY <1>4, <1>9, <2>1, <3>1 DEF RunFails
    <3>3. m.op = r.op /\ ~m.ok /\ m.generation = r.generation
      BY <3>1
    <3>4. Newest(r) => Newest(m)
      BY <3>3 DEF Newest, IsAnswer
    <3> QED
      BY <1>7, <2>0, <3>2, <3>3, <3>4
  <2>2. CASE r.op \notin {"fetch", "count"}
    <3>1. inbox' = inbox
      BY <1>4, <1>9, <2>2 DEF RunFails
    <3>2. ~IsAnswer(r)
      BY <2>2 DEF IsAnswer
    <3> QED
      BY <1>6, <2>0, <3>1, <3>2
  <2> QED
    BY <2>1, <2>2
<1> QED
  BY <1>8, <1>9

LEMMA MountIsRight ==
    ASSUME Typed, ObserverInv, Mount
    PROVE  ObserverInv'
<1>1. /\ UNCHANGED <<env, storage, identity, inbox, relay>> /\ version' = version /\ ObserverOK(observer)
      /\ Asked' = Asked /\ query' = query /\ store' = store /\ partial' = partial
  BY DEF Mount, storage, identity, env, Asked, Typed
<1>2. CASE observer.listeners = 0
  <2>1. PICK latest : /\ observer' = Refetched([observer EXCEPT !.listeners = 1, !.latest = latest])
                      /\ PostFetch(queue)
    BY <1>2 DEF Mount
  <2>2. PICK o : o = [observer EXCEPT !.listeners = 1, !.latest = latest]
    OBVIOUS
  <2>3. o = [listeners |-> 1, value |-> observer.value, latest |-> latest,
             generation |-> observer.generation, previous |-> observer.previous,
             asOf |-> observer.asOf, failed |-> observer.failed, missed |-> observer.missed,
                 kept |-> observer.kept]
    BY <1>1, <2>2 DEF ObserverOK
  <2>4. /\ o.listeners = 1 /\ o.value = observer.value /\ o.latest = latest
        /\ o.generation = observer.generation /\ o.previous = observer.previous
        /\ o.asOf = observer.asOf /\ o.failed = observer.failed /\ o.missed = observer.missed
            /\ o.kept = observer.kept
    BY <2>3
  <2>5. ObserverOK(o)
    BY <1>1, <2>3, <2>4 DEF ObserverOK
  <2>6. o.previous = <<>> /\ o.listeners > 0
    BY <1>2, <2>4 DEF ObserverInv, Emitted
  <2>7. \A p \in DOMAIN inbox' : \E q \in DOMAIN inbox : inbox'[p] = inbox[q]
    BY <1>1
  <2> QED
    BY <1>1, <2>1, <2>2, <2>4, <2>5, <2>6, <2>7, RefetchedIsRight
<1>3. CASE observer.listeners # 0
  <2>1. observer' = [observer EXCEPT !.listeners = 2] /\ queue' = queue
    BY <1>3 DEF Mount
  <2>2. observer' = [listeners |-> 2, value |-> observer.value, latest |-> observer.latest,
             generation |-> observer.generation, previous |-> observer.previous,
             asOf |-> observer.asOf, failed |-> observer.failed, missed |-> observer.missed,
                 kept |-> observer.kept]
    BY <1>1, <2>1 DEF ObserverOK
  <2>3. /\ observer'.listeners = 2 /\ observer'.value = observer.value
        /\ observer'.latest = observer.latest /\ observer'.generation = observer.generation
        /\ observer'.previous = observer.previous /\ observer'.failed = observer.failed
        /\ observer'.missed = observer.missed /\ observer'.kept = observer.kept
    BY <2>2
  <2>4. observer.listeners > 0 /\ observer.listeners \in 0..2
    BY <1>1, <1>3 DEF ObserverOK
  <2>5. NewsComing => NewsComing'
    BY <1>1, NewsKept
  <2>6. Excused => Excused'
    BY <1>1, <2>3 DEF Excused
  <2>7. AnswerComing => AnswerComing'
    BY <1>1, <2>1, <2>3 DEF AnswerComing, Newest, IsAnswer
  <2>8. UNCHANGED env /\ inbox' = inbox
    BY <1>1
  <2> QED
    BY <1>1, <2>3, <2>4, <2>5, <2>6, <2>7, <2>8, UndisturbedIsRight DEF Undisturbed
<1> QED
  BY <1>2, <1>3

LEMMA UnmountIsRight ==
    ASSUME Typed, ObserverInv, Unmount
    PROVE  ObserverInv'
<1>1. /\ UNCHANGED <<env, storage, identity, queue, inbox, relay>> /\ ObserverOK(observer)
      /\ Asked' = Asked /\ query' = query /\ store' = store /\ partial' = partial
      /\ Loading' = Loading
      /\ observer.listeners > 0 /\ observer' = Leaves(observer)
  BY DEF Unmount, storage, identity, env, Asked, Typed, Loading, Nothing
<1>2. CASE observer.listeners = 2
  <2>1. /\ observer'.listeners = 1 /\ observer'.value = observer.value
        /\ observer'.latest = observer.latest /\ observer'.generation = observer.generation
        /\ observer'.previous = observer.previous /\ observer'.failed = observer.failed
        /\ observer'.missed = observer.missed /\ observer'.kept = observer.kept
    BY <1>1, <1>2, LeavesIs
  <2>2. NewsComing => NewsComing'
    BY <1>1, NewsKept
  <2>3. Excused => Excused'
    BY <1>1, <2>1 DEF Excused
  <2>4. AnswerComing => AnswerComing'
    BY <1>1, <2>1 DEF AnswerComing, Newest, IsAnswer
  <2>5. UNCHANGED env /\ inbox' = inbox
    BY <1>1
  <2> QED
    BY <1>1, <1>2, <2>1, <2>2, <2>3, <2>4, <2>5, UndisturbedIsRight DEF Undisturbed
<1>3. CASE observer.listeners # 2
  <2>1. /\ observer'.listeners = 0 /\ observer'.value = Loading /\ observer'.previous = <<>>
    BY <1>1, <1>3, LeavesIs
  <2>2. ~observer'.missed /\ ~observer'.failed
    <3>1. PICK loading : loading = Loading
      OBVIOUS
    <3>2. observer' = [listeners |-> 0, value |-> loading, latest |-> observer.latest,
                       generation |-> observer.generation, previous |-> <<>>,
                       asOf |-> observer.asOf, failed |-> FALSE, missed |-> FALSE, kept |-> FALSE]
      BY <1>1, <1>3, <3>1 DEF Leaves, ObserverOK
    <3> QED
      BY <3>2
  <2>3. Emitted'
    BY <1>1, <2>1, <2>2 DEF Emitted
  <2> QED
    BY <2>1, <2>3, IdleIsRight
<1> QED
  BY <1>2, <1>3

LEMMA PostingIsRight ==
    ASSUME Typed, ObserverInv, FetchOnce \/ LocalWrite \/ ExternalWrite \/ Relay \/ UNCHANGED vars
    PROVE  ObserverInv'
<1>1. UNCHANGED <<env, partial, observer>> /\ Asked' = Asked
  BY DEF FetchOnce, LocalWrite, ExternalWrite, Relay, vars, env, identity, Asked
<1>2. IsSeq(queue) /\ IsSeq(inbox) /\ IsSeq(relay)
  BY DEF Typed, QueueOK, InboxOK, RelayOK
<1>3. CASE FetchOnce \/ LocalWrite \/ UNCHANGED vars
  <2>1. inbox' = inbox /\ relay' = relay /\ store' = store
    BY <1>3 DEF FetchOnce, LocalWrite, vars, storage
  <2>2. queue' = queue \/ \E m : queue' = Append(queue, m)
    BY <1>3 DEF FetchOnce, LocalWrite, vars
  <2>3. \A i \in DOMAIN queue : i \in DOMAIN queue' /\ queue'[i] = queue[i]
    <3>1. CASE queue' = queue
      BY <3>1
    <3>2. CASE \E m : queue' = Append(queue, m)
      <4>1. PICK m : queue' = Append(queue, m)
        BY <3>2
      <4> QED
        BY <1>2, <4>1, Appended
    <3> QED
      BY <2>2, <3>1, <3>2
  <2>4. NewsComing => NewsComing'
    BY <1>1, <2>1, NewsKept
  <2> QED
    BY <1>1, <2>1, <2>3, <2>4, QuietIsRight
<1>4. CASE ExternalWrite
  <2>1. PICK x \in Changes(Stored, Unknown) :
          store' = Written(x) /\ relay' = Append(relay, [op |-> "external", change |-> x])
    BY <1>4 DEF ExternalWrite
  <2>2. ChangeOK(x)
    BY WritersChange
  <2>3. PICK m : m = [op |-> "external", change |-> x]
    OBVIOUS
  <2>4. IsChange(m) /\ m.change = x /\ relay' = Append(relay, m)
    BY <2>1, <2>3 DEF IsChange
  <2>5. (News(relay) => News(relay')) /\ (x.table \in Asked.tables => News(relay'))
    BY <1>2, <2>4, NewsAppended
  <2>6. inbox' = inbox /\ queue' = queue
    BY <1>4 DEF ExternalWrite
  <2>7. NewsComing => NewsComing'
    BY <1>1, <2>5, <2>6, NewsKept
  <2>8. NewsComing' \/ Asks(store', Asked) = Asks(store, Asked)
    <3>1. CASE x.table \in Asked.tables
      BY <1>1, <2>5, <3>1 DEF NewsComing, News, IsChange
    <3>2. CASE x.table \notin Asked.tables
      BY <2>1, <2>2, <3>2, WrittenIs DEF Typed, StoreOK, EnvOK
    <3> QED
      BY <3>1, <3>2
  <2> QED
    BY <1>1, <2>6, <2>7, <2>8, QuietIsRight
<1>5. CASE Relay
  <2>1. relay # <<>> /\ relay' = Tail(relay) /\ inbox' = Append(inbox, Head(relay)) /\ queue' = queue
        /\ store' = store
    BY <1>5 DEF Relay, storage
  <2>2. PICK m : m = Head(relay)
    OBVIOUS
  <2>3. /\ 1 \in DOMAIN relay /\ m = relay[1]
        /\ \A j \in DOMAIN relay : j # 1 => j - 1 \in DOMAIN relay' /\ relay'[j - 1] = relay[j]
    BY <1>2, <2>1, <2>2, Shifted
  <2>4. m.op = "external"
    BY <2>3 DEF Typed, RelayOK
  <2>5. /\ \A i \in DOMAIN inbox : i \in DOMAIN inbox' /\ inbox'[i] = inbox[i]
        /\ \A i \in DOMAIN inbox' : i \in DOMAIN inbox \/ i = Len(inbox) + 1
        /\ Len(inbox) + 1 \in DOMAIN inbox' /\ inbox'[Len(inbox) + 1] = m
    BY <1>2, <2>1, <2>2, Appended
  <2>6. News(inbox) => News(inbox')
    BY <2>5 DEF News
  <2>7. News(relay) => News(inbox') \/ News(relay')
    BY <2>3, <2>5 DEF News
  <2>8. NewsComing => NewsComing'
    BY <1>1, <2>6, <2>7, NewsKept
  <2>9. \A p \in DOMAIN inbox' : (\E q \in DOMAIN inbox : inbox'[p] = inbox[q]) \/ ~IsAnswer(inbox'[p])
    BY <2>4, <2>5 DEF IsAnswer
  <2> QED
    BY <1>1, <2>1, <2>5, <2>8, <2>9, QuietIsRight
<1> QED
  BY <1>3, <1>4, <1>5

LEMMA AnswerIsRight ==
    ASSUME Typed, OrderedInv, UnorderedInv, ObserverInv,
           FetchAnswered \/ CountAnswered \/ ErrorAnswered \/ OnceAnswered
    PROVE  ObserverInv'
<1>1. PICK i \in DOMAIN inbox :
        /\ UNCHANGED <<env, storage, partial, queue, relay>>
        /\ \E kinds : Arrives(i, kinds)
        /\ ~IsChange(inbox[i])
        /\ \/ /\ IsAnswer(inbox[i]) /\ inbox[i].ok /\ query.kind # "count"
              /\ IF Wants(inbox[i].generation)
                 THEN observer' = Taken(Resolved(inbox[i].rows), inbox[i].asOf)
                 ELSE UNCHANGED observer
           \/ /\ IsAnswer(inbox[i]) /\ inbox[i].ok /\ query.kind = "count"
              /\ IF Wants(inbox[i].generation)
                 THEN observer' = Taken(inbox[i].count, inbox[i].asOf)
                 ELSE UNCHANGED observer
           \/ /\ IsAnswer(inbox[i]) /\ ~inbox[i].ok
              /\ IF Wants(inbox[i].generation)
                 THEN observer' = Reported(inbox[i].asOf)
                 ELSE UNCHANGED observer
           \/ ~IsAnswer(inbox[i]) /\ UNCHANGED observer
  <2>1. CASE FetchAnswered
    <3>1. PICK i \in DOMAIN inbox :
            /\ Arrives(i, {"fetch"}) /\ inbox[i].ok
            /\ IF Wants(inbox[i].generation)
               THEN observer' = Taken(Resolved(inbox[i].rows), inbox[i].asOf)
               ELSE UNCHANGED observer
            /\ UNCHANGED <<env, storage, partial, queue, relay>>
      BY <2>1 DEF FetchAnswered
    <3>2. inbox[i].op = "fetch" /\ MessageOK(inbox[i])
      BY <3>1, Arrived
    <3>3. IsAnswer(inbox[i]) /\ query.kind # "count" /\ ~IsChange(inbox[i])
      BY <3>2 DEF IsAnswer, IsChange, MessageOK, FetchOK
    <3> QED
      BY <3>1, <3>3
  <2>2. CASE CountAnswered
    <3>1. PICK i \in DOMAIN inbox :
            /\ Arrives(i, {"count"}) /\ inbox[i].ok
            /\ observer' = IF Wants(inbox[i].generation)
                           THEN Taken(inbox[i].count, inbox[i].asOf) ELSE observer
            /\ UNCHANGED <<env, storage, identity, queue, relay>>
      BY <2>2 DEF CountAnswered
    <3>2. inbox[i].op = "count" /\ MessageOK(inbox[i])
      BY <3>1, Arrived
    <3>3. IsAnswer(inbox[i]) /\ query.kind = "count" /\ ~IsChange(inbox[i])
      BY <3>2 DEF IsAnswer, IsChange, MessageOK, FetchOK
    <3>4. UNCHANGED <<env, storage, partial, queue, relay>>
      BY <3>1 DEF identity
    <3> QED
      BY <3>1, <3>3, <3>4
  <2>3. CASE ErrorAnswered
    <3>1. PICK i \in DOMAIN inbox :
            /\ Arrives(i, {"fetch", "count"}) /\ ~inbox[i].ok
            /\ observer' = IF Wants(inbox[i].generation)
                           THEN Reported(inbox[i].asOf) ELSE observer
            /\ UNCHANGED <<env, storage, identity, queue, relay>>
      BY <2>3 DEF ErrorAnswered
    <3>2. inbox[i].op \in {"fetch", "count"}
      BY <3>1, Arrived
    <3>3. IsAnswer(inbox[i]) /\ ~IsChange(inbox[i])
      BY <3>2 DEF IsAnswer, IsChange
    <3>4. UNCHANGED <<env, storage, partial, queue, relay>>
      BY <3>1 DEF identity
    <3> QED
      BY <3>1, <3>3, <3>4
  <2>4. CASE OnceAnswered
    <3>1. PICK i \in DOMAIN inbox :
            /\ Arrives(i, {"once"})
            /\ UNCHANGED <<env, storage, partial, observer, queue, relay>>
      BY <2>4 DEF OnceAnswered
    <3>2. inbox[i].op = "once"
      BY <3>1, Arrived
    <3>3. ~IsAnswer(inbox[i]) /\ ~IsChange(inbox[i])
      BY <3>2 DEF IsAnswer, IsChange
    <3> QED
      BY <3>1, <3>3
  <2> QED
    BY <2>1, <2>2, <2>3, <2>4
<1>2. PICK kinds : Arrives(i, kinds)
  BY <1>1
<1>3. ObserverOK(observer) /\ observer.listeners \in 0..2
  BY DEF Typed, ObserverOK
<1>4. CASE IsAnswer(inbox[i]) /\ Wants(inbox[i].generation)
  <2>1. Newest(inbox[i]) /\ observer.listeners > 0
    BY <1>4 DEF Newest, Wants
  <2>2. inbox[i].ok => observer' = Taken(IF query.kind = "count" THEN inbox[i].count
                                         ELSE Resolved(inbox[i].rows), inbox[i].asOf)
    BY <1>1, <1>4
  <2>3. ~inbox[i].ok => observer' = Reported(inbox[i].asOf)
    BY <1>1, <1>4
  <2> QED
    BY <1>1, <1>2, <2>1, <2>2, <2>3, TakenIsRight
<1>5. CASE ~(IsAnswer(inbox[i]) /\ Wants(inbox[i].generation))
  <2>1. observer' = observer
    BY <1>1, <1>5
  <2>2. CASE observer.listeners = 0
    <3>1. Loading' = Loading
      BY <1>1 DEF Loading, Nothing, env
    <3>2. Emitted'
      BY <2>1, <3>1 DEF ObserverInv, Emitted
    <3> QED
      BY <2>1, <2>2, <3>2, IdleIsRight
  <2>3. CASE observer.listeners # 0
    <3>1. ~Newest(inbox[i])
      BY <1>3, <1>5, <2>3 DEF Newest, Wants
    <3>2. Excused => Excused'
      <4>1. Asked' = Asked /\ query' = query
        BY <1>1 DEF env, Asked
      <4> QED
        BY <1>1, <2>1, <4>1 DEF Excused
    <3> QED
      BY <1>1, <1>2, <2>1, <3>1, <3>2, DroppedIsRight
  <2> QED
    BY <2>2, <2>3
<1> QED
  BY <1>4, <1>5

LEMMA ChangeIsRight ==
    ASSUME Typed, ObserverInv, BatchAnswered \/ ExternalAnnounced
    PROVE  ObserverInv'
<1>1. CASE BatchAnswered
  <2>1. PICK i \in DOMAIN inbox :
          /\ Arrives(i, {"batch"}) /\ Notify(inbox[i].change)
          /\ partial' = PartialAfter(inbox[i].change)
          /\ UNCHANGED <<env, storage, relay>>
    BY <1>1 DEF BatchAnswered, Announce
  <2>2. IsChange(inbox[i])
    BY <2>1, Arrived DEF IsChange
  <2>3. \A record : record[1] # inbox[i].change.table => (record \in partial' <=> record \in partial)
    BY <2>1, PartialAfterIs
  <2> QED
    BY <2>1, <2>2, <2>3, AnnouncedIsRight
<1>2. CASE ExternalAnnounced
  <2>1. PICK i \in DOMAIN inbox :
          /\ Arrives(i, {"external"})
          /\ IF Unseen(inbox[i].change)
             THEN /\ observer' = [observer EXCEPT
                        !.missed = @ \/ (observer.listeners > 0
                                        /\ inbox[i].change.table \in Asked.tables)]
                  /\ UNCHANGED <<identity, queue>>
             ELSE /\ Notify(AsApplied(inbox[i].change))
                  /\ partial' = PartialAfter(inbox[i].change)
          /\ UNCHANGED <<env, storage, relay>>
    BY <1>2 DEF ExternalAnnounced, Announce
  <2>2. IsChange(inbox[i]) /\ MessageOK(inbox[i]) /\ ObserverOK(observer)
    BY <2>1, Arrived DEF IsChange, Typed
  <2>3. PICK x : x = inbox[i].change
    OBVIOUS
  <2>4. ChangeOK(x)
    BY <2>2, <2>3 DEF MessageOK
  <2>5. CASE ~Unseen(x)
    <3>1. AsApplied(x).table = x.table
      BY <2>4, AppliedIs DEF Typed
    <3>2. \A record : record[1] # x.table => (record \in partial' <=> record \in partial)
      BY <2>1, <2>3, <2>5, PartialAfterIs
    <3>3. PICK a : a = AsApplied(x)
      OBVIOUS
    <3>4. Notify(a) /\ a.table = inbox[i].change.table
      BY <2>1, <2>3, <2>5, <3>1, <3>3
    <3>5. \A record : record[1] # a.table => (record \in partial' <=> record \in partial)
      BY <2>3, <3>2, <3>4
    <3> QED
      BY <2>1, <2>2, <3>4, <3>5, AnnouncedIsRight
  <2>6. CASE Unseen(x)
    <3>1. PICK missed : missed = (observer.missed \/ (observer.listeners > 0 /\ x.table \in Asked.tables))
      OBVIOUS
    <3>2. observer' = [observer EXCEPT !.missed = missed] /\ UNCHANGED <<identity, queue>>
      BY <2>1, <2>3, <2>6, <3>1
    <3>3. observer' = [listeners |-> observer.listeners, value |-> observer.value,
             latest |-> observer.latest, generation |-> observer.generation,
             previous |-> observer.previous, asOf |-> observer.asOf,
             failed |-> observer.failed, missed |-> missed, kept |-> observer.kept]
      BY <2>2, <3>2 DEF ObserverOK
    <3>4. /\ observer'.listeners = observer.listeners /\ observer'.value = observer.value
          /\ observer'.latest = observer.latest /\ observer'.generation = observer.generation
          /\ observer'.previous = observer.previous /\ observer'.failed = observer.failed
          /\ observer'.kept = observer.kept /\ (observer'.missed <=> missed)
      BY <3>3
    <3>a. missed <=> (observer.missed \/ (observer.listeners > 0 /\ x.table \in Asked.tables))
      BY <3>1
    <3>5. Loading' = Loading
      BY <2>1 DEF Loading, Nothing, env
    <3>6. CASE observer.listeners > 0 /\ x.table \in Asked.tables
      <4>1. observer'.missed /\ observer'.listeners # 0
        BY <3>4, <3>6, <3>a
      <4>2. Emitted'
        BY <3>4, <4>1 DEF ObserverInv, Emitted
      <4>3. NewestIsRight' /\ ShownIsRight'
        BY <4>1 DEF NewestIsRight, ShownIsRight, Excused
      <4> QED
        BY <4>2, <4>3 DEF ObserverInv
    <3>7. CASE observer.listeners = 0
      <4>1. ~observer'.missed
        BY <3>4, <3>7, <3>a DEF ObserverInv, Emitted
      <4>2. Emitted'
        BY <3>4, <3>5, <3>7, <4>1 DEF ObserverInv, Emitted
      <4> QED
        BY <3>4, <3>7, <4>2, IdleIsRight
    <3>8. CASE x.table \notin Asked.tables
      <4>1. missed = observer.missed
        BY <2>2, <3>1, <3>8 DEF ObserverOK
      <4>2. observer' = observer
        BY <2>2, <3>3, <4>1 DEF ObserverOK
      <4>3. Excused => Excused'
        <5>1. Asked' = Asked /\ query' = query /\ partial' = partial
          BY <2>1, <3>2 DEF env, Asked, identity
        <5> QED
          BY <4>2, <5>1 DEF Excused
      <4>4. ~Newest(inbox[i])
        BY <2>2 DEF Newest, IsAnswer, IsChange
      <4> QED
        BY <2>1, <2>3, <3>2, <3>8, <4>2, <4>3, <4>4, DroppedIsRight
    <3>9. observer.listeners \in 0..2
      BY <2>2 DEF ObserverOK
    <3> QED
      BY <3>6, <3>7, <3>8, <3>9
  <2> QED
    BY <2>5, <2>6
<1> QED
  BY <1>1, <1>2

LEMMA ObserverStep ==
    ASSUME Typed, OrderedInv, UnorderedInv, ObserverInv, [Next]_vars
    PROVE  ObserverInv'
BY MountIsRight, UnmountIsRight, PostingIsRight, RunIsRight, AnswerIsRight, ChangeIsRight DEF Next

-----------------------------------------------------------------------------
(* There is one newest refetch, and it reads no older than what is shown.  *)

LEMMA NewestIs ==
    ASSUME observer'.generation = observer.generation
    PROVE  \A m : Newest(m)' <=> Newest(m)
BY DEF Newest, IsAnswer

\* Nothing that answers a refetch is posted or arrives.
LEMMA NewestKept ==
    ASSUME OneNewest,
           observer'.generation = observer.generation, observer'.asOf = observer.asOf,
           \A i \in DOMAIN queue' : IsAnswer(queue'[i]) => i \in DOMAIN queue /\ queue'[i] = queue[i],
           \A j \in DOMAIN inbox' : IsAnswer(inbox'[j]) => j \in DOMAIN inbox /\ inbox'[j] = inbox[j]
    PROVE  OneNewest'
<1>1. \A i \in DOMAIN queue' : Newest(queue[i])' => i \in DOMAIN queue /\ Newest(queue[i])
  BY DEF Newest, IsAnswer
<1>2. \A j \in DOMAIN inbox' : Newest(inbox[j])' =>
         j \in DOMAIN inbox /\ Newest(inbox[j]) /\ inbox'[j] = inbox[j]
  BY DEF Newest, IsAnswer
<1> QED
  BY <1>1, <1>2 DEF OneNewest

\* One arrives.
LEMMA NewestArrived ==
    ASSUME Typed, OneNewest, queue' = queue,
           observer'.generation = observer.generation,
           NEW i \in DOMAIN inbox, NEW kinds, Arrives(i, kinds),
           \/ observer'.asOf = observer.asOf
           \/ Newest(inbox[i]) /\ observer'.asOf = inbox[i].asOf
    PROVE  OneNewest' /\ observer'.asOf >= observer.asOf
<1>1. /\ \A j \in DOMAIN inbox' : \E k \in DOMAIN inbox :
            k # i /\ inbox'[j] = inbox[k] /\ (j < i => k = j) /\ (j >= i => k = j + 1)
      /\ DOMAIN inbox' = 1..Len(inbox) - 1 /\ DOMAIN inbox = 1..Len(inbox) /\ Len(inbox) \in Nat
  BY Arrived
<1>2. \A m : Newest(m)' <=> Newest(m)
  BY NewestIs
<1>3. ASSUME NEW j \in DOMAIN inbox', NEW k \in DOMAIN inbox', Newest(inbox'[j]), Newest(inbox'[k])
      PROVE  j = k
  <2>1. PICK a \in DOMAIN inbox : /\ inbox'[j] = inbox[a]
                                  /\ (j < i => a = j) /\ (j >= i => a = j + 1)
    BY <1>1
  <2>2. PICK b \in DOMAIN inbox : /\ inbox'[k] = inbox[b]
                                  /\ (k < i => b = k) /\ (k >= i => b = k + 1)
    BY <1>1
  <2>3. a = b
    BY <1>3, <2>1, <2>2 DEF OneNewest
  <2> QED
    BY <1>1, <2>1, <2>2, <2>3
<1>4. ASSUME NEW j \in DOMAIN inbox', Newest(inbox'[j])
      PROVE  /\ \A k \in DOMAIN queue : ~Newest(queue[k])
             /\ inbox'[j].asOf >= observer'.asOf
  <2>1. PICK a \in DOMAIN inbox : a # i /\ inbox'[j] = inbox[a]
    BY <1>1
  <2>2. ~Newest(inbox[i])
    BY <1>4, <2>1 DEF OneNewest
  <2> QED
    BY <1>4, <2>1, <2>2 DEF OneNewest
<1>5. OneNewest'
  BY <1>2, <1>3, <1>4 DEF OneNewest
<1>6. observer'.asOf >= observer.asOf
  BY DEF OneNewest, Typed, ObserverOK
<1> QED
  BY <1>5, <1>6

\* A refetch is posted.
LEMMA NewestPosted ==
    ASSUME Typed, UNCHANGED env, version' = version,
           NEW o, ObserverOK(o), o.generation = observer.generation,
           observer' = Refetched(o), PostFetch(queue),
           \A p \in DOMAIN inbox' : \E q \in DOMAIN inbox : inbox'[p] = inbox[q]
    PROVE  OneNewest'
<1>1. /\ \A i \in DOMAIN queue : queue'[i] = queue[i] /\ i \in DOMAIN queue'
      /\ \A i \in DOMAIN queue' : i \in DOMAIN queue \/
            (IsAnswer(queue'[i]) /\ \A j \in DOMAIN queue' : j # i => j \in DOMAIN queue)
      /\ \A m : RequestOK(m) \/ MessageOK(m) => ~Newest(m)'
  BY PostedIs
<1>2. \A p \in DOMAIN inbox' : ~Newest(inbox[p])'
  BY <1>1 DEF Typed, InboxOK
<1>3. \A i \in DOMAIN queue : ~Newest(queue[i])'
  BY <1>1 DEF Typed, QueueOK
<1>4. \A i, j \in DOMAIN queue' : Newest(queue[i])' /\ Newest(queue[j])' => i = j
  BY <1>1, <1>3
<1> QED
  BY <1>2, <1>4 DEF OneNewest

LEMMA NewestRun ==
    ASSUME Typed, OneNewest, Run \/ RunFails
    PROVE  OneNewest'
<1>1. queue # <<>> /\ queue' = Tail(queue) /\ observer' = observer
  BY DEF Run, RunFails
<1>2. IsSeq(queue) /\ IsSeq(inbox) /\ ObserverOK(observer) /\ version \in Nat
  BY DEF Typed, QueueOK, InboxOK, StoreOK
<1>3. PICK r : r = Head(queue)
  OBVIOUS
<1>4. /\ 1 \in DOMAIN queue /\ r = queue[1]
      /\ \A i \in DOMAIN queue' : i \in Nat \ {0} /\ i + 1 \in DOMAIN queue /\ queue'[i] = queue[i + 1]
  BY <1>1, <1>2, <1>3, Shifted
<1>5. RequestOK(r)
  BY <1>4 DEF Typed, QueueOK
<1>6. \A m : Newest(m)' <=> Newest(m)
  BY <1>1, NewestIs
<1>7. \A i, j \in DOMAIN queue' : Newest(queue'[i]) /\ Newest(queue'[j]) => i = j
  <2> SUFFICES ASSUME NEW i \in DOMAIN queue', NEW j \in DOMAIN queue',
                      Newest(queue'[i]), Newest(queue'[j])
               PROVE  i = j
    OBVIOUS
  <2>1. i + 1 = j + 1
    BY <1>4 DEF OneNewest
  <2> QED
    BY <1>4, <2>1
<1>8. Newest(r) => /\ \A i \in DOMAIN queue' : ~Newest(queue'[i])
                   /\ \A j \in DOMAIN inbox : ~Newest(inbox[j])
  <2> SUFFICES ASSUME Newest(r)
               PROVE  /\ \A i \in DOMAIN queue' : ~Newest(queue'[i])
                      /\ \A j \in DOMAIN inbox : ~Newest(inbox[j])
    OBVIOUS
  <2>1. ASSUME NEW i \in DOMAIN queue', Newest(queue'[i]) PROVE FALSE
    <3>1. i + 1 = 1
      BY <1>4, <2>1 DEF OneNewest
    <3> QED
      BY <1>4, <3>1
  <2> QED
    BY <1>4, <2>1 DEF OneNewest
<1>9. ASSUME inbox' = inbox PROVE OneNewest'
  BY <1>1, <1>4, <1>6, <1>7, <1>9 DEF OneNewest
<1>10. ASSUME NEW m, inbox' = Append(inbox, m), IsAnswer(m) => Newest(m) = Newest(r) /\ m.asOf = version
       PROVE  OneNewest'
  <2>1. /\ \A i \in DOMAIN inbox' : i \in DOMAIN inbox \/ i = Len(inbox) + 1
        /\ \A i \in DOMAIN inbox : inbox'[i] = inbox[i]
        /\ inbox'[Len(inbox) + 1] = m
    BY <1>2, <1>10, Appended
  <2>2. Newest(m) => Newest(r) /\ m.asOf >= observer.asOf
    BY <1>2, <1>10 DEF Newest, ObserverOK
  <2>3. \A i, j \in DOMAIN inbox' : Newest(inbox'[i]) /\ Newest(inbox'[j]) => i = j
    BY <1>8, <2>1, <2>2 DEF OneNewest
  <2>4. ASSUME NEW i \in DOMAIN queue', NEW j \in DOMAIN inbox', Newest(queue'[i]), Newest(inbox'[j])
        PROVE  FALSE
    BY <1>4, <1>8, <2>1, <2>2, <2>4 DEF OneNewest
  <2>5. \A j \in DOMAIN inbox' : Newest(inbox'[j]) => inbox'[j].asOf >= observer.asOf
    BY <2>1, <2>2 DEF OneNewest
  <2> QED
    BY <1>1, <1>6, <1>7, <2>3, <2>4, <2>5 DEF OneNewest
<1>11. CASE Run
  <2>1. CASE r.op = "batch"
    <3>1. inbox' = Append(inbox, r) /\ ~IsAnswer(r)
      BY <1>3, <1>11, <2>1 DEF Run, IsAnswer
    <3> QED
      BY <1>10, <3>1
  <2>2. CASE r.op # "batch"
    <3>1. PICK m : m = ReadBy(r)
      OBVIOUS
    <3>2. inbox' = Append(inbox, m)
      BY <1>3, <1>11, <2>2, <3>1 DEF Run
    <3>3. /\ IsAnswer(r) <=> IsAnswer(m)
          /\ IsAnswer(r) => m.generation = r.generation /\ m.asOf = version
      BY <1>5, <2>2, <3>1, ReadByIs
    <3>4. IsAnswer(m) => Newest(m) = Newest(r) /\ m.asOf = version
      BY <3>3 DEF Newest
    <3> QED
      BY <1>10, <3>2, <3>4
  <2> QED
    BY <2>1, <2>2
<1>12. CASE RunFails
  <2>1. CASE r.op \in {"fetch", "count"}
    <3>1. PICK m : m = [op |-> r.op, ok |-> FALSE, asOf |-> version, generation |-> r.generation]
      OBVIOUS
    <3>2. inbox' = Append(inbox, m)
      BY <1>3, <1>12, <2>1, <3>1 DEF RunFails
    <3>3. m.op = r.op /\ m.generation = r.generation /\ m.asOf = version
      BY <3>1
    <3>4. Newest(m) = Newest(r)
      BY <3>3 DEF Newest, IsAnswer
    <3> QED
      BY <1>10, <3>2, <3>3, <3>4
  <2>2. CASE r.op \notin {"fetch", "count"}
    <3>1. inbox' = inbox
      BY <1>3, <1>12, <2>2 DEF RunFails
    <3> QED
      BY <1>9, <3>1
  <2> QED
    BY <2>1, <2>2
<1> QED
  BY <1>11, <1>12

LEMMA NewestStep ==
    ASSUME Typed, OneNewest, [Next]_vars
    PROVE  OneNewest' /\ observer'.asOf >= observer.asOf
<1>1. /\ ObserverOK(observer) /\ observer.asOf \in Nat
      /\ IsSeq(queue) /\ IsSeq(inbox) /\ IsSeq(relay)
  BY DEF Typed, ObserverOK, QueueOK, InboxOK, RelayOK
<1>2. CASE Mount
  <2>1. UNCHANGED env /\ version' = version /\ inbox' = inbox
    BY <1>2 DEF Mount, storage
  <2>2. CASE observer.listeners = 0
    <3>1. PICK latest : /\ observer' = Refetched([observer EXCEPT !.listeners = 1, !.latest = latest])
                        /\ PostFetch(queue)
      BY <1>2, <2>2 DEF Mount
    <3>2. PICK o : o = [observer EXCEPT !.listeners = 1, !.latest = latest]
      OBVIOUS
    <3>3. o = [listeners |-> 1, value |-> observer.value, latest |-> latest,
               generation |-> observer.generation, previous |-> observer.previous,
               asOf |-> observer.asOf, failed |-> observer.failed, missed |-> observer.missed,
                 kept |-> observer.kept]
      BY <1>1, <3>2 DEF ObserverOK
    <3>4. /\ o.listeners = 1 /\ o.value = observer.value /\ o.latest = latest
          /\ o.generation = observer.generation /\ o.previous = observer.previous
          /\ o.asOf = observer.asOf /\ o.failed = observer.failed /\ o.missed = observer.missed
            /\ o.kept = observer.kept
      BY <3>3
    <3>5. ObserverOK(o)
      BY <1>1, <3>3, <3>4 DEF ObserverOK
    <3>6. observer'.asOf = observer.asOf
      BY <3>1, <3>2, <3>4, <3>5, RefetchedIs
    <3>7. OneNewest'
      BY <2>1, <3>1, <3>2, <3>4, <3>5, NewestPosted
    <3> QED
      BY <1>1, <3>6, <3>7
  <2>3. CASE observer.listeners # 0
    <3>1. observer' = [observer EXCEPT !.listeners = 2] /\ queue' = queue
      BY <1>2, <2>3 DEF Mount
    <3>2. observer' = [listeners |-> 2, value |-> observer.value, latest |-> observer.latest,
               generation |-> observer.generation, previous |-> observer.previous,
               asOf |-> observer.asOf, failed |-> observer.failed, missed |-> observer.missed,
                 kept |-> observer.kept]
      BY <1>1, <3>1 DEF ObserverOK
    <3>3. observer'.generation = observer.generation /\ observer'.asOf = observer.asOf
      BY <3>2
    <3> QED
      BY <1>1, <2>1, <3>1, <3>3, NewestKept
  <2> QED
    BY <2>2, <2>3
<1>3. CASE Unmount
  <2>1. observer' = Leaves(observer) /\ queue' = queue /\ inbox' = inbox
    BY <1>3 DEF Unmount
  <2>2. observer'.generation = observer.generation /\ observer'.asOf = observer.asOf
    BY <1>1, <2>1, LeavesIs
  <2> QED
    BY <1>1, <2>1, <2>2, NewestKept
<1>4. CASE FetchOnce \/ LocalWrite
  <2>1. observer' = observer /\ inbox' = inbox
    BY <1>4 DEF FetchOnce, LocalWrite
  <2>2. \E m : queue' = Append(queue, m) /\ ~IsAnswer(m)
    <3>1. CASE FetchOnce
      <4>1. PICK m : m = [op |-> "once"]
        OBVIOUS
      <4>2. ~IsAnswer(m) /\ queue' = Append(queue, m)
        BY <3>1, <4>1 DEF FetchOnce, IsAnswer
      <4> QED
        BY <4>2
    <3>2. CASE LocalWrite
      <4>1. PICK x : queue' = Append(queue, [op |-> "batch", change |-> x])
        BY <3>2 DEF LocalWrite
      <4>2. PICK m : m = [op |-> "batch", change |-> x]
        OBVIOUS
      <4>3. ~IsAnswer(m) /\ queue' = Append(queue, m)
        BY <4>1, <4>2 DEF IsAnswer
      <4> QED
        BY <4>3
    <3> QED
      BY <1>4, <3>1, <3>2
  <2>3. PICK m : queue' = Append(queue, m) /\ ~IsAnswer(m)
    BY <2>2
  <2>4. \A i \in DOMAIN queue' : IsAnswer(queue'[i]) => i \in DOMAIN queue /\ queue'[i] = queue[i]
    BY <1>1, <2>3, Appended
  <2> QED
    BY <1>1, <2>1, <2>4, NewestKept
<1>5. CASE ExternalWrite \/ UNCHANGED vars
  <2>1. observer' = observer /\ inbox' = inbox /\ queue' = queue
    BY <1>5 DEF ExternalWrite, vars
  <2> QED
    BY <1>1, <2>1, NewestKept
<1>6. CASE Relay
  <2>1. observer' = observer /\ queue' = queue /\ relay # <<>> /\ inbox' = Append(inbox, Head(relay))
    BY <1>6 DEF Relay
  <2>2. PICK m : m = Head(relay)
    OBVIOUS
  <2>3. ~IsAnswer(m)
    BY <1>1, <2>1, <2>2, Shifted DEF Typed, RelayOK, IsAnswer
  <2>4. \A j \in DOMAIN inbox' : IsAnswer(inbox'[j]) => j \in DOMAIN inbox /\ inbox'[j] = inbox[j]
    BY <1>1, <2>1, <2>2, <2>3, Appended
  <2> QED
    BY <1>1, <2>1, <2>4, NewestKept
<1>7. CASE Run \/ RunFails
  <2>1. observer' = observer
    BY <1>7 DEF Run, RunFails
  <2> QED
    BY <1>1, <1>7, <2>1, NewestRun
<1>8. CASE FetchAnswered \/ CountAnswered \/ ErrorAnswered \/ OnceAnswered
  <2>1. PICK i \in DOMAIN inbox :
          /\ queue' = queue /\ \E kinds : Arrives(i, kinds)
          /\ \/ observer' = observer
             \/ /\ IsAnswer(inbox[i]) /\ Wants(inbox[i].generation)
                /\ \/ \E result : observer' = Taken(result, inbox[i].asOf)
                   \/ observer' = Reported(inbox[i].asOf)
    <3>1. CASE FetchAnswered
      <4>1. PICK i \in DOMAIN inbox :
              /\ Arrives(i, {"fetch"}) /\ queue' = queue
              /\ IF Wants(inbox[i].generation)
                 THEN observer' = Taken(Resolved(inbox[i].rows), inbox[i].asOf)
                 ELSE observer' = observer
        BY <3>1 DEF FetchAnswered
      <4>2. IsAnswer(inbox[i])
        BY <4>1, Arrived DEF IsAnswer
      <4> QED
        BY <4>1, <4>2
    <3>2. CASE CountAnswered
      <4>1. PICK i \in DOMAIN inbox :
              /\ Arrives(i, {"count"}) /\ queue' = queue
              /\ observer' = IF Wants(inbox[i].generation)
                             THEN Taken(inbox[i].count, inbox[i].asOf) ELSE observer
        BY <3>2 DEF CountAnswered
      <4>2. IsAnswer(inbox[i])
        BY <4>1, Arrived DEF IsAnswer
      <4> QED
        BY <4>1, <4>2
    <3>3. CASE ErrorAnswered
      <4>1. PICK i \in DOMAIN inbox :
              /\ Arrives(i, {"fetch", "count"}) /\ queue' = queue
              /\ observer' = IF Wants(inbox[i].generation)
                             THEN Reported(inbox[i].asOf) ELSE observer
        BY <3>3 DEF ErrorAnswered
      <4>2. IsAnswer(inbox[i])
        BY <4>1, Arrived DEF IsAnswer
      <4> QED
        BY <4>1, <4>2
    <3>4. CASE OnceAnswered
      BY <3>4 DEF OnceAnswered
    <3> QED
      BY <1>8, <3>1, <3>2, <3>3, <3>4
  <2>2. /\ observer'.generation = observer.generation
        /\ \/ observer'.asOf = observer.asOf
           \/ Newest(inbox[i]) /\ observer'.asOf = inbox[i].asOf
    <3>1. CASE observer' = observer
      BY <3>1
    <3>2. CASE \E result : observer' = Taken(result, inbox[i].asOf)
      <4>1. PICK result : observer' = Taken(result, inbox[i].asOf)
        BY <3>2
      <4>2. observer'.generation = observer.generation /\ observer'.asOf = inbox[i].asOf
        BY <1>1, <4>1, TakenIs
      <4> QED
        BY <2>1, <4>2 DEF Newest, Wants
    <3>3. CASE observer' = Reported(inbox[i].asOf)
      <4>1. observer'.generation = observer.generation /\ observer'.asOf = inbox[i].asOf
        BY <1>1, <3>3, ReportedIs
      <4> QED
        BY <2>1, <4>1 DEF Newest, Wants
    <3> QED
      BY <2>1, <3>1, <3>2, <3>3
  <2> QED
    BY <2>1, <2>2, NewestArrived
<1>9. ASSUME NEW i \in DOMAIN inbox, NEW kinds, Arrives(i, kinds), UNCHANGED <<env, storage>>,
             NEW x, Notify(x)
      PROVE  OneNewest' /\ observer'.asOf >= observer.asOf
  <2>1. CASE observer' = Refetched(Forgetting(x)) /\ PostFetch(queue)
    <3>0. /\ ObserverOK(Forgetting(x)) /\ Forgetting(x).asOf = observer.asOf
          /\ Forgetting(x).generation = observer.generation
      BY <1>1, ForgettingIs
    <3>1. observer'.asOf = observer.asOf
      BY <2>1, <3>0, RefetchedIs
    <3>2. \A j \in DOMAIN inbox' : \E k \in DOMAIN inbox : inbox'[j] = inbox[k]
      BY <1>9, Arrived
    <3>3. UNCHANGED env /\ version' = version
      BY <1>9 DEF storage
    <3>4. OneNewest'
      BY <1>1, <2>1, <3>0, <3>2, <3>3, NewestPosted
    <3> QED
      BY <1>1, <3>1, <3>4
  <2>2. CASE observer' = observer /\ queue' = queue
    BY <1>9, <2>2, NewestArrived
  <2> QED
    BY <1>9, <2>1, <2>2 DEF Notify
<1>10. CASE BatchAnswered
  <2>1. PICK i \in DOMAIN inbox :
          Arrives(i, {"batch"}) /\ Notify(inbox[i].change) /\ UNCHANGED <<env, storage>>
    BY <1>10 DEF BatchAnswered, Announce
  <2> QED
    BY <1>9, <2>1
<1>11. CASE ExternalAnnounced
  <2>1. PICK i \in DOMAIN inbox :
          /\ Arrives(i, {"external"})
          /\ IF Unseen(inbox[i].change)
             THEN /\ observer' = [observer EXCEPT
                        !.missed = @ \/ (observer.listeners > 0
                                        /\ inbox[i].change.table \in Asked.tables)]
                  /\ queue' = queue
             ELSE Notify(AsApplied(inbox[i].change))
          /\ UNCHANGED <<env, storage>>
    BY <1>11 DEF ExternalAnnounced, Announce
  <2>2. CASE ~Unseen(inbox[i].change)
    BY <1>9, <2>1, <2>2
  <2>3. CASE Unseen(inbox[i].change)
    <3>1. PICK missed : missed = (observer.missed \/ (observer.listeners > 0
                                                     /\ inbox[i].change.table \in Asked.tables))
      OBVIOUS
    <3>2. observer' = [observer EXCEPT !.missed = missed] /\ queue' = queue
      BY <2>1, <2>3, <3>1
    <3>3. observer' = [listeners |-> observer.listeners, value |-> observer.value,
             latest |-> observer.latest, generation |-> observer.generation,
             previous |-> observer.previous, asOf |-> observer.asOf,
             failed |-> observer.failed, missed |-> missed, kept |-> observer.kept]
      BY <1>1, <3>2 DEF ObserverOK
    <3>4. observer'.generation = observer.generation /\ observer'.asOf = observer.asOf
      BY <3>3
    <3> QED
      BY <2>1, <3>2, <3>4, NewestArrived
  <2> QED
    BY <2>2, <2>3
<1> QED
  BY <1>2, <1>3, <1>4, <1>5, <1>6, <1>7, <1>8, <1>10, <1>11 DEF Next

-----------------------------------------------------------------------------
(* The invariant, and what follows from it.                                *)

LEMMA InitIInv ==
    ASSUME Init
    PROVE  IInv
<1>1. /\ EnvOK /\ version = 0 /\ spent = 0
      /\ models = {} /\ orphans = {} /\ partial = {}
      /\ queue = <<>> /\ inbox = <<>> /\ relay = <<>>
  BY DEF Init, EnvOK
<1>2. /\ IsSeq(queue) /\ IsSeq(inbox) /\ IsSeq(relay)
      /\ \A i : i \notin DOMAIN queue /\ i \notin DOMAIN inbox /\ i \notin DOMAIN relay
  BY <1>1, NoElements
<1>3. QueueOK /\ InboxOK /\ RelayOK
  BY <1>2 DEF QueueOK, InboxOK, RelayOK
<1>4. StoreOK /\ MaxExtras \in Nat
  BY <1>1, QueriesAnswer, ObserveAssumption DEF Init, StoreOK
<1>5. /\ DOMAIN cache = Tables
      /\ \A t \in Tables : DOMAIN cache[t] = TableIds[t] /\ \A id \in TableIds[t] : cache[t][id] = NoRow
  BY DEF Init
<1>6. CacheOK
  BY <1>5 DEF CacheOK
<1>7. PICK loading, nothing : loading = Loading /\ nothing = Nothing
  OBVIOUS
<1>8. observer = [listeners |-> 0, value |-> loading, latest |-> nothing, generation |-> 0,
                  previous |-> <<>>, asOf |-> 0, failed |-> FALSE, missed |-> FALSE,
                  kept |-> FALSE]
  BY <1>7 DEF Init
<1>9. /\ observer.listeners = 0 /\ observer.value = loading /\ observer.latest = nothing
      /\ observer.generation = 0 /\ observer.previous = <<>> /\ observer.asOf = 0
      /\ ~observer.failed /\ ~observer.missed
      /\ observer.failed \in BOOLEAN /\ observer.missed \in BOOLEAN
  BY <1>8
<1>10. observer = [listeners |-> observer.listeners, value |-> observer.value,
                   latest |-> observer.latest, generation |-> observer.generation,
                   previous |-> observer.previous, asOf |-> observer.asOf,
                   failed |-> observer.failed, missed |-> observer.missed,
                 kept |-> observer.kept]
  BY <1>8
<1>11. ObserverOK(observer)
  BY <1>1, <1>9, <1>10 DEF ObserverOK
<1>12. ModelsOK
  BY <1>1 DEF ModelsOK
<1>13. Typed
  BY <1>1, <1>3, <1>4, <1>6, <1>11, <1>12 DEF Typed
<1>14. Alone /\ BatchFits
  BY <1>2 DEF Alone, BatchFits
<1>15. OrderedInv
  BY <1>1, <1>2, <1>5 DEF OrderedInv, CacheStands, AnswersStand, ChangesStand, ModelsCached
<1>16. UnorderedInv
  BY <1>2, <1>5 DEF UnorderedInv, NoSurprise
<1>17. Emitted
  BY <1>7, <1>9 DEF Emitted
<1>18. NewestIsRight /\ ShownIsRight
  BY <1>9 DEF NewestIsRight, ShownIsRight
<1>19. OneNewest
  BY <1>2 DEF OneNewest
<1> QED
  BY <1>13, <1>14, <1>15, <1>16, <1>17, <1>18, <1>19 DEF IInv, ObserverInv

LEMMA NextIInv ==
    ASSUME IInv, [Next]_vars
    PROVE  IInv'
<1>1. Step
  BY Steps DEF IInv
<1>2. Typed'
  BY TypedStep DEF IInv
<1>3. Alone' /\ BatchFits' /\ OrderedInv' /\ UnorderedInv'
  BY <1>1, AloneStep, BatchFitsStep, OrderedStep, UnorderedStep DEF IInv
<1>4. ObserverInv' /\ OneNewest'
  BY ObserverStep, NewestStep DEF IInv
<1> QED
  BY <1>2, <1>3, <1>4 DEF IInv

LEMMA Invariant == Spec => []IInv
<1>1. Init => IInv
  BY InitIInv
<1>2. IInv /\ [Next]_vars => IInv'
  BY NextIInv
<1> QED
  BY <1>1, <1>2, PTL DEF Spec

(* The identity map cannot desync (RecordCache.ts:1-10), for any tables    *)
(* and rows, any number of commits of this context and of others, and any  *)
(* fetches between them: with answers in order the raws of the cache are   *)
(* the rows of storage unless a change is on its way, and a Model wraps    *)
(* the raw of its id.                                                      *)
THEOREM CacheDoesNotDesync == Spec => []IdentityMap
<1>1. IInv => IdentityMap
  <2> SUFFICES ASSUME IInv PROVE IdentityMap
    OBVIOUS
  <2>1. TypeOK
    BY StorageShape, ObserveAssumption
       DEF IInv, Typed, EnvOK, StoreOK, CacheOK, ModelsOK, ObserverOK, TypeOK
  <2>2. ASSUME ordered, NEW t \in Tables, NEW id \in TableIds[t],
               cache[t][id] # NoRow, ~Pending(t, id), <<t, id>> \notin partial
        PROVE  Live(store[t][id]) /\ cache[t][id] = SanitizedRaw(store[t][id])
    <3>1. \A c : ~ComesAfter(inbox, 0, t, id, c) /\ ~ComesAfter(relay, 0, t, id, c)
      BY <2>2 DEF ComesAfter, Touches, Pending, IsChange
    <3>2. \A c \in Columns : Agrees(store, t, id, c, cache[t][id][c])
      BY <2>2, <3>1 DEF IInv, OrderedInv, CacheStands, Stands
    <3>3. Live(store[t][id]) /\ \A c \in Columns : cache[t][id][c] = SanitizedRaw(store[t][id])[c]
      BY <3>2 DEF Agrees, Columns
    <3>4. IsRaw(id, cache[t][id]) /\ IsRaw(id, SanitizedRaw(store[t][id]))
      BY <2>2, <3>3, StoredRow DEF IInv, Typed, CacheOK, StoreOK
    <3> QED
      BY <3>3, <3>4, RawsEqual
  <2>3. ordered => orphans = {} /\ CacheIsStorage(partial)
    BY <2>2 DEF CacheIsStorage, IInv, OrderedInv, ModelsCached
  <2> QED
    BY <2>1, <2>3 DEF IdentityMap
<1> QED
  BY <1>1, Invariant, PTL

(* Once everything posted has been answered, the hooks show what the query *)
(* asks of storage and no error, or the last refetch's error (Query.ts:1-10),*)
(* for any query that answers from its tables alone: through commits of    *)
(* this context and of others, failed statements, answers that overtake    *)
(* each other and components that come and go.  What is excused is what    *)
(* ObserverRight names.                                                    *)
THEOREM ShowsWhatIsAsked == Spec => []ObserverRight
<1>1. IInv => ObserverRight
  <2> SUFFICES ASSUME IInv, Quiet, ~Excused PROVE UpToDate
    BY DEF ObserverRight
  <2>1. \A i : i \notin DOMAIN queue /\ i \notin DOMAIN inbox /\ i \notin DOMAIN relay
    BY NoElements DEF Quiet
  <2>2. ~NewsComing /\ ~AnswerComing
    BY <2>1 DEF NewsComing, News, AnswerComing
  <2>3. observer.listeners = 0 \/ observer.listeners > 0
    BY DEF IInv, Typed, ObserverOK
  <2>4. CASE observer.listeners = 0
    BY <2>4 DEF IInv, ObserverInv, Emitted, UpToDate
  <2>5. CASE observer.listeners > 0
    BY <2>2, <2>5 DEF IInv, ObserverInv, ShownIsRight
  <2> QED
    BY <2>3, <2>4, <2>5
<1> QED
  BY <1>1, Invariant, PTL

(* An answer read at an older commit never replaces one read at a newer    *)
(* (Query.ts: refetch's generation), whatever order answers arrive in.     *)
THEOREM AnswersOnlyAdvance == Spec => NeverBackwards
<1>1. IInv /\ [Next]_vars => [observer'.asOf >= observer.asOf]_vars
  BY NewestStep DEF IInv
<1> QED
  BY <1>1, Invariant, PTL DEF Spec, NeverBackwards

=============================================================================
