---------------------- MODULE EngineInterleaving_proofs ----------------------
(***************************************************************************)
(* The engine's handlers over store-drizzle, store call by store call, for *)
(* any devices, tables, requests and pruning.                              *)
(***************************************************************************)
EXTENDS EngineInterleaving, SyncServer_proofs, WellFoundedInduction

(***************************************************************************)
(* Why a device's clean rows agree: the inductive invariant.  A pull       *)
(* answers from a snapshot the server has not gone back behind, at a cursor*)
(* that is the snapshot's last revision.  A push writes above everything   *)
(* served, so its commit changes nothing a cursor has reached; and it      *)
(* collects its answer before it reads the floor, so no deletion is missing*)
(* from an answer that a cursor comes with.                                *)
(***************************************************************************)
View == [rows : [Id -> StoredRow], floor : Nat \cup {Unread}]

\* What a handler holds, in the domains.
JobRecord ==
  [at : Labels, since : Nat \cup {NoCursor}, low : Nat \cup {Unread},
   top : Nat \cup {NoCursor}, left : SUBSET Id, got : [Id -> Change], view : View,
   request : [Id -> LocalRow], refused : SUBSET Id, ups : SUBSET Id, dels : SUBSET Id,
   mine : UNION {[S -> StoredRow] : S \in SUBSET Id}]

JobsTyped ==
  /\ rows \in [Device -> [Id -> LocalRow]]
  /\ job \in [Device -> JobRecord]

\* The server's history.
HistoryInv == HistoryBounded /\ UnstoredIsGone

\* One push at a time is past the scope's lock.
LockInv == \A d, e \in Device : job[d].at \in Pushing /\ job[e].at \in Pushing => d = e

Pulling == {"pull", "horizon", "gather"}

ViewTop(d) == TopOf(job[d].view.rows, job[d].view.floor)

\* A pull sees one snapshot, of what had been served; nobody else has one.
ViewInv(d) ==
  IF job[d].at \notin Pulling THEN job[d].view = NoView
  ELSE /\ job[d].view.floor \in Nat /\ job[d].view.floor <= EffMax
       /\ \A i \in Id :
            /\ job[d].view.rows[i].rev <= EffMax
            /\ job[d].view.rows[i].rev = 0 => job[d].view.rows[i].body = Gone

\* The server has not gone back behind it: what a cursor of its time reaches now,
\* it reached then, with the same body.
ViewReached(d) ==
  job[d].at \in Pulling =>
    \A i \in Id, c \in 0 .. ViewTop(d) :
      floor <= c /\ srv[i].rev <= c =>
        /\ job[d].view.floor <= c /\ job[d].view.rows[i].rev <= c
        /\ job[d].view.rows[i].body = srv[i].body

\* The device's clean rows agree with the snapshot as far as its cursor goes.
ViewAgrees(d) ==
  job[d].at \in Pulling /\ job[d].since # NoCursor =>
    /\ job[d].since = cursor[d]
    /\ \A i \in Id :
         /\ job[d].view.floor <= job[d].since
         /\ job[d].view.rows[i].rev <= job[d].since
         /\ ~IsDirty(rows[d][i])
         => rows[d][i].data = job[d].view.rows[i].body

\* What a pull has collected is the snapshot's, table by table, and its cursor
\* the snapshot's last revision.
GatherInv(d) ==
  /\ job[d].at \in {"horizon", "gather"} => job[d].low = job[d].view.floor
  /\ job[d].at = "gather" =>
       /\ job[d].top = ViewTop(d)
       /\ job[d].since # NoCursor => job[d].low <= job[d].since
       /\ \A i \in Id \ job[d].left :
            job[d].got[i] =
              IF job[d].view.rows[i].rev <= (IF job[d].since = NoCursor THEN 0 ELSE job[d].since)
                THEN Omitted ELSE job[d].view.rows[i].body

PullInv(d) == ViewInv(d) /\ ViewReached(d) /\ ViewAgrees(d) /\ GatherInv(d)

\* A push carries the device's dirty rows as they are, and its cursor; it has no
\* answer before it has written, and no floor before it writes.
RequestInv(d) ==
  /\ job[d].at \in {"lock", "accepted"} \cup Pushing =>
       /\ job[d].since = cursor[d] /\ cursor[d] # NoCursor
       /\ job[d].request = [k \in Id |-> Frozen(rows[d][k])]
  /\ job[d].at \in {"lock", "scan", "refuse", "write"} => job[d].top = NoCursor
  /\ job[d].at \in {"lock", "scan", "refuse"} => job[d].low = Unread

Writing(d) == job[d].at \in {"write", "top"}

Asked(d) == Named(job[d].request) \ job[d].refused

\* Uncommitted rows are a push's own, under revisions nobody was served.
MineInv(d) ==
  LET mine == job[d].mine
  IN  /\ ~Writing(d) => DOMAIN mine = {}
      /\ DOMAIN mine \subseteq Asked(d)
      /\ \A k \in DOMAIN mine : EffMax < mine[k].rev /\ mine[k].rev <= rev

\* What was asked is stored or still to be written, and no upsert is aimed at a
\* tombstone.
WriteInv(d) ==
  Writing(d) =>
    /\ job[d].ups \subseteq Asked(d) \cap Upserts(job[d].request)
    /\ job[d].dels \subseteq Asked(d) \cap Deletes(job[d].request)
    /\ \A i \in job[d].ups : ~IsTombstone(SeenRows(d)[i])
    /\ \A i \in Asked(d) :
         i \in job[d].ups \cup job[d].dels \/ SeenRows(d)[i].body = job[d].request[i].data
    /\ job[d].at = "top" => job[d].ups = {} /\ job[d].dels = {}

\* An answer above the floor: what it names of an unasked id is the server's row;
\* what it omits the device has, since no deletion is missing below its floor.
AnswerInv(d) ==
  job[d].at = "write" \/ (job[d].at = "top" /\ job[d].top # NoCursor) =>
    /\ \A i \in Id \ job[d].left :
         IF i \in Named(job[d].request) THEN job[d].got[i] = Omitted
         ELSE IF job[d].got[i] = Omitted THEN srv[i].rev <= job[d].since
         ELSE job[d].got[i] = srv[i].body
    /\ job[d].low # Unread =>
         /\ job[d].left = {} /\ job[d].low <= floor
         /\ job[d].low <= job[d].since =>
              \A i \in Id \ Named(job[d].request) :
                job[d].got[i] = Omitted /\ ~IsDirty(rows[d][i]) =>
                  rows[d][i].data = srv[i].body
    /\ job[d].at = "top" =>
         /\ job[d].low # Unread /\ job[d].low <= job[d].since
         /\ job[d].top <= TopOf(SeenRows(d), floor)

\* Below the floor there is neither a cursor nor a change.
DegradedInv(d) ==
  job[d].at \in {"top", "accepted"} /\ job[d].top = NoCursor =>
    job[d].since < floor /\ job[d].got = NoChanges

\* A row of a device once its push is delivered.
Final(d, i) ==
  ApplyChange(MarkSynced(rows[d][i], job[d].request[i], i \in job[d].refused),
              job[d].got[i], FALSE)

\* An accepted push leaves its device in agreement with its cursor.
AcceptedInv(d) ==
  job[d].at = "accepted" /\ job[d].top # NoCursor =>
    /\ job[d].top <= EffMax
    /\ \A i \in Id :
         floor <= job[d].top /\ srv[i].rev <= job[d].top /\ ~IsDirty(Final(d, i)) =>
           Final(d, i).data = srv[i].body

PushInv(d) ==
  RequestInv(d) /\ MineInv(d) /\ WriteInv(d) /\ AnswerInv(d) /\ DegradedInv(d) /\ AcceptedInv(d)

EngineInv ==
  /\ Consistent /\ JobsTyped /\ HistoryInv /\ LockInv
  /\ \A d \in Device : PullInv(d) /\ PushInv(d)

-----------------------------------------------------------------------------
(***************************************************************************)
(* Tops, domains, and what the store shows a handler.                      *)
(***************************************************************************)
\* A bounded set of naturals has a highest.
LEMMA BoundedHasMax ==
  ASSUME NEW B \in Nat, NEW S, S \subseteq Nat, S # {}, \A x \in S : x <= B
  PROVE  \E m \in S : \A x \in S : x <= m
<1> DEFINE T == {B - x : x \in S}
<1>1. T \subseteq Nat /\ T # {}
  <2>1. \A x \in S : B - x \in Nat
    OBVIOUS
  <2> QED
    BY <2>1
<1>2. \E t \in T : \A u \in T : ~ (<<u, t>> \in OpToRel(<, Nat))
  BY <1>1, NatLessThanWellFounded, WFMin
<1>3. PICK t \in T : \A u \in T : ~ (u < t)
  <2>1. \A u, t \in Nat : <<u, t>> \in OpToRel(<, Nat) <=> u < t
    BY DEF OpToRel
  <2> QED
    BY <1>1, <1>2, <2>1
<1>4. PICK m \in S : t = B - m
  OBVIOUS
<1>5. ASSUME NEW x \in S PROVE x <= m
  <2>1. ~ (B - x < B - m) /\ x \in Nat /\ m \in Nat
    BY <1>3, <1>4
  <2> QED
    BY <2>1
<1> QED
  BY <1>5

\* The choice in TopOf is the highest revision of any stored rows that are bounded.
LEMMA TopOfBounded ==
  ASSUME NEW r \in [Id -> StoredRow], NEW low \in Nat, NEW B \in Nat, low <= B,
         \A i \in Id : r[i].rev <= B
  PROVE  /\ TopOf(r, low) \in Nat /\ low <= TopOf(r, low) /\ TopOf(r, low) <= B
         /\ \A i \in Id : r[i].rev <= TopOf(r, low)
         /\ TopOf(r, low) \in {low} \cup {r[i].rev : i \in Id}
         /\ Topped(r, low)
<1> DEFINE revs == {low} \cup {r[i].rev : i \in Id}
<1>1. revs \subseteq Nat /\ revs # {} /\ \A x \in revs : x <= B
  BY DEF StoredRow
<1>2. \E m \in revs : \A n \in revs : n <= m
  BY <1>1, BoundedHasMax
<1>3. TopOf(r, low) \in revs /\ \A n \in revs : n <= TopOf(r, low)
  BY <1>2 DEF TopOf
<1>4. Topped(r, low)
  BY <1>3 DEF Topped
<1> QED
  BY <1>1, <1>3, <1>4

\* Served history lies between the floor and the last revision.
LEMMA Served ==
  ASSUME ServerTypeOK, HistoryInv
  PROVE  /\ EffMax \in Nat /\ rev \in Nat /\ floor \in Nat
         /\ floor <= EffMax /\ EffMax <= rev /\ floor <= rev
         /\ \A i \in Id : /\ srv[i] \in StoredRow /\ srv[i].rev \in Nat
                         /\ srv[i].rev <= EffMax
<1>1. /\ srv \in [Id -> StoredRow] /\ rev \in Nat /\ floor \in Nat /\ floor <= rev
      /\ \A i \in Id : srv[i].rev <= rev /\ srv[i].rev \in Nat
  BY DEF ServerTypeOK, HistoryInv, HistoryBounded, UnstoredIsGone, StoredRow
<1> QED
  BY <1>1, TopOfBounded DEF EffMax

\* What a handler sees are stored rows: the snapshot's, its own or the committed.
LEMMA SeenRow ==
  ASSUME ServerTypeOK, JobsTyped, NEW d \in Device
  PROVE  /\ SeenRows(d) \in [Id -> StoredRow]
         /\ job[d].view # NoView => SeenRows(d) = job[d].view.rows
         /\ job[d].view = NoView =>
              \A i \in Id : SeenRows(d)[i] =
                IF i \in DOMAIN job[d].mine THEN job[d].mine[i] ELSE srv[i]
<1>1. job[d].view \in View /\ job[d].mine \in UNION {[S -> StoredRow] : S \in SUBSET Id}
  BY DEF JobsTyped, JobRecord
<1>2. \A i \in DOMAIN job[d].mine : job[d].mine[i] \in StoredRow
  BY <1>1
<1>3. job[d].view.rows \in [Id -> StoredRow]
  BY <1>1 DEF View
<1>4. CASE job[d].view = NoView
  BY <1>2, <1>4 DEF SeenRows, ServerTypeOK
<1>5. CASE job[d].view # NoView
  BY <1>3, <1>5 DEF SeenRows
<1> QED
  BY <1>4, <1>5

\* The domains of a handler that starts.
LEMMA NoJobTyped == NoJob \in JobRecord
<1>1. NoView \in View
  BY DEF NoView, View, Unstored, StoredRow, Unread, Body
<1>2. NoRequest \in [Id -> LocalRow] /\ NoChanges \in [Id -> Change]
  BY AbsentWellFormed DEF NoRequest, NoChanges, Change, WellFormed
<1>3. NoWrites \in UNION {[S -> StoredRow] : S \in SUBSET Id}
  <2>1. NoWrites \in [{} -> StoredRow] /\ {} \in SUBSET Id
    BY DEF NoWrites
  <2> QED
    BY <2>1
<1>4. "idle" \in Labels /\ 0 \in Nat
  BY DEF Labels
<1> QED
  BY <1>1, <1>2, <1>3, <1>4 DEF NoJob, JobRecord, Unread, NoCursor

\* A handler that only reads keeps every domain when what it holds is in its own.
LEMMA ReadsTyped ==
  ASSUME TypeOK, JobsTyped, NEW d \in Device, NEW new \in JobRecord, Reads(d, new)
  PROVE  TypeOK' /\ JobsTyped'
<1>1. /\ job' = [job EXCEPT ![d] = new] /\ rows' = rows /\ cursor' = cursor
      /\ srv' = srv /\ rev' = rev /\ floor' = floor /\ acked' = acked
  BY DEF Reads, Become, serverVars
<1>2. job' \in [Device -> JobRecord]
  BY <1>1 DEF JobsTyped
<1>3. \A e \in Device : /\ job'[e].at \in Labels /\ job'[e].low \in Nat \cup {Unread}
                        /\ job'[e].top \in Nat \cup {NoCursor}
                        /\ job'[e].got \in [Id -> Change]
  BY <1>2 DEF JobRecord
<1> QED
  BY <1>1, <1>2, <1>3 DEF TypeOK, JobsTyped, ServerTypeOK

\* A handler's fields, and its device's rows and cursor.
LEMMA JobFields ==
  ASSUME TypeOK, JobsTyped, NEW d \in Device
  PROVE  /\ job[d] \in JobRecord
         /\ job[d].at \in Labels /\ job[d].since \in Nat \cup {NoCursor}
         /\ job[d].low \in Nat \cup {Unread} /\ job[d].top \in Nat \cup {NoCursor}
         /\ job[d].left \in SUBSET Id /\ job[d].got \in [Id -> Change]
         /\ job[d].view \in View /\ job[d].view.rows \in [Id -> StoredRow]
         /\ job[d].request \in [Id -> LocalRow]
         /\ job[d].refused \in SUBSET Id
         /\ job[d].ups \in SUBSET Id /\ job[d].dels \in SUBSET Id
         /\ DOMAIN job[d].mine \subseteq Id
         /\ \A i \in DOMAIN job[d].mine : job[d].mine[i] \in StoredRow
         /\ \A i \in Id : rows[d][i] \in LocalRow /\ WellFormed(rows[d][i])
         /\ cursor[d] \in Nat \cup {NoCursor}
<1>1. job[d] \in JobRecord
  BY DEF JobsTyped
<1>2. job[d].view.rows \in [Id -> StoredRow]
  BY <1>1 DEF JobRecord, View
<1>3. /\ DOMAIN job[d].mine \subseteq Id
      /\ \A i \in DOMAIN job[d].mine : job[d].mine[i] \in StoredRow
  <2>1. job[d].mine \in UNION {[S -> StoredRow] : S \in SUBSET Id}
    BY <1>1 DEF JobRecord
  <2> QED
    BY <2>1
<1>4. \A i \in Id : rows[d][i] \in LocalRow /\ WellFormed(rows[d][i])
  BY DEF JobsTyped, TypeOK
<1>5. cursor[d] \in Nat \cup {NoCursor}
  BY DEF TypeOK
<1> QED
  BY <1>1, <1>2, <1>3, <1>4, <1>5 DEF JobRecord

\* A push's uncommitted rows are no newer than the last revision.
LEMMA SeenBounded ==
  ASSUME EngineInv, NEW d \in Device, job[d].view = NoView
  PROVE  \A i \in Id : SeenRows(d)[i].rev <= rev
<1>1. \A k \in DOMAIN job[d].mine : job[d].mine[k].rev <= rev
  BY DEF EngineInv, PushInv, MineInv
<1>2. \A i \in Id : srv[i].rev <= rev
  BY DEF EngineInv, HistoryInv, HistoryBounded
<1> QED
  BY <1>1, <1>2, SeenRow DEF EngineInv, Consistent, TypeOK

\* The tops a handler computes.
LEMMA TopsTyped ==
  ASSUME EngineInv, NEW d \in Device
  PROVE  /\ At(d, "horizon") =>
              /\ job[d].low = job[d].view.floor /\ SeenRows(d) = job[d].view.rows
              /\ TopOf(SeenRows(d), job[d].low) = ViewTop(d) /\ ViewTop(d) \in Nat
         /\ job[d].at \in Pulling =>
              /\ ViewTop(d) \in Nat /\ job[d].view.floor \in Nat
              /\ job[d].view.floor <= ViewTop(d) /\ ViewTop(d) <= EffMax
              /\ \A i \in Id : job[d].view.rows[i].rev <= ViewTop(d)
              /\ SeenRows(d) = job[d].view.rows /\ SeenFloor(d) = job[d].view.floor
         /\ job[d].at \notin Pulling =>
              /\ job[d].view = NoView /\ SeenFloor(d) = floor
              /\ \A low \in 0 .. floor :
                   /\ TopOf(SeenRows(d), low) \in Nat
                   /\ TopOf(SeenRows(d), low) <= TopOf(SeenRows(d), floor)
                   /\ TopOf(SeenRows(d), floor) \in Nat /\ floor <= TopOf(SeenRows(d), floor)
                   /\ \A i \in Id : SeenRows(d)[i].rev <= TopOf(SeenRows(d), floor)
<1>0. TypeOK /\ ServerTypeOK /\ JobsTyped /\ HistoryInv /\ ViewInv(d) /\ GatherInv(d)
  BY DEF EngineInv, Consistent, TypeOK, PullInv
<1>1. CASE job[d].at \in Pulling
  <2>1. /\ job[d].view.floor \in Nat /\ job[d].view.floor <= EffMax
        /\ \A i \in Id : job[d].view.rows[i].rev <= EffMax
    BY <1>0, <1>1 DEF ViewInv
  <2>2. job[d].view # NoView
    BY <2>1 DEF NoView, Unread
  <2>3. EffMax \in Nat /\ job[d].view.rows \in [Id -> StoredRow]
    BY <1>0, Served, JobFields
  <2>4. /\ ViewTop(d) \in Nat /\ job[d].view.floor <= ViewTop(d) /\ ViewTop(d) <= EffMax
        /\ \A i \in Id : job[d].view.rows[i].rev <= ViewTop(d)
    BY <2>1, <2>3, TopOfBounded DEF ViewTop
  <2>5. SeenRows(d) = job[d].view.rows /\ SeenFloor(d) = job[d].view.floor
    BY <2>2 DEF SeenRows, SeenFloor
  <2>6. At(d, "horizon") => job[d].low = job[d].view.floor
    BY <1>0 DEF At, GatherInv
  <2> QED
    BY <1>1, <2>1, <2>4, <2>5, <2>6 DEF ViewTop
<1>2. CASE job[d].at \notin Pulling
  <2>1. job[d].view = NoView
    BY <1>0, <1>2 DEF ViewInv
  <2>2. ~At(d, "horizon")
    BY <1>2 DEF At, Pulling
  <2>3. SeenFloor(d) = floor
    BY <2>1 DEF SeenFloor
  <2>4. rev \in Nat /\ floor \in Nat /\ floor <= rev
    BY <1>0, Served
  <2>5. SeenRows(d) \in [Id -> StoredRow] /\ \A i \in Id : SeenRows(d)[i].rev <= rev
    BY <1>0, <2>1, SeenRow, SeenBounded
  <2>6. ASSUME NEW low \in 0 .. floor
        PROVE  /\ TopOf(SeenRows(d), low) \in Nat
               /\ TopOf(SeenRows(d), low) <= TopOf(SeenRows(d), floor)
               /\ TopOf(SeenRows(d), floor) \in Nat /\ floor <= TopOf(SeenRows(d), floor)
               /\ \A i \in Id : SeenRows(d)[i].rev <= TopOf(SeenRows(d), floor)
    <3>1. low \in Nat /\ low <= floor /\ low <= rev
      BY <2>4, <2>6
    <3>2. /\ TopOf(SeenRows(d), low) \in Nat
          /\ TopOf(SeenRows(d), low) \in {low} \cup {SeenRows(d)[i].rev : i \in Id}
      BY <2>4, <2>5, <3>1, TopOfBounded
    <3>3. /\ TopOf(SeenRows(d), floor) \in Nat /\ floor <= TopOf(SeenRows(d), floor)
          /\ \A i \in Id : SeenRows(d)[i].rev <= TopOf(SeenRows(d), floor)
      BY <2>4, <2>5, TopOfBounded
    <3>4. TopOf(SeenRows(d), low) <= TopOf(SeenRows(d), floor)
      BY <2>4, <3>1, <3>2, <3>3
    <3> QED
      BY <3>2, <3>3, <3>4
  <2> QED
    BY <1>2, <2>1, <2>2, <2>3, <2>6
<1> QED
  BY <1>1, <1>2

-----------------------------------------------------------------------------
(***************************************************************************)
(* What each step leaves in its handler's job.                             *)
(***************************************************************************)
\* The handlers' places, one by one.
LEMMA FieldsAt ==
  ASSUME NEW j \in JobRecord, NEW at \in Labels
  PROVE  LET n == [j EXCEPT !.at = at]
         IN  /\ n \in JobRecord /\ n.at = at
             /\ n.since = j.since /\ n.low = j.low /\ n.top = j.top /\ n.left = j.left
             /\ n.got = j.got /\ n.view = j.view /\ n.request = j.request
             /\ n.refused = j.refused /\ n.ups = j.ups /\ n.dels = j.dels /\ n.mine = j.mine
BY DEF JobRecord

\* The fields of a handler that starts.
LEMMA NoJobFields ==
  /\ NoJob.at = "idle" /\ NoJob.since = 0 /\ NoJob.low = Unread /\ NoJob.top = NoCursor
  /\ NoJob.left = {} /\ NoJob.got = NoChanges /\ NoJob.view = NoView
  /\ NoJob.request = NoRequest /\ NoJob.refused = {} /\ NoJob.ups = {} /\ NoJob.dels = {}
  /\ NoJob.mine = NoWrites /\ DOMAIN NoWrites = {}
BY DEF NoJob, NoWrites

\* The job of a pull at its start.
LEMMA PullJobFields ==
  ASSUME TypeOK, Isolated, NEW since \in Nat \cup {NoCursor}
  PROVE  /\ PullJob(since) \in JobRecord
         /\ PullJob(since).at = "pull" /\ PullJob(since).since = since
         /\ PullJob(since).view = [rows |-> srv, floor |-> floor]
         /\ DOMAIN PullJob(since).mine = {}
<1> DEFINE v == [rows |-> srv, floor |-> floor]
<1>1. v \in View
  BY DEF TypeOK, ServerTypeOK, View
<1>2. "pull" \in Labels
  BY DEF Labels
<1>3. PullJob(since) = [NoJob EXCEPT !.at = "pull", !.since = since, !.view = v]
  BY DEF PullJob
<1> HIDE DEF v
<1>4. PICK j \in JobRecord : j = NoJob
  BY NoJobTyped
<1>5. /\ [j EXCEPT !.at = "pull", !.since = since, !.view = v] \in JobRecord
      /\ [j EXCEPT !.at = "pull", !.since = since, !.view = v].at = "pull"
      /\ [j EXCEPT !.at = "pull", !.since = since, !.view = v].since = since
      /\ [j EXCEPT !.at = "pull", !.since = since, !.view = v].view = v
      /\ [j EXCEPT !.at = "pull", !.since = since, !.view = v].mine = j.mine
  BY <1>1, <1>2 DEF JobRecord
<1> QED
  BY <1>3, <1>4, <1>5, NoJobFields DEF v

\* The floor a pull reads is its snapshot's.
LEMMA PullFloorFields ==
  ASSUME EngineInv, NEW d \in Device, PullFloor(d)
  PROVE  \E n \in JobRecord :
           /\ Reads(d, n) /\ At(d, "pull") /\ n.at = "horizon"
           /\ n.low = job[d].view.floor /\ n.since = job[d].since
           /\ n.view = job[d].view /\ n.mine = job[d].mine
<1>0. TypeOK /\ ServerTypeOK /\ JobsTyped
  BY DEF EngineInv, Consistent, TypeOK
<1>1. job[d].at \in Pulling
  BY DEF PullFloor, At, Pulling
<1>2. SeenFloor(d) = job[d].view.floor /\ SeenFloor(d) \in Nat /\ "horizon" \in Labels
  BY <1>1, TopsTyped DEF Labels
<1>3. PICK j \in JobRecord : j = job[d]
  BY <1>0, JobFields
<1>4. LET n == [j EXCEPT !.at = "horizon", !.low = SeenFloor(d)]
      IN  /\ n \in JobRecord /\ n.at = "horizon" /\ n.low = SeenFloor(d)
          /\ n.since = j.since /\ n.view = j.view /\ n.mine = j.mine
  BY <1>2 DEF JobRecord
<1>5. Reads(d, [j EXCEPT !.at = "horizon", !.low = SeenFloor(d)]) /\ At(d, "pull")
  BY <1>3 DEF PullFloor
<1> QED
  BY <1>2, <1>3, <1>4, <1>5

\* Past the horizon, a pull's cursor is its snapshot's last revision, and its own
\* cursor lies between the snapshot's floor and that.
LEMMA PullHorizonFields ==
  ASSUME EngineInv, NEW d \in Device, PullHorizon(d)
  PROVE  \E n \in JobRecord :
           /\ Reads(d, n) /\ At(d, "horizon")
           /\ n.mine = job[d].mine \/ DOMAIN n.mine = {}
           /\ \/ n.at = "expired" /\ n.view = NoView
              \/ /\ n.at = "gather" /\ n.left = Id /\ n.top = ViewTop(d)
                 /\ n.low = job[d].view.floor /\ n.since = job[d].since
                 /\ n.since # NoCursor => n.low <= n.since
                 /\ n.view = job[d].view
<1> DEFINE top     == TopOf(SeenRows(d), job[d].low)
           since   == job[d].since
           low     == job[d].low
           expired == since # NoCursor /\ (since < low \/ since > top)
           next == IF since > top THEN since ELSE top
           new == IF expired
                  THEN [NoJob EXCEPT !.at = "expired"]
                  ELSE [job[d] EXCEPT !.at = "gather", !.left = Id, !.top = next]
<1>0. TypeOK /\ ServerTypeOK /\ JobsTyped
  BY DEF EngineInv, Consistent, TypeOK
<1>1. Reads(d, new) /\ At(d, "horizon")
  BY DEF PullHorizon
<1>2. /\ top \in Nat /\ top = ViewTop(d) /\ since \in Nat \cup {NoCursor}
      /\ low = job[d].view.floor /\ low \in Nat
  BY <1>0, <1>1, TopsTyped, JobFields DEF At, Pulling
<1>3. "expired" \in Labels /\ "gather" \in Labels
  BY DEF Labels
<1>4. PICK j \in JobRecord : j = job[d]
  BY <1>0, JobFields
<1>5. PICK j0 \in JobRecord : j0 = NoJob
  BY NoJobTyped
<1> HIDE DEF top, since, low
<1>6. CASE expired
  <2> DEFINE n == [j0 EXCEPT !.at = "expired"]
  <2>1. n \in JobRecord /\ n.at = "expired" /\ n.view = j0.view /\ n.mine = j0.mine
    BY <1>3, FieldsAt
  <2>2. Reads(d, n)
    BY <1>1, <1>5, <1>6
  <2> HIDE DEF n
  <2> QED
    BY <1>1, <1>5, <2>1, <2>2, NoJobFields
<1>7. CASE ~expired
  <2> DEFINE n == [j EXCEPT !.at = "gather", !.left = Id, !.top = next]
  <2>1. next = top /\ next \in Nat /\ (since # NoCursor => low <= since)
    BY <1>2, <1>7 DEF NoCursor
  <2> HIDE DEF next
  <2>2. /\ n \in JobRecord /\ n.at = "gather" /\ n.left = Id /\ n.top = next
        /\ n.low = j.low /\ n.since = j.since /\ n.view = j.view /\ n.mine = j.mine
    BY <1>3, <2>1 DEF JobRecord
  <2>3. Reads(d, n)
    BY <1>1, <1>4, <1>7
  <2> HIDE DEF n
  <2> QED
    BY <1>1, <1>2, <1>4, <2>1, <2>2, <2>3 DEF low, since
<1> QED
  BY <1>6, <1>7

\* A collected table is the store's answer for it, and nothing else changes.
LEMMA CollectFields ==
  ASSUME TypeOK, JobsTyped, NEW d \in Device, NEW i \in Id
  PROVE  LET n     == Collect(d, i)
             since == IF job[d].since = NoCursor THEN 0 ELSE job[d].since
             named == IF At(d, "write") THEN Named(job[d].request) ELSE {}
         IN  /\ n \in JobRecord /\ n.left = job[d].left \ {i}
             /\ \A k \in Id : n.got[k] =
                  IF k # i THEN job[d].got[k]
                  ELSE IF i \in named \/ SeenRows(d)[i].rev <= since
                    THEN Omitted ELSE SeenRows(d)[i].body
             /\ n.at = job[d].at /\ n.since = job[d].since /\ n.low = job[d].low
             /\ n.top = job[d].top /\ n.view = job[d].view /\ n.request = job[d].request
             /\ n.refused = job[d].refused /\ n.ups = job[d].ups /\ n.dels = job[d].dels
             /\ n.mine = job[d].mine
<1> DEFINE since == IF job[d].since = NoCursor THEN 0 ELSE job[d].since
           named == IF At(d, "write") THEN Named(job[d].request) ELSE {}
           entry == Window(SeenRows(d), since, named)[i]
<1>1. entry = IF i \in named \/ SeenRows(d)[i].rev <= since THEN Omitted
              ELSE SeenRows(d)[i].body
  BY DEF Window
<1>2. entry \in Change
  <2>1. SeenRows(d)[i].body \in Body
    BY SeenRow DEF TypeOK, StoredRow
  <2> QED
    BY <1>1, <2>1 DEF Change
<1>3. PICK j \in JobRecord : j = job[d]
  BY JobFields
<1>4. Collect(d, i) = [j EXCEPT !.left = @ \ {i}, !.got = [j.got EXCEPT ![i] = entry]]
  BY <1>3 DEF Collect
<1> DEFINE g == [j.got EXCEPT ![i] = entry]
<1>5. g \in [Id -> Change] /\ \A k \in Id : g[k] = IF k = i THEN entry ELSE j.got[k]
  BY <1>2 DEF JobRecord
<1> HIDE DEF g, entry
<1>6. LET n == [j EXCEPT !.left = @ \ {i}, !.got = g]
      IN  /\ n \in JobRecord /\ n.left = j.left \ {i} /\ n.got = g
          /\ n.at = j.at /\ n.since = j.since /\ n.low = j.low /\ n.top = j.top
          /\ n.view = j.view /\ n.request = j.request /\ n.refused = j.refused
          /\ n.ups = j.ups /\ n.dels = j.dels /\ n.mine = j.mine
  BY <1>5 DEF JobRecord
<1> QED
  BY <1>1, <1>3, <1>4, <1>5, <1>6 DEF g

\* A push starts with the device's dirty rows, at its cursor.
LEMMA AskPushFields ==
  ASSUME TypeOK, JobsTyped, NEW d \in Device, NEW i \in Id, NEW new \in Body,
         AskPush(d, i, new)
  PROVE  \E n \in JobRecord :
           /\ Become(d, n) /\ n.at = "lock" /\ n.since = cursor[d] /\ cursor[d] # NoCursor
           /\ n.request = [k \in Id |-> Frozen(rows'[d][k])]
           /\ n.low = Unread /\ n.top = NoCursor /\ n.view = NoView /\ DOMAIN n.mine = {}
           /\ rows' \in [Device -> [Id -> LocalRow]]
           /\ \A e \in Device, k \in Id :
                /\ WellFormed(rows'[e][k])
                /\ e # d \/ k # i => rows'[e][k] = rows[e][k]
                /\ e = d /\ k = i => IsDirty(rows'[e][k])
           /\ rows' = [rows EXCEPT ![d] = rows'[d]]
           /\ UNCHANGED <<serverVars, cursor>>
<1> DEFINE r == Statement(rows[d][i], new)
<1>0. /\ rows' = [rows EXCEPT ![d][i] = r] /\ cursor[d] # NoCursor
      /\ rows[d][i].status # "deleted" /\ new # rows[d][i].data
      /\ UNCHANGED <<serverVars, cursor>>
  BY DEF AskPush
<1>1. WellFormed(rows[d][i])
  BY JobFields
<1>2. WellFormed(r) /\ IsDirty(r)
  <2>1. CASE new = Gone
    BY <2>1, AbsentWellFormed DEF Statement, IsDirty, Tombstone
  <2>2. CASE new # Gone /\ IsLive(rows[d][i])
    <3>1. r = EditRow(rows[d][i], new) /\ new \in Content
      BY <2>2 DEF Statement, Body
    <3> QED
      BY <1>0, <1>1, <2>2, <3>1, EditRowWellFormed
  <2>3. CASE new # Gone /\ ~IsLive(rows[d][i])
    <3>1. r = CreatedRow(new) /\ new \in Content
      BY <2>3 DEF Statement, Body
    <3> QED
      BY <3>1, FreshRowsWellFormed DEF IsDirty, CreatedRow
  <2> QED
    BY <2>1, <2>2, <2>3
<1> HIDE DEF r
<1>3. r \in LocalRow
  BY <1>2 DEF WellFormed
<1>4. /\ rows' \in [Device -> [Id -> LocalRow]]
      /\ rows' = [rows EXCEPT ![d] = rows'[d]]
      /\ \A e \in Device, k \in Id :
           rows'[e][k] = IF e = d /\ k = i THEN r ELSE rows[e][k]
  BY <1>0, <1>3 DEF JobsTyped
<1>5. \A e \in Device, k \in Id :
        /\ WellFormed(rows'[e][k])
        /\ e # d \/ k # i => rows'[e][k] = rows[e][k]
        /\ e = d /\ k = i => IsDirty(rows'[e][k])
  BY <1>2, <1>4, JobFields
<1> DEFINE req == [k \in Id |-> Frozen(rows'[d][k])]
<1>6. req \in [Id -> LocalRow]
  <2>1. \A k \in Id : Frozen(rows'[d][k]) \in LocalRow
    BY <1>5, FrozenRow DEF WellFormed
  <2> QED
    BY <2>1
<1>7. Become(d, [NoJob EXCEPT !.at = "lock", !.since = cursor[d], !.request = req])
  BY DEF AskPush
<1> HIDE DEF req
<1>8. PICK j \in JobRecord : j = NoJob
  BY NoJobTyped
<1>9. LET n == [j EXCEPT !.at = "lock", !.since = cursor[d], !.request = req]
      IN  /\ n \in JobRecord /\ n.at = "lock" /\ n.since = cursor[d] /\ n.request = req
          /\ n.low = j.low /\ n.top = j.top /\ n.view = j.view /\ n.mine = j.mine
  <2>1. "lock" \in Labels /\ cursor[d] \in Nat \cup {NoCursor}
    BY JobFields DEF Labels
  <2> QED
    BY <1>6, <2>1 DEF JobRecord
<1> DEFINE n == [j EXCEPT !.at = "lock", !.since = cursor[d], !.request = req]
<1>10. Become(d, n)
  BY <1>7, <1>8
<1>11. /\ n \in JobRecord /\ n.at = "lock" /\ n.since = cursor[d] /\ n.request = req
       /\ n.low = Unread /\ n.top = NoCursor /\ n.view = NoView /\ DOMAIN n.mine = {}
  BY <1>8, <1>9, NoJobFields
<1> HIDE DEF n
<1> QED
  BY <1>0, <1>4, <1>5, <1>10, <1>11 DEF req

\* The refusals are decided, and the rest is to be written and collected.
LEMMA PushRefuseFields ==
  ASSUME TypeOK, JobsTyped, NEW d \in Device, NEW hooked, PushRefuse(d, hooked)
  PROVE  \E n \in JobRecord :
           /\ Reads(d, n) /\ At(d, "refuse") /\ n.at = "write" /\ n.left = Id
           /\ n.refused = Refused(job[d].request, hooked)
           /\ n.ups = Upserts(job[d].request) \ n.refused
           /\ n.dels = Deletes(job[d].request) \ n.refused
           /\ n.since = job[d].since /\ n.low = job[d].low /\ n.top = job[d].top
           /\ n.view = job[d].view /\ n.request = job[d].request /\ n.mine = job[d].mine
<1> DEFINE no   == Refused(job[d].request, hooked)
           ups  == Upserts(job[d].request) \ no
           dels == Deletes(job[d].request) \ no
<1>1. no \in SUBSET Id /\ ups \in SUBSET Id /\ dels \in SUBSET Id
  BY DEF Refused, Named, Upserts, Deletes
<1>2. "write" \in Labels
  BY DEF Labels, Pushing
<1>3. PICK j \in JobRecord : j = job[d]
  BY JobFields
<1>4. /\ Reads(d, [j EXCEPT !.at = "write", !.refused = no, !.left = Id,
                            !.ups = ups, !.dels = dels])
      /\ At(d, "refuse")
  BY <1>3 DEF PushRefuse
<1> HIDE DEF no, ups, dels
<1> DEFINE n == [j EXCEPT !.at = "write", !.refused = no, !.left = Id,
                          !.ups = ups, !.dels = dels]
<1>5. /\ n \in JobRecord /\ n.at = "write" /\ n.left = Id
      /\ n.refused = no /\ n.ups = ups /\ n.dels = dels
      /\ n.since = j.since /\ n.low = j.low /\ n.top = j.top
      /\ n.view = j.view /\ n.request = j.request /\ n.mine = j.mine
  BY <1>1, <1>2 DEF JobRecord
<1> HIDE DEF n
<1> QED
  BY <1>3, <1>4, <1>5 DEF no, ups, dels, n

\* A handler's uncommitted rows after a write that hands out a revision.
StoresRow(d, n, i, row, stored) ==
  /\ Become(d, n)
  /\ rev' = rev + 1 /\ UNCHANGED <<srv, floor, acked, rows, cursor>>
  /\ DOMAIN n.mine = DOMAIN job[d].mine \cup (IF stored THEN {i} ELSE {})
  /\ \A k \in DOMAIN n.mine :
       n.mine[k] = IF k = i /\ stored THEN row ELSE job[d].mine[k]

\* The same job but for what it has to write and has written.
SameRequest(n, j) ==
  /\ n.at = j.at /\ n.since = j.since /\ n.low = j.low /\ n.top = j.top
  /\ n.left = j.left /\ n.got = j.got /\ n.view = j.view /\ n.request = j.request
  /\ n.refused = j.refused

\* A write adds its row, if it stores one, to the uncommitted ones.
LEMMA StoreFields ==
  ASSUME TypeOK, JobsTyped, Isolated, NEW d \in Device, NEW j \in JobRecord,
         j.mine = job[d].mine, NEW i \in Id, NEW row \in StoredRow,
         NEW stored \in BOOLEAN, Store(d, j, i, row, stored)
  PROVE  \E n \in JobRecord : /\ StoresRow(d, n, i, row, stored)
                              /\ SameRequest(n, j) /\ n.ups = j.ups /\ n.dels = j.dels
<1> DEFINE ids  == DOMAIN job[d].mine \cup (IF stored THEN {i} ELSE {})
           mine == [k \in ids |-> IF k = i /\ stored THEN row ELSE job[d].mine[k]]
<1>1. /\ Become(d, [j EXCEPT !.mine = mine])
      /\ rev' = rev + 1 /\ UNCHANGED <<srv, floor, acked, rows, cursor>>
  BY DEF Store
<1>2. mine \in UNION {[S -> StoredRow] : S \in SUBSET Id}
  <2>1. ids \in SUBSET Id /\ mine \in [ids -> StoredRow]
    BY JobFields
  <2> QED
    BY <2>1
<1>3. DOMAIN mine = ids /\ \A k \in ids : mine[k] = IF k = i /\ stored THEN row
                                                    ELSE job[d].mine[k]
  OBVIOUS
<1> HIDE DEF mine
<1> DEFINE n == [j EXCEPT !.mine = mine]
<1>4. n \in JobRecord /\ n.mine = mine /\ SameRequest(n, j) /\ n.ups = j.ups /\ n.dels = j.dels
  BY <1>2 DEF JobRecord, SameRequest
<1>5. StoresRow(d, n, i, row, stored)
  BY <1>1, <1>3, <1>4 DEF StoresRow
<1> HIDE DEF n
<1> QED
  BY <1>4, <1>5

\* The next upsert is stored under the next revision unless it is aimed at a tombstone.
LEMMA UpsertFields ==
  ASSUME TypeOK, JobsTyped, Isolated, NEW d \in Device, NEW i \in Id, PushUpsert(d, i)
  PROVE  \E n \in JobRecord, row \in StoredRow, stored \in BOOLEAN :
           /\ StoresRow(d, n, i, row, stored) /\ SameRequest(n, job[d])
           /\ At(d, "write") /\ i \in job[d].ups /\ n.ups = job[d].ups \ {i}
           /\ n.dels = job[d].dels
           /\ row.rev = rev + 1 /\ row.body = job[d].request[i].data
           /\ stored = ~IsTombstone(SeenRows(d)[i])
<1>1. PICK j \in JobRecord : j = job[d]
  BY JobFields
<1>2. PICK stored \in BOOLEAN : stored = ~IsTombstone(SeenRows(d)[i])
  OBVIOUS
<1> DEFINE u   == [j EXCEPT !.ups = @ \ {i}]
           row == [rev |-> rev + 1, body |-> job[d].request[i].data]
<1>3. Store(d, u, i, row, stored) /\ At(d, "write") /\ i \in job[d].ups
  BY <1>1, <1>2 DEF PushUpsert
<1>4. /\ u \in JobRecord /\ u.ups = j.ups \ {i} /\ u.dels = j.dels /\ u.mine = job[d].mine
      /\ SameRequest(u, j)
  BY <1>1 DEF JobRecord, SameRequest
<1>5. row \in StoredRow /\ row.rev = rev + 1 /\ row.body = job[d].request[i].data
  BY JobFields DEF TypeOK, ServerTypeOK, LocalRow, StoredRow
<1> HIDE DEF u, row
<1>6. PICK n \in JobRecord : /\ StoresRow(d, n, i, row, stored)
                             /\ SameRequest(n, u) /\ n.ups = u.ups /\ n.dels = u.dels
  BY <1>3, <1>4, <1>5, StoreFields
<1>7. SameRequest(n, job[d])
  BY <1>1, <1>4, <1>6 DEF SameRequest
<1> QED
  BY <1>1, <1>2, <1>3, <1>4, <1>5, <1>6, <1>7

\* Behind the upserts, a deletion is stored unless there is nothing to delete.
LEMMA TombstoneFields ==
  ASSUME TypeOK, JobsTyped, Isolated, NEW d \in Device, NEW i \in Id, PushTombstone(d, i)
  PROVE  \E n \in JobRecord, row \in StoredRow, stored \in BOOLEAN :
           /\ StoresRow(d, n, i, row, stored) /\ SameRequest(n, job[d])
           /\ At(d, "write") /\ job[d].ups = {} /\ n.ups = job[d].ups
           /\ i \in job[d].dels /\ n.dels = job[d].dels \ {i}
           /\ row.rev = rev + 1 /\ row.body = Gone
           /\ stored = (SeenRows(d)[i].body # Gone)
<1>1. PICK j \in JobRecord : j = job[d]
  BY JobFields
<1>2. PICK stored \in BOOLEAN : stored = (SeenRows(d)[i].body # Gone)
  OBVIOUS
<1> DEFINE u   == [j EXCEPT !.dels = @ \ {i}]
           row == [rev |-> rev + 1, body |-> Gone]
<1>3. /\ Store(d, u, i, row, stored) /\ At(d, "write")
      /\ job[d].ups = {} /\ i \in job[d].dels
  BY <1>1, <1>2 DEF PushTombstone
<1>4. /\ u \in JobRecord /\ u.ups = j.ups /\ u.dels = j.dels \ {i} /\ u.mine = job[d].mine
      /\ SameRequest(u, j)
  BY <1>1 DEF JobRecord, SameRequest
<1>5. row \in StoredRow /\ row.rev = rev + 1 /\ row.body = Gone
  BY DEF TypeOK, ServerTypeOK, StoredRow, Body
<1> HIDE DEF u, row
<1>6. PICK n \in JobRecord : /\ StoresRow(d, n, i, row, stored)
                             /\ SameRequest(n, u) /\ n.ups = u.ups /\ n.dels = u.dels
  BY <1>3, <1>4, <1>5, StoreFields
<1>7. SameRequest(n, job[d])
  BY <1>1, <1>4, <1>6 DEF SameRequest
<1> QED
  BY <1>1, <1>2, <1>3, <1>4, <1>5, <1>6, <1>7

\* The floor is read once everything is collected.
LEMMA PushFloorFields ==
  ASSUME TypeOK, JobsTyped, NEW d \in Device, PushFloor(d)
  PROVE  \E n \in JobRecord :
           /\ Reads(d, n) /\ Written(d) /\ job[d].left = {}
           /\ n.low = floor /\ n.at = job[d].at /\ n.since = job[d].since
           /\ n.top = job[d].top /\ n.left = job[d].left /\ n.got = job[d].got
           /\ n.view = job[d].view /\ n.request = job[d].request
           /\ n.refused = job[d].refused /\ n.ups = job[d].ups /\ n.dels = job[d].dels
           /\ n.mine = job[d].mine
<1>1. PICK j \in JobRecord : j = job[d]
  BY JobFields
<1> DEFINE n == [j EXCEPT !.low = floor]
<1>2. /\ n \in JobRecord /\ n.low = floor /\ n.at = j.at /\ n.since = j.since
      /\ n.top = j.top /\ n.left = j.left /\ n.got = j.got /\ n.view = j.view
      /\ n.request = j.request /\ n.refused = j.refused /\ n.ups = j.ups
      /\ n.dels = j.dels /\ n.mine = j.mine
  BY DEF TypeOK, ServerTypeOK, JobRecord
<1>3. Reads(d, n) /\ Written(d) /\ job[d].left = {}
  BY <1>1 DEF PushFloor, FloorLast
<1> HIDE DEF n
<1> QED
  BY <1>1, <1>2, <1>3

\* The answer: neither changes nor a cursor below the floor, else the highest row.
LEMMA PushTopFields ==
  ASSUME TypeOK, JobsTyped, NEW d \in Device, PushTop(d),
         TopOf(SeenRows(d), job[d].low) \in Nat
  PROVE  \E n \in JobRecord :
           /\ Reads(d, n) /\ Written(d) /\ job[d].left = {} /\ job[d].low # Unread
           /\ n.at = "top" /\ n.since = job[d].since /\ n.low = job[d].low
           /\ IF job[d].since < job[d].low
                THEN n.got = NoChanges /\ n.top = job[d].top
                ELSE n.got = job[d].got /\ n.top = TopOf(SeenRows(d), job[d].low)
           /\ n.left = job[d].left
           /\ n.view = job[d].view /\ n.request = job[d].request
           /\ n.refused = job[d].refused /\ n.ups = job[d].ups /\ n.dels = job[d].dels
           /\ n.mine = job[d].mine
<1>1. PICK j \in JobRecord : j = job[d]
  BY JobFields
<1> DEFINE top == TopOf(SeenRows(d), job[d].low)
           n0 == [j EXCEPT !.at = "top", !.got = NoChanges]
           n1 == [j EXCEPT !.at = "top", !.top = top]
           n  == IF job[d].since < job[d].low THEN n0 ELSE n1
<1>2. /\ Reads(d, n) /\ Written(d) /\ job[d].left = {} /\ job[d].low # Unread
  BY <1>1 DEF PushTop
<1>3. "top" \in Labels /\ NoChanges \in [Id -> Change] /\ top \in Nat
  BY DEF Labels, Pushing, NoChanges, Change
<1> HIDE DEF top
<1>4. /\ n0 \in JobRecord /\ n0.at = "top" /\ n0.since = j.since /\ n0.low = j.low
      /\ n0.top = j.top /\ n0.left = j.left /\ n0.got = NoChanges /\ n0.view = j.view
      /\ n0.request = j.request /\ n0.refused = j.refused /\ n0.ups = j.ups
      /\ n0.dels = j.dels /\ n0.mine = j.mine
  BY <1>3 DEF JobRecord
<1>5. /\ n1 \in JobRecord /\ n1.at = "top" /\ n1.since = j.since /\ n1.low = j.low
      /\ n1.top = top /\ n1.left = j.left /\ n1.got = j.got /\ n1.view = j.view
      /\ n1.request = j.request /\ n1.refused = j.refused /\ n1.ups = j.ups
      /\ n1.dels = j.dels /\ n1.mine = j.mine
  BY <1>3 DEF JobRecord
<1> HIDE DEF n0, n1
<1>6. CASE job[d].since < job[d].low
  <2>1. Reads(d, n0)
    BY <1>2, <1>6
  <2> QED
    BY <1>1, <1>2, <1>4, <1>6, <2>1
<1>7. CASE ~ (job[d].since < job[d].low)
  <2>1. Reads(d, n1)
    BY <1>2, <1>7
  <2> QED
    BY <1>1, <1>2, <1>5, <1>7, <2>1 DEF top
<1> QED
  BY <1>6, <1>7

\* The commit.
LEMMA PushCommitFields ==
  ASSUME TypeOK, JobsTyped, NEW d \in Device, PushCommit(d)
  PROVE  \E n \in JobRecord :
           /\ Become(d, n) /\ At(d, "top") /\ n.at = "accepted" /\ DOMAIN n.mine = {}
           /\ srv' = SeenRows(d) /\ acked' = AckedAfter(job[d].request, job[d].refused)
           /\ UNCHANGED <<rev, floor, rows, cursor>>
           /\ n.since = job[d].since /\ n.low = job[d].low /\ n.top = job[d].top
           /\ n.left = job[d].left /\ n.got = job[d].got /\ n.view = job[d].view
           /\ n.request = job[d].request /\ n.refused = job[d].refused
           /\ n.ups = job[d].ups /\ n.dels = job[d].dels
<1>1. PICK j \in JobRecord : j = job[d]
  BY JobFields
<1> DEFINE n == [j EXCEPT !.at = "accepted", !.mine = NoWrites]
<1>2. "accepted" \in Labels /\ NoWrites \in UNION {[S -> StoredRow] : S \in SUBSET Id}
      /\ DOMAIN NoWrites = {}
  BY NoJobTyped, NoJobFields DEF Labels, JobRecord
<1>3. /\ n \in JobRecord /\ n.at = "accepted" /\ n.mine = NoWrites
      /\ n.since = j.since /\ n.low = j.low /\ n.top = j.top /\ n.left = j.left
      /\ n.got = j.got /\ n.view = j.view /\ n.request = j.request
      /\ n.refused = j.refused /\ n.ups = j.ups /\ n.dels = j.dels
  BY <1>2 DEF JobRecord
<1>4. /\ Become(d, n) /\ At(d, "top") /\ srv' = SeenRows(d)
      /\ acked' = AckedAfter(job[d].request, job[d].refused)
      /\ UNCHANGED <<rev, floor, rows, cursor>>
  BY <1>1 DEF PushCommit
<1> HIDE DEF n
<1> QED
  BY <1>1, <1>2, <1>3, <1>4

-----------------------------------------------------------------------------
(***************************************************************************)
(* The server under a step, and whoever the step does not touch.           *)
(***************************************************************************)
\* A step of the server as the devices see it: nothing is committed behind a
\* cursor that was served, and no body changes under it.
EngineMoves ==
  /\ rev <= rev' /\ floor <= floor' /\ EffMax <= EffMax' /\ EffMax' \in Nat
  /\ \A i \in Id, c \in 0 .. EffMax :
       floor' <= c /\ srv'[i].rev <= c =>
         floor <= c /\ srv[i].rev <= c /\ srv'[i].body = srv[i].body

\* A handler that does not write leaves the server alone.
LEMMA StandingStill ==
  ASSUME ServerTypeOK, HistoryInv, UNCHANGED <<srv, rev, floor>>
  PROVE  HistoryInv' /\ EngineMoves /\ EffMax' = EffMax
<1>1. srv' = srv /\ rev' = rev /\ floor' = floor
  OBVIOUS
<1>2. EffMax' = EffMax
  BY <1>1 DEF EffMax, TopOf
<1>3. HistoryInv'
  BY <1>1 DEF HistoryInv, HistoryBounded, UnstoredIsGone, Topped
<1> QED
  BY <1>1, <1>2, <1>3, Served DEF EngineMoves

\* A write only hands out a revision.
LEMMA HandingOut ==
  ASSUME ServerTypeOK, HistoryInv, rev' = rev + 1, UNCHANGED <<srv, floor>>
  PROVE  HistoryInv' /\ EngineMoves /\ EffMax' = EffMax
<1>1. srv' = srv /\ rev' = rev + 1 /\ floor' = floor
  OBVIOUS
<1>2. EffMax' = EffMax
  BY <1>1 DEF EffMax, TopOf
<1>3. rev <= rev' /\ floor <= rev' /\ \A i \in Id : srv[i].rev <= rev'
  BY <1>1, Served
<1>4. HistoryInv'
  BY <1>1, <1>3 DEF HistoryInv, HistoryBounded, UnstoredIsGone, Topped
<1> QED
  BY <1>1, <1>2, <1>3, <1>4, Served DEF EngineMoves

\* What a push commits it wrote above everything served.
LEMMA Committing ==
  ASSUME EngineInv, NEW d \in Device, PushCommit(d), ServerTypeOK'
  PROVE  HistoryInv' /\ EngineMoves
<1>0. TypeOK /\ ServerTypeOK /\ JobsTyped /\ HistoryInv /\ MineInv(d)
  BY DEF EngineInv, Consistent, TypeOK, PushInv
<1>1. srv' = SeenRows(d) /\ rev' = rev /\ floor' = floor /\ job[d].at \notin Pulling
  BY DEF PushCommit, At, Pulling
<1>2. job[d].view = NoView
  BY <1>1, TopsTyped
<1>3. /\ EffMax \in Nat /\ rev \in Nat /\ floor \in Nat /\ floor <= EffMax
      /\ EffMax <= rev /\ floor <= rev
      /\ \A i \in Id : srv[i] \in StoredRow /\ srv[i].rev \in Nat /\ srv[i].rev <= EffMax
  BY <1>0, Served
<1>4. ASSUME NEW i \in Id
      PROVE  /\ srv'[i].rev \in Nat /\ srv'[i].rev <= rev /\ srv[i].rev <= srv'[i].rev
             /\ srv'[i] = srv[i] \/ EffMax < srv'[i].rev
  <2>1. CASE i \in DOMAIN job[d].mine
    <3>1. srv'[i] = job[d].mine[i]
      BY <1>0, <1>1, <1>2, <2>1, SeenRow
    <3>2. job[d].mine[i].rev \in Nat
      BY <1>0, <2>1, JobFields DEF StoredRow
    <3>3. EffMax < job[d].mine[i].rev /\ job[d].mine[i].rev <= rev
      BY <1>0, <2>1 DEF MineInv
    <3> QED
      BY <1>3, <3>1, <3>2, <3>3
  <2>2. CASE i \notin DOMAIN job[d].mine
    <3>1. srv'[i] = srv[i]
      BY <1>0, <1>1, <1>2, <2>2, SeenRow
    <3> QED
      BY <1>3, <3>1
  <2> QED
    BY <2>1, <2>2
<1>5. srv' \in [Id -> StoredRow]
  BY DEF ServerTypeOK
<1>6. /\ TopOf(srv', floor) \in Nat /\ floor <= TopOf(srv', floor)
      /\ \A i \in Id : srv'[i].rev <= TopOf(srv', floor)
      /\ Topped(srv', floor)
  BY <1>3, <1>4, <1>5, TopOfBounded
<1>7. EffMax' = TopOf(srv', floor)
  BY <1>1 DEF EffMax, TopOf
<1>8. EffMax <= EffMax'
  <2>1. EffMax \in {floor} \cup {srv[i].rev : i \in Id}
    BY <1>0, EffMaxIsTop DEF HistoryInv
  <2>2. CASE EffMax = floor
    BY <1>6, <1>7, <2>2
  <2>3. CASE \E i \in Id : EffMax = srv[i].rev
    BY <1>3, <1>4, <1>6, <1>7, <2>3
  <2> QED
    BY <2>1, <2>2, <2>3
<1>9. HistoryInv'
  <2>1. ASSUME NEW i \in Id, srv'[i].rev = 0 PROVE srv'[i].body = Gone
    <3>1. srv'[i] = srv[i]
      BY <1>3, <1>4, <2>1
    <3> QED
      BY <1>0, <2>1, <3>1 DEF HistoryInv, UnstoredIsGone
  <2> QED
    BY <1>1, <1>3, <1>4, <1>6, <2>1 DEF HistoryInv, HistoryBounded, UnstoredIsGone, Topped
<1>10. ASSUME NEW i \in Id, NEW c \in 0 .. EffMax, floor' <= c, srv'[i].rev <= c
       PROVE  floor <= c /\ srv[i].rev <= c /\ srv'[i].body = srv[i].body
  BY <1>1, <1>3, <1>4, <1>10
<1> QED
  BY <1>1, <1>3, <1>6, <1>7, <1>8, <1>9, <1>10 DEF EngineMoves

\* What pruning takes has lost its body already, at or below the floor that stands.
RowsPruned ==
  /\ floor <= floor' /\ floor' \in Nat
  /\ \A i \in Id : \/ srv'[i] = srv[i]
                   \/ /\ srv'[i] = Unstored /\ srv[i].body = Gone
                      /\ srv[i].rev <= floor'

\* The caller's floor was served, so the highest revision served stays what it was.
LEMMA Pruning ==
  ASSUME EngineInv, NEW f \in Nat, Retain(f)
  PROVE  ServerTypeOK' /\ HistoryInv' /\ EngineMoves /\ EffMax' = EffMax /\ RowsPruned
<1>0. ServerTypeOK /\ HistoryInv /\ HistoryBounded /\ Gc(f) /\ f <= EffMax
  BY DEF EngineInv, Consistent, TypeOK, HistoryInv, Retain, EffMax
<1>1. ServerTypeOK' /\ HistoryBounded' /\ ServerMoves
  BY <1>0, GcMoves
<1>2. /\ EffMax \in Nat /\ rev \in Nat /\ floor \in Nat /\ floor <= EffMax
      /\ EffMax <= rev /\ floor <= rev
      /\ \A i \in Id : srv[i].rev \in Nat /\ srv[i].rev <= EffMax
  BY <1>0, Served
<1>3. PICK g : g = floor'
  OBVIOUS
<1>4. g \in Nat /\ floor <= g /\ g <= EffMax /\ rev' = rev /\ srv' = Pruned(srv, g)
  BY <1>0, <1>2, <1>3 DEF Gc
<1>5. \A i \in Id : \/ srv'[i] = srv[i]
                    \/ srv'[i] = Unstored /\ srv[i].body = Gone /\ srv[i].rev <= g
  BY <1>4 DEF Pruned, IsTombstone
<1>6. RowsPruned
  BY <1>3, <1>4, <1>5 DEF RowsPruned
<1>7. HistoryInv'
  <2>1. floor' <= rev'
    BY <1>2, <1>3, <1>4
  <2>2. \A i \in Id : srv'[i].rev = 0 => srv'[i].body = Gone
    BY <1>0, <1>5 DEF HistoryInv, UnstoredIsGone, Unstored
  <2> QED
    BY <1>1, <2>1, <2>2 DEF HistoryInv, UnstoredIsGone
<1>8. EffMax' = EffMax
  <2>1. \A i \in Id : srv'[i].rev <= EffMax
    BY <1>2, <1>5 DEF Unstored
  <2>2. EffMax' = TopOf(srv', g) /\ srv' \in [Id -> StoredRow]
    BY <1>1, <1>3 DEF EffMax, TopOf, ServerTypeOK
  <2>3. TopOf(srv', g) \in Nat /\ TopOf(srv', g) <= EffMax
    BY <1>2, <1>4, <2>1, <2>2, TopOfBounded
  <2> QED
    BY <1>1, <1>2, <2>2, <2>3 DEF ServerMoves
<1>9. ASSUME NEW i \in Id, NEW c \in 0 .. EffMax, floor' <= c, srv'[i].rev <= c
      PROVE  floor <= c /\ srv[i].rev <= c /\ srv'[i].body = srv[i].body
  <2>1. c \in Nat /\ c <= rev
    BY <1>2
  <2> QED
    BY <1>1, <1>9, <2>1 DEF ServerMoves
<1> QED
  BY <1>1, <1>2, <1>6, <1>7, <1>8, <1>9 DEF EngineMoves, ServerMoves

\* One device's part of the property.
DeviceInv(d) ==
  /\ cursor[d] <= EffMax
  /\ \A i \in Id :
       floor <= cursor[d] /\ srv[i].rev <= cursor[d] /\ ~IsDirty(rows[d][i]) =>
         rows[d][i].data = srv[i].body

\* The property is each device's own.
LEMMA DeviceByDevice == CleanRowsAgree /\ CursorServed <=> \A d \in Device : DeviceInv(d)
BY DEF CleanRowsAgree, CursorServed, DeviceInv

Untouched(e) == job'[e] = job[e] /\ rows'[e] = rows[e] /\ cursor'[e] = cursor[e]

\* A device whose rows and cursor a step leaves alone stays in agreement.
LEMMA DeviceStays ==
  ASSUME EngineInv, EngineMoves, ServerTypeOK', NEW e \in Device,
         rows'[e] = rows[e], cursor'[e] = cursor[e]
  PROVE  DeviceInv(e)'
<1>0. TypeOK /\ ServerTypeOK /\ HistoryInv /\ DeviceInv(e)
  BY DeviceByDevice DEF EngineInv, Consistent, TypeOK
<1>1. /\ EffMax \in Nat /\ EffMax' \in Nat /\ EffMax <= EffMax' /\ floor' \in Nat
      /\ cursor[e] \in Nat \cup {NoCursor}
  BY <1>0, Served DEF EngineMoves, ServerTypeOK, TypeOK
<1>2. cursor[e] <= EffMax'
  BY <1>0, <1>1 DEF DeviceInv, NoCursor
<1>3. ASSUME NEW i \in Id, floor' <= cursor[e], srv'[i].rev <= cursor[e],
             ~IsDirty(rows[e][i])
      PROVE  rows[e][i].data = srv'[i].body
  <2>1. cursor[e] \in 0 .. EffMax
    BY <1>0, <1>1, <1>3 DEF DeviceInv, NoCursor
  <2>2. floor <= cursor[e] /\ srv[i].rev <= cursor[e] /\ srv'[i].body = srv[i].body
    BY <1>3, <2>1 DEF EngineMoves
  <2> QED
    BY <1>0, <1>3, <2>2 DEF DeviceInv
<1> QED
  BY <1>2, <1>3 DEF DeviceInv

\* A device a step does not touch stays in agreement with its cursor, and its
\* snapshot and its accepted push with the server.
LEMMA UntouchedStays ==
  ASSUME EngineInv, EngineMoves, ServerTypeOK', NEW e \in Device, Untouched(e)
  PROVE  /\ DeviceInv(e)' /\ PullInv(e)'
         /\ RequestInv(e)' /\ DegradedInv(e)' /\ AcceptedInv(e)'
<1>0. /\ TypeOK /\ ServerTypeOK /\ JobsTyped /\ HistoryInv /\ DeviceInv(e)
      /\ ViewInv(e) /\ ViewReached(e) /\ ViewAgrees(e) /\ GatherInv(e)
      /\ RequestInv(e) /\ DegradedInv(e) /\ AcceptedInv(e)
  BY DeviceByDevice DEF EngineInv, Consistent, TypeOK, PullInv, PushInv
<1>1. job'[e] = job[e] /\ rows'[e] = rows[e] /\ cursor'[e] = cursor[e]
  BY DEF Untouched
<1>2. /\ EffMax \in Nat /\ floor \in Nat /\ floor <= EffMax
      /\ EffMax' \in Nat /\ EffMax <= EffMax' /\ floor <= floor' /\ floor' \in Nat
      /\ cursor[e] \in Nat \cup {NoCursor} /\ job[e].top \in Nat \cup {NoCursor}
      /\ job[e].since \in Nat \cup {NoCursor}
  BY <1>0, Served, JobFields DEF EngineMoves, ServerTypeOK
<1>3. \A i \in Id, c \in Nat :
        c <= EffMax /\ floor' <= c /\ srv'[i].rev <= c =>
          floor <= c /\ srv[i].rev <= c /\ srv'[i].body = srv[i].body
  BY <1>2 DEF EngineMoves
<1>5. DeviceInv(e)'
  BY <1>1, DeviceStays
<1>6. ViewInv(e)'
  <2>1. CASE job[e].at \notin Pulling
    BY <1>0, <1>1, <2>1 DEF ViewInv
  <2>2. CASE job[e].at \in Pulling
    <3>1. /\ job[e].view.floor \in Nat /\ job[e].view.floor <= EffMax'
          /\ \A i \in Id : job[e].view.rows[i].rev <= EffMax'
      <4>1. \A i \in Id : job[e].view.rows[i].rev \in Nat
        BY <1>0, JobFields DEF StoredRow
      <4> QED
        BY <1>0, <1>2, <2>2, <4>1 DEF ViewInv
    <3> QED
      BY <1>0, <1>1, <2>2, <3>1 DEF ViewInv
  <2> QED
    BY <2>1, <2>2
<1>7. ViewReached(e)'
  <2>0. ViewTop(e)' = ViewTop(e)
    BY <1>1 DEF ViewTop, TopOf
  <2> SUFFICES ASSUME job[e].at \in Pulling, NEW i \in Id, NEW c \in 0 .. ViewTop(e),
                      floor' <= c, srv'[i].rev <= c
               PROVE  /\ job[e].view.floor <= c /\ job[e].view.rows[i].rev <= c
                      /\ job[e].view.rows[i].body = srv'[i].body
    BY <1>1, <2>0 DEF ViewReached
  <2>1. ViewTop(e) \in Nat /\ ViewTop(e) <= EffMax
    BY TopsTyped
  <2>2. c \in Nat /\ c <= EffMax
    BY <1>2, <2>1
  <2>3. floor <= c /\ srv[i].rev <= c /\ srv'[i].body = srv[i].body
    BY <1>3, <2>2
  <2> QED
    BY <1>0, <2>3 DEF ViewReached
<1>8. ViewAgrees(e)' /\ GatherInv(e)'
  <2>1. ViewTop(e)' = ViewTop(e)
    BY <1>1 DEF ViewTop, TopOf
  <2> QED
    BY <1>0, <1>1, <2>1 DEF ViewAgrees, GatherInv
<1>9. RequestInv(e)'
  BY <1>0, <1>1 DEF RequestInv
<1>10. DegradedInv(e)'
  <2>1. job[e].since < floor => job[e].since < floor'
    BY <1>2 DEF NoCursor
  <2> QED
    BY <1>0, <1>1, <2>1 DEF DegradedInv
<1>11. AcceptedInv(e)'
  <2>1. \A i \in Id : Final(e, i)' = Final(e, i)
    BY <1>1 DEF Final
  <2> SUFFICES ASSUME job[e].at = "accepted", job[e].top # NoCursor
               PROVE  /\ job[e].top <= EffMax'
                      /\ \A i \in Id : floor' <= job[e].top /\ srv'[i].rev <= job[e].top
                           /\ ~IsDirty(Final(e, i)) => Final(e, i).data = srv'[i].body
    BY <1>1, <2>1 DEF AcceptedInv
  <2>2. job[e].top \in Nat /\ job[e].top <= EffMax /\ job[e].top <= EffMax'
    BY <1>0, <1>2 DEF AcceptedInv
  <2>3. ASSUME NEW i \in Id, floor' <= job[e].top, srv'[i].rev <= job[e].top,
               ~IsDirty(Final(e, i))
        PROVE  Final(e, i).data = srv'[i].body
    <3>1. floor <= job[e].top /\ srv[i].rev <= job[e].top /\ srv'[i].body = srv[i].body
      BY <1>3, <2>2, <2>3
    <3> QED
      BY <1>0, <2>3, <3>1 DEF AcceptedInv
  <2> QED
    BY <2>2, <2>3
<1> QED
  BY <1>5, <1>6, <1>7, <1>8, <1>9, <1>10, <1>11 DEF PullInv

\* What it has written and collected stands while no other push commits.
LEMMA WriterStays ==
  ASSUME EngineInv, NEW e \in Device, Untouched(e), UNCHANGED <<srv, floor>>,
         rev <= rev', rev' \in Nat, EffMax' = EffMax
  PROVE  MineInv(e)' /\ WriteInv(e)' /\ AnswerInv(e)'
<1>0. /\ TypeOK /\ ServerTypeOK /\ JobsTyped
      /\ MineInv(e) /\ WriteInv(e) /\ AnswerInv(e)
  BY DEF EngineInv, Consistent, TypeOK, PushInv
<1>1. /\ job'[e] = job[e] /\ rows'[e] = rows[e] /\ cursor'[e] = cursor[e]
      /\ srv' = srv /\ floor' = floor
  BY DEF Untouched
<1>2. SeenRows(e)' = SeenRows(e) /\ Asked(e)' = Asked(e) /\ (Writing(e)' <=> Writing(e))
  BY <1>1 DEF SeenRows, Asked, Writing
<1>3. MineInv(e)'
  <2>1. \A k \in DOMAIN job[e].mine : job[e].mine[k].rev \in Nat
    BY <1>0, JobFields DEF StoredRow
  <2>2. rev \in Nat
    BY <1>0 DEF ServerTypeOK
  <2>3. \A k \in DOMAIN job[e].mine : EffMax < job[e].mine[k].rev /\ job[e].mine[k].rev <= rev'
    BY <1>0, <2>1, <2>2 DEF MineInv
  <2> QED
    BY <1>0, <1>1, <1>2, <2>3 DEF MineInv
<1>4. WriteInv(e)'
  BY <1>0, <1>1, <1>2 DEF WriteInv
<1>5. AnswerInv(e)'
  <2>1. TopOf(SeenRows(e), floor)' = TopOf(SeenRows(e), floor)
    BY <1>1, <1>2 DEF TopOf
  <2> QED
    BY <1>0, <1>1, <1>2, <2>1 DEF AnswerInv
<1> QED
  BY <1>3, <1>4, <1>5

\* A push that is not writing has neither rows nor an answer of its own.
LEMMA NotWriting ==
  ASSUME NEW e, job'[e].at \notin {"write", "top"}, DOMAIN job'[e].mine = {}
  PROVE  MineInv(e)' /\ WriteInv(e)' /\ AnswerInv(e)'
BY DEF MineInv, WriteInv, AnswerInv, Writing

\* The same for a device a step does not touch.
LEMMA NotWritingStays ==
  ASSUME EngineInv, NEW e \in Device, Untouched(e), job[e].at \notin {"write", "top"}
  PROVE  MineInv(e)' /\ WriteInv(e)' /\ AnswerInv(e)'
<1>1. DOMAIN job[e].mine = {} /\ job'[e] = job[e]
  BY DEF EngineInv, PushInv, MineInv, Writing, Untouched
<1> QED
  BY <1>1, NotWriting

\* Pruning lowers no top it is answered from.
LEMMA TopOfPruned ==
  ASSUME NEW r \in [Id -> StoredRow], NEW s \in [Id -> StoredRow],
         NEW low \in Nat, NEW high \in Nat, low <= high, NEW B \in Nat, high <= B,
         \A i \in Id : r[i].rev <= B /\ s[i].rev <= B,
         \A i \in Id : s[i].rev = r[i].rev \/ r[i].rev <= high
  PROVE  TopOf(r, low) <= TopOf(s, high)
<1>1. /\ TopOf(r, low) \in Nat
      /\ TopOf(r, low) \in {low} \cup {r[i].rev : i \in Id}
  <2>1. low <= B
    OBVIOUS
  <2> QED
    BY <2>1, TopOfBounded
<1>2. /\ TopOf(s, high) \in Nat /\ high <= TopOf(s, high)
      /\ \A i \in Id : s[i].rev <= TopOf(s, high)
  BY TopOfBounded
<1>3. CASE TopOf(r, low) = low
  BY <1>2, <1>3
<1>4. CASE \E i \in Id : TopOf(r, low) = r[i].rev
  BY <1>1, <1>2, <1>4
<1> QED
  BY <1>1, <1>3, <1>4

\* And while deletions are pruned that it has collected or written nothing about.
LEMMA WriterSurvivesPruning ==
  ASSUME EngineInv, NEW e \in Device, Untouched(e), RowsPruned, ServerTypeOK', HistoryInv',
         rev' = rev, EffMax' = EffMax
  PROVE  MineInv(e)' /\ WriteInv(e)' /\ AnswerInv(e)'
<1>0. /\ TypeOK /\ ServerTypeOK /\ JobsTyped /\ HistoryInv
      /\ MineInv(e) /\ WriteInv(e) /\ AnswerInv(e)
  BY DEF EngineInv, Consistent, TypeOK, PushInv
<1>1. job'[e] = job[e] /\ rows'[e] = rows[e] /\ cursor'[e] = cursor[e]
  BY DEF Untouched
<1>2. /\ floor \in Nat /\ floor' \in Nat /\ floor <= floor'
      /\ \A i \in Id :
           /\ srv[i].rev \in Nat /\ srv'[i].rev \in Nat
           /\ srv'[i].body = srv[i].body /\ srv'[i].rev <= srv[i].rev
           /\ IsTombstone(srv'[i]) => IsTombstone(srv[i])
           /\ srv'[i].rev = srv[i].rev \/ srv[i].rev <= floor'
  BY <1>0, Served DEF RowsPruned, Unstored, IsTombstone
<1>3. MineInv(e)'
  BY <1>0, <1>1 DEF MineInv, Writing, Asked
<1>4. ASSUME Writing(e)
      PROVE  /\ SeenRows(e) \in [Id -> StoredRow] /\ SeenRows(e)' \in [Id -> StoredRow]
             /\ job[e].view = NoView
             /\ \A i \in Id :
                  /\ SeenRows(e)'[i] = IF i \in DOMAIN job[e].mine THEN job[e].mine[i]
                                       ELSE srv'[i]
                  /\ SeenRows(e)[i] = IF i \in DOMAIN job[e].mine THEN job[e].mine[i]
                                      ELSE srv[i]
  <2>1. job[e].view = NoView
    BY <1>4, TopsTyped DEF Writing, Pulling
  <2>2. \A i \in DOMAIN job[e].mine : job[e].mine[i] \in StoredRow
    BY <1>0, JobFields
  <2>3. srv' \in [Id -> StoredRow]
    BY DEF ServerTypeOK
  <2>4. SeenRows(e)' = [i \in Id |-> IF i \in DOMAIN job[e].mine THEN job[e].mine[i]
                                     ELSE srv'[i]]
    BY <1>1, <2>1 DEF SeenRows
  <2> QED
    BY <1>0, <2>1, <2>2, <2>3, <2>4, SeenRow
<1>5. WriteInv(e)'
  <2> SUFFICES ASSUME Writing(e) PROVE WriteInv(e)'
    BY <1>1 DEF WriteInv, Writing
  <2>1. \A i \in Id : /\ SeenRows(e)'[i].body = SeenRows(e)[i].body
                      /\ IsTombstone(SeenRows(e)'[i]) => IsTombstone(SeenRows(e)[i])
    BY <1>2, <1>4
  <2>2. Asked(e)' = Asked(e) /\ Asked(e) \subseteq Id
    BY <1>1 DEF Asked, Named
  <2>3. job[e].ups \subseteq Id
    BY <1>0, JobFields
  <2> QED
    BY <1>0, <1>1, <2>1, <2>2, <2>3 DEF WriteInv
<1>6. AnswerInv(e)'
  <2> SUFFICES ASSUME job[e].at = "write" \/ (job[e].at = "top" /\ job[e].top # NoCursor)
               PROVE  AnswerInv(e)'
    BY <1>1 DEF AnswerInv
  <2>1. Writing(e)
    BY DEF Writing
  <2>2. /\ job[e].since \in Nat \cup {NoCursor} /\ job[e].low \in Nat \cup {Unread}
        /\ job[e].top \in Nat \cup {NoCursor} /\ job[e].got \in [Id -> Change]
    BY <1>0, JobFields
  <2>3. \A i \in Id \ job[e].left :
          IF i \in Named(job[e].request) THEN job[e].got[i] = Omitted
          ELSE IF job[e].got[i] = Omitted THEN srv'[i].rev <= job[e].since
          ELSE job[e].got[i] = srv'[i].body
    <3>1. \A i \in Id : srv[i].rev <= job[e].since => srv'[i].rev <= job[e].since
      BY <1>2, <2>2 DEF NoCursor
    <3> QED
      BY <1>0, <1>2, <3>1 DEF AnswerInv
  <2>4. job[e].low # Unread =>
          /\ job[e].left = {} /\ job[e].low <= floor'
          /\ job[e].low <= job[e].since =>
               \A i \in Id \ Named(job[e].request) :
                 job[e].got[i] = Omitted /\ ~IsDirty(rows[e][i]) =>
                   rows[e][i].data = srv'[i].body
    <3>1. job[e].low # Unread /\ job[e].low <= floor => job[e].low <= floor'
      BY <1>2, <2>2
    <3> QED
      BY <1>0, <1>2, <3>1 DEF AnswerInv
  <2>5. job[e].at = "top" =>
          /\ job[e].low # Unread /\ job[e].low <= job[e].since
          /\ job[e].top <= TopOf(SeenRows(e)', floor')
    <3> SUFFICES ASSUME job[e].at = "top"
                 PROVE  job[e].top <= TopOf(SeenRows(e)', floor')
      BY <1>0 DEF AnswerInv
    <3>1. rev \in Nat /\ floor' <= rev
      BY <1>0, <1>2 DEF ServerTypeOK, HistoryInv, UnstoredIsGone
    <3>2. /\ \A i \in Id : SeenRows(e)[i].rev <= rev /\ SeenRows(e)'[i].rev <= rev
          /\ \A i \in Id : \/ SeenRows(e)'[i].rev = SeenRows(e)[i].rev
                           \/ SeenRows(e)[i].rev <= floor'
      <4>1. \A i \in Id : SeenRows(e)[i].rev <= rev /\ SeenRows(e)[i].rev \in Nat
        BY <1>4, <2>1, SeenBounded DEF StoredRow
      <4>2. \A i \in Id : \/ SeenRows(e)'[i].rev = SeenRows(e)[i].rev
                          \/ /\ SeenRows(e)[i].rev <= floor'
                             /\ SeenRows(e)'[i].rev <= SeenRows(e)[i].rev
                             /\ SeenRows(e)'[i].rev \in Nat
        BY <1>2, <1>4, <2>1
      <4> QED
        BY <3>1, <4>1, <4>2
    <3> DEFINE was == SeenRows(e)
               is  == SeenRows(e)'
    <3>3. was \in [Id -> StoredRow] /\ is \in [Id -> StoredRow]
      BY <1>4, <2>1
    <3>4. TopOf(was, floor) <= TopOf(is, floor') /\ TopOf(was, floor) \in Nat
      <4> HIDE DEF was, is
      <4>1. /\ \A i \in Id : was[i].rev <= rev /\ is[i].rev <= rev
            /\ \A i \in Id : is[i].rev = was[i].rev \/ was[i].rev <= floor'
        BY <3>2 DEF was, is
      <4>2. floor <= rev
        BY <1>2, <3>1
      <4>3. TopOf(was, floor) \in Nat
        BY <1>2, <3>1, <3>3, <4>1, <4>2, TopOfBounded
      <4> QED
        BY <1>2, <3>1, <3>3, <4>1, <4>3, TopOfPruned
    <3>5. TopOf(is, floor') \in Nat
      <4> HIDE DEF was, is
      <4>1. \A i \in Id : is[i].rev <= rev
        BY <3>2 DEF is
      <4> QED
        BY <1>2, <3>1, <3>3, <4>1, TopOfBounded
    <3>6. job[e].top <= TopOf(was, floor)
      BY <1>0 DEF AnswerInv
    <3> QED
      BY <2>2, <3>4, <3>5, <3>6 DEF NoCursor
  <2> QED
    BY <1>1, <2>3, <2>4, <2>5 DEF AnswerInv
<1> QED
  BY <1>3, <1>5, <1>6

-----------------------------------------------------------------------------
(***************************************************************************)
(* A pull's steps.                                                         *)
(***************************************************************************)
Sound(d) == DeviceInv(d) /\ PullInv(d) /\ PushInv(d)

\* The invariant is each device's own, but for the domains, history and the lock.
LEMMA SoundByDevice ==
  EngineInv <=> /\ TypeOK /\ JobsTyped /\ HistoryInv /\ LockInv
                /\ \A d \in Device : Sound(d)
BY DeviceByDevice DEF EngineInv, Consistent, Sound

\* The same after a step.
LEMMA NextSoundByDevice ==
  EngineInv' <=> /\ TypeOK' /\ JobsTyped' /\ HistoryInv' /\ LockInv'
                 /\ \A d \in Device : Sound(d)'
BY DEF EngineInv, Consistent, Sound, CleanRowsAgree, CursorServed, DeviceInv

\* A step of one handler that commits nothing leaves the others sound.
LEMMA OwnStep ==
  ASSUME EngineInv, NEW d \in Device, NEW n \in JobRecord, Become(d, n),
         \A e \in Device \ {d} : rows'[e] = rows[e] /\ cursor'[e] = cursor[e],
         UNCHANGED <<srv, floor>>, rev' = rev \/ rev' = rev + 1,
         n.at \in Pushing => job[d].at \in Pushing \/ LockFree(d),
         TypeOK', JobsTyped', Sound(d)'
  PROVE  EngineInv'
<1>0. TypeOK /\ ServerTypeOK /\ JobsTyped /\ HistoryInv /\ LockInv
  BY DEF EngineInv, Consistent, TypeOK
<1>1. job' = [job EXCEPT ![d] = n] /\ job \in [Device -> JobRecord]
  BY <1>0 DEF Become, JobsTyped
<1>2. job'[d] = n /\ \A e \in Device \ {d} : Untouched(e)
  BY <1>1 DEF Untouched
<1>3. HistoryInv' /\ EngineMoves /\ EffMax' = EffMax
  BY <1>0, StandingStill, HandingOut
<1>4. rev <= rev' /\ rev' \in Nat /\ ServerTypeOK'
  BY <1>0 DEF TypeOK, ServerTypeOK
<1>5. ASSUME NEW e \in Device \ {d} PROVE Sound(e)'
  <2>1. /\ DeviceInv(e)' /\ PullInv(e)'
        /\ RequestInv(e)' /\ DegradedInv(e)' /\ AcceptedInv(e)'
    BY <1>2, <1>3, <1>4, UntouchedStays
  <2>2. MineInv(e)' /\ WriteInv(e)' /\ AnswerInv(e)'
    BY <1>2, <1>3, <1>4, WriterStays
  <2> QED
    BY <2>1, <2>2 DEF Sound, PushInv
<1>6. LockInv'
  <2>1. ASSUME NEW e \in Device \ {d} PROVE job'[e] = job[e]
    BY <1>2 DEF Untouched
  <2> QED
    BY <1>0, <1>2, <2>1 DEF LockInv, LockFree
<1> QED
  BY <1>3, <1>5, <1>6, NextSoundByDevice

\* A handler that only reads has its own part to keep.
LEMMA ReadStep ==
  ASSUME EngineInv, NEW d \in Device, NEW n \in JobRecord, Reads(d, n),
         n.at \in Pushing => job[d].at \in Pushing \/ LockFree(d),
         PullInv(d)', PushInv(d)'
  PROVE  EngineInv'
<1>0. TypeOK /\ ServerTypeOK /\ JobsTyped /\ HistoryInv /\ DeviceInv(d)
  BY SoundByDevice DEF Sound, TypeOK
<1>1. Become(d, n) /\ UNCHANGED <<srv, rev, floor>> /\ UNCHANGED <<rows, cursor>>
  BY DEF Reads, serverVars
<1>2. TypeOK' /\ JobsTyped'
  BY <1>0, ReadsTyped
<1>3. EffMax' = EffMax
  BY <1>0, <1>1, StandingStill
<1>4. DeviceInv(d)'
  BY <1>0, <1>1, <1>3 DEF DeviceInv
<1>5. Sound(d)'
  BY <1>4 DEF Sound
<1> QED
  BY <1>1, <1>2, <1>5, OwnStep

\* What a handler is after reading.
LEMMA ReadOwn ==
  ASSUME EngineInv, NEW d \in Device, NEW n \in JobRecord, Reads(d, n)
  PROVE  /\ job'[d] = n /\ rows'[d] = rows[d] /\ cursor'[d] = cursor[d]
         /\ srv' = srv /\ floor' = floor /\ rev' = rev /\ EffMax' = EffMax
<1>0. ServerTypeOK /\ JobsTyped /\ HistoryInv
  BY DEF EngineInv, Consistent, TypeOK
<1>1. /\ job' = [job EXCEPT ![d] = n] /\ rows' = rows /\ cursor' = cursor
      /\ srv' = srv /\ floor' = floor /\ rev' = rev
  BY DEF Reads, Become, serverVars
<1>2. EffMax' = EffMax
  BY <1>0, <1>1, StandingStill
<1> QED
  BY <1>0, <1>1, <1>2 DEF JobsTyped

\* A handler that holds no snapshot.
LEMMA NotPulling ==
  ASSUME NEW d, job'[d].at \notin Pulling, job'[d].view = NoView
  PROVE  PullInv(d)'
BY DEF PullInv, ViewInv, ViewReached, ViewAgrees, GatherInv, Pulling

\* And one that holds no push.
LEMMA NotPushing ==
  ASSUME NEW d, job'[d].at \notin {"lock", "accepted"} \cup Pushing,
         DOMAIN job'[d].mine = {}
  PROVE  PushInv(d)'
BY DEF PushInv, RequestInv, MineInv, WriteInv, AnswerInv, DegradedInv, AcceptedInv,
       Writing, Pushing

\* A pull has no push's rows.
LEMMA PullingAlone ==
  ASSUME EngineInv, NEW d \in Device, ~Writing(d)
  PROVE  DOMAIN job[d].mine = {}
BY DEF EngineInv, PushInv, MineInv

\* The store gives a pull the rows as they stand.
LEMMA SnapshotStep ==
  ASSUME EngineInv, Isolated, NEW d \in Device, NEW since \in Nat \cup {NoCursor},
         since # NoCursor => since = cursor[d], Reads(d, PullJob(since))
  PROVE  EngineInv'
<1> DEFINE n == PullJob(since)
<1>0. TypeOK /\ ServerTypeOK /\ JobsTyped /\ HistoryInv /\ DeviceInv(d)
  BY SoundByDevice DEF Sound, TypeOK
<1>1. /\ n \in JobRecord /\ n.at = "pull" /\ n.since = since
      /\ n.view = [rows |-> srv, floor |-> floor] /\ DOMAIN n.mine = {}
  BY <1>0, PullJobFields
<1> HIDE DEF n
<1>2. /\ job'[d] = n /\ rows'[d] = rows[d] /\ cursor'[d] = cursor[d]
      /\ srv' = srv /\ floor' = floor /\ EffMax' = EffMax
  BY <1>1, ReadOwn DEF n
<1>3. n.view.rows = srv /\ n.view.floor = floor
  BY <1>1
<1>4. ViewInv(d)'
  <2>1. /\ floor \in Nat /\ floor <= EffMax
        /\ \A i \in Id : /\ srv[i].rev <= EffMax
                         /\ srv[i].rev = 0 => srv[i].body = Gone
    BY <1>0, Served DEF HistoryInv, UnstoredIsGone
  <2> QED
    BY <1>1, <1>2, <1>3, <2>1 DEF ViewInv, Pulling
<1>5. ViewReached(d)'
  BY <1>2, <1>3 DEF ViewReached
<1>6. ViewAgrees(d)'
  BY <1>0, <1>1, <1>2, <1>3 DEF ViewAgrees, DeviceInv
<1>7. PullInv(d)'
  BY <1>1, <1>2, <1>4, <1>5, <1>6 DEF PullInv, GatherInv
<1>8. PushInv(d)'
  BY <1>1, <1>2, NotPushing DEF Pushing
<1>9. n.at \notin Pushing
  BY <1>1 DEF Pushing
<1> QED
  BY <1>1, <1>7, <1>8, <1>9, ReadStep DEF n

\* A pull that keeps its snapshot keeps what is known of it.
LEMMA ViewStays ==
  ASSUME EngineInv, NEW d \in Device, job[d].at \in Pulling, job'[d].at \in Pulling,
         job'[d].view = job[d].view, job'[d].since = job[d].since,
         rows'[d] = rows[d], cursor'[d] = cursor[d], srv' = srv, floor' = floor,
         EffMax' = EffMax
  PROVE  ViewInv(d)' /\ ViewReached(d)' /\ ViewAgrees(d)' /\ ViewTop(d)' = ViewTop(d)
<1>1. ViewInv(d) /\ ViewReached(d) /\ ViewAgrees(d)
  BY DEF EngineInv, PullInv
<1>2. ViewTop(d)' = ViewTop(d)
  BY DEF ViewTop, TopOf
<1>3. ViewInv(d)'
  BY <1>1 DEF ViewInv
<1>4. ViewReached(d)'
  BY <1>1, <1>2 DEF ViewReached
<1>5. ViewAgrees(d)'
  BY <1>1 DEF ViewAgrees
<1> QED
  BY <1>2, <1>3, <1>4, <1>5

\* The floor is the snapshot's.
LEMMA PullFloorSound ==
  ASSUME EngineInv, NEW d \in Device, PullFloor(d)
  PROVE  EngineInv'
<1>1. PICK n \in JobRecord :
        /\ Reads(d, n) /\ At(d, "pull") /\ n.at = "horizon"
        /\ n.low = job[d].view.floor /\ n.since = job[d].since
        /\ n.view = job[d].view /\ n.mine = job[d].mine
  BY PullFloorFields
<1>2. /\ job'[d] = n /\ rows'[d] = rows[d] /\ cursor'[d] = cursor[d]
      /\ srv' = srv /\ floor' = floor /\ EffMax' = EffMax
  BY <1>1, ReadOwn
<1>3. job[d].at \in Pulling /\ n.at \in Pulling /\ ~Writing(d) /\ n.at \notin Pushing
  BY <1>1 DEF At, Pulling, Writing, Pushing
<1>4. ViewInv(d)' /\ ViewReached(d)' /\ ViewAgrees(d)'
  BY <1>1, <1>2, <1>3, ViewStays
<1>5. GatherInv(d)'
  BY <1>1, <1>2 DEF GatherInv
<1>6. PushInv(d)'
  BY <1>1, <1>2, <1>3, PullingAlone, NotPushing
<1> QED
  BY <1>1, <1>3, <1>4, <1>5, <1>6, ReadStep DEF PullInv

\* A cursor the snapshot cannot place expires.
LEMMA PullHorizonSound ==
  ASSUME EngineInv, NEW d \in Device, PullHorizon(d)
  PROVE  EngineInv'
<1>1. PICK n \in JobRecord :
        /\ Reads(d, n) /\ At(d, "horizon")
        /\ n.mine = job[d].mine \/ DOMAIN n.mine = {}
        /\ \/ n.at = "expired" /\ n.view = NoView
           \/ /\ n.at = "gather" /\ n.left = Id /\ n.top = ViewTop(d)
              /\ n.low = job[d].view.floor /\ n.since = job[d].since
              /\ n.since # NoCursor => n.low <= n.since
              /\ n.view = job[d].view
  BY PullHorizonFields
<1>2. /\ job'[d] = n /\ rows'[d] = rows[d] /\ cursor'[d] = cursor[d]
      /\ srv' = srv /\ floor' = floor /\ EffMax' = EffMax
  BY <1>1, ReadOwn
<1>3. job[d].at \in Pulling /\ ~Writing(d) /\ n.at \in {"expired", "gather"}
  BY <1>1 DEF At, Pulling, Writing
<1>4. PushInv(d)'
  BY <1>1, <1>2, <1>3, PullingAlone, NotPushing DEF Pushing
<1>5. PullInv(d)'
  <2>1. CASE n.at = "expired"
    BY <1>1, <1>2, <2>1, NotPulling DEF Pulling
  <2>2. CASE n.at = "gather"
    <3>1. /\ ViewInv(d)' /\ ViewReached(d)' /\ ViewAgrees(d)'
          /\ ViewTop(d)' = ViewTop(d)
      BY <1>1, <1>2, <1>3, <2>2, ViewStays DEF Pulling
    <3>2. GatherInv(d)'
      BY <1>1, <1>2, <2>2, <3>1 DEF GatherInv
    <3> QED
      BY <3>1, <3>2 DEF PullInv
  <2> QED
    BY <1>3, <2>1, <2>2
<1> QED
  BY <1>1, <1>3, <1>4, <1>5, ReadStep DEF Pushing

\* A table is collected from the snapshot.
LEMMA PullTableSound ==
  ASSUME EngineInv, NEW d \in Device, NEW i \in Id, PullTable(d, i)
  PROVE  EngineInv'
<1> DEFINE n     == Collect(d, i)
           since == IF job[d].since = NoCursor THEN 0 ELSE job[d].since
<1>0. TypeOK /\ JobsTyped /\ GatherInv(d)
  BY DEF EngineInv, Consistent, PullInv
<1>1. Reads(d, n) /\ job[d].at = "gather" /\ i \in job[d].left
  BY DEF PullTable, At
<1>2. /\ n \in JobRecord /\ n.left = job[d].left \ {i}
      /\ \A k \in Id : n.got[k] =
           IF k # i THEN job[d].got[k]
           ELSE IF SeenRows(d)[i].rev <= since THEN Omitted ELSE SeenRows(d)[i].body
      /\ n.at = job[d].at /\ n.since = job[d].since /\ n.low = job[d].low
      /\ n.top = job[d].top /\ n.view = job[d].view /\ n.mine = job[d].mine
  BY <1>0, <1>1, CollectFields DEF At
<1> HIDE DEF n
<1>3. /\ job'[d] = n /\ rows'[d] = rows[d] /\ cursor'[d] = cursor[d]
      /\ srv' = srv /\ floor' = floor /\ EffMax' = EffMax
  BY <1>1, <1>2, ReadOwn
<1>4. job[d].at \in Pulling /\ ~Writing(d) /\ SeenRows(d) = job[d].view.rows
  BY <1>1, TopsTyped DEF Pulling, Writing
<1>5. PushInv(d)'
  BY <1>1, <1>2, <1>3, <1>4, PullingAlone, NotPushing DEF Pushing
<1>6. ViewInv(d)' /\ ViewReached(d)' /\ ViewAgrees(d)' /\ ViewTop(d)' = ViewTop(d)
  BY <1>2, <1>3, <1>4, ViewStays
<1>7. \A k \in Id \ n.left :
        n.got[k] = IF job[d].view.rows[k].rev <= since THEN Omitted
                   ELSE job[d].view.rows[k].body
  BY <1>0, <1>1, <1>2, <1>4 DEF GatherInv
<1>8. GatherInv(d)'
  BY <1>0, <1>1, <1>2, <1>3, <1>6, <1>7 DEF GatherInv
<1> QED
  BY <1>1, <1>2, <1>5, <1>6, <1>8, ReadStep DEF PullInv, Pushing

\* The device takes the answer: its clean rows are the snapshot's, and what the
\* snapshot's last revision reaches is still so.
LEMMA DeliverPullSound ==
  ASSUME EngineInv, NEW d \in Device, DeliverPull(d)
  PROVE  EngineInv'
<1> DEFINE fresh == job[d].since = NoCursor
           since == IF fresh THEN 0 ELSE job[d].since
           new(i) == ApplyChange(rows[d][i], job[d].got[i], fresh)
<1>0. /\ TypeOK /\ ServerTypeOK /\ JobsTyped /\ HistoryInv
      /\ ViewInv(d) /\ ViewReached(d) /\ ViewAgrees(d) /\ GatherInv(d)
  BY DEF EngineInv, Consistent, TypeOK, PullInv
<1>1. /\ job[d].at = "gather" /\ job[d].left = {} /\ Become(d, NoJob)
      /\ rows' = [rows EXCEPT ![d] = [i \in Id |-> new(i)]]
      /\ cursor' = [cursor EXCEPT ![d] = job[d].top]
      /\ srv' = srv /\ rev' = rev /\ floor' = floor /\ acked' = acked
  BY DEF DeliverPull, At, serverVars
<1>2. /\ job[d].at \in Pulling /\ job[d].top = ViewTop(d) /\ ViewTop(d) \in Nat
      /\ job[d].view.floor <= ViewTop(d) /\ ViewTop(d) <= EffMax /\ EffMax \in Nat
      /\ \A i \in Id : job[d].view.rows[i].rev <= ViewTop(d)
      /\ \A i \in Id : job[d].view.rows[i].rev \in Nat /\ job[d].view.rows[i].body \in Body
  <2>1. job[d].at \in Pulling
    BY <1>1 DEF Pulling
  <2> QED
    BY <1>0, <1>1, <2>1, TopsTyped, Served, JobFields DEF GatherInv, StoredRow
<1>3. ASSUME NEW i \in Id
      PROVE  /\ WellFormed(rows[d][i]) /\ job[d].got[i] \in Change
             /\ WellFormed(new(i))
             /\ job[d].got[i] # Gone => (IsDirty(new(i)) <=> IsDirty(rows[d][i]))
             /\ job[d].got[i] # Omitted /\ ~IsDirty(new(i)) => new(i).data = job[d].got[i]
             /\ job[d].got[i] = Omitted /\ ~fresh => new(i) = rows[d][i]
             /\ job[d].got[i] = Omitted /\ fresh /\ ~IsDirty(new(i)) => new(i).data = Gone
  <2>1. WellFormed(rows[d][i]) /\ job[d].got[i] \in Change
    BY <1>0, JobFields
  <2> QED
    BY <2>1, ApplyChangeRow
<1> HIDE DEF new
<1>4. /\ rows'[d] = [i \in Id |-> new(i)] /\ cursor'[d] = ViewTop(d) /\ job'[d] = NoJob
      /\ \A e \in Device \ {d} : rows'[e] = rows[e] /\ cursor'[e] = cursor[e]
  BY <1>0, <1>1, <1>2 DEF TypeOK, JobsTyped, Become
<1>5. rows' \in [Device -> [Id -> LocalRow]] /\ \A e \in Device, i \in Id : WellFormed(rows'[e][i])
  <2>1. \A i \in Id : new(i) \in LocalRow
    BY <1>3 DEF WellFormed
  <2> QED
    BY <1>0, <1>1, <1>3, <1>4, <2>1 DEF TypeOK, JobsTyped
<1>6. TypeOK' /\ JobsTyped'
  <2>1. cursor' \in [Device -> Nat \cup {NoCursor}]
    BY <1>0, <1>1, <1>2 DEF TypeOK
  <2>2. job' \in [Device -> JobRecord]
    BY <1>0, <1>1, NoJobTyped DEF JobsTyped, Become
  <2>3. \A e \in Device : /\ job'[e].at \in Labels /\ job'[e].low \in Nat \cup {Unread}
                          /\ job'[e].top \in Nat \cup {NoCursor}
                          /\ job'[e].got \in [Id -> Change]
    BY <2>2 DEF JobRecord
  <2> QED
    BY <1>0, <1>1, <1>5, <2>1, <2>2, <2>3 DEF TypeOK, JobsTyped, ServerTypeOK
<1>7. EffMax' = EffMax
  BY <1>0, <1>1, StandingStill
<1>8. DeviceInv(d)'
  <2>1. cursor'[d] <= EffMax'
    BY <1>2, <1>4, <1>7
  <2>2. ASSUME NEW i \in Id, floor <= ViewTop(d), srv[i].rev <= ViewTop(d),
               ~IsDirty(new(i))
        PROVE  new(i).data = srv[i].body
    <3>1. ViewTop(d) \in 0 .. ViewTop(d)
      BY <1>2
    <3>2. job[d].view.rows[i].body = srv[i].body
      BY <1>0, <1>2, <2>2, <3>1 DEF ViewReached
    <3>3. job[d].got[i] = IF job[d].view.rows[i].rev <= since THEN Omitted
                          ELSE job[d].view.rows[i].body
      BY <1>0, <1>1 DEF GatherInv
    <3>4. CASE job[d].view.rows[i].rev > since
      <4>1. job[d].got[i] = job[d].view.rows[i].body
        <5>1. since \in Nat
          BY <1>0, JobFields
        <5> QED
          BY <1>2, <3>3, <3>4, <5>1
      <4>2. job[d].got[i] # Omitted
        BY <1>2, <4>1, MarkersAreNoContent DEF Body
      <4> QED
        BY <1>3, <2>2, <3>2, <4>1, <4>2
    <3>5. CASE job[d].view.rows[i].rev <= since /\ fresh
      <4>1. job[d].got[i] = Omitted /\ job[d].view.rows[i].rev = 0
        BY <1>2, <3>3, <3>5
      <4>2. job[d].view.rows[i].body = Gone
        BY <1>0, <1>2, <4>1 DEF ViewInv
      <4> QED
        BY <1>3, <2>2, <3>2, <3>5, <4>1, <4>2
    <3>6. CASE job[d].view.rows[i].rev <= since /\ ~fresh
      <4>1. new(i) = rows[d][i]
        BY <1>3, <3>3, <3>6
      <4>2. job[d].view.floor <= job[d].since
        BY <1>0, <1>1, <3>6 DEF GatherInv
      <4>3. rows[d][i].data = job[d].view.rows[i].body
        BY <1>0, <1>2, <2>2, <3>6, <4>1, <4>2 DEF ViewAgrees
      <4> QED
        BY <3>2, <4>1, <4>3
    <3>7. since \in Nat
      BY <1>0, JobFields
    <3> QED
      BY <1>2, <3>4, <3>5, <3>6, <3>7
  <2> QED
    BY <1>1, <1>4, <2>1, <2>2 DEF DeviceInv
<1>9. PullInv(d)' /\ PushInv(d)' /\ NoJob.at \notin Pushing
  BY <1>4, NoJobFields, NotPulling, NotPushing DEF Pulling, Pushing
<1>10. Sound(d)'
  BY <1>8, <1>9 DEF Sound
<1> QED
  BY <1>1, <1>4, <1>6, <1>9, <1>10, NoJobTyped, OwnStep

\* Every step of a pull.
LEMMA PullStepSound ==
  ASSUME EngineInv, Isolated, NEW d \in Device, PullStep(d)
  PROVE  EngineInv'
<1>1. cursor[d] \in Nat \cup {NoCursor} /\ NoCursor \in Nat \cup {NoCursor}
  BY DEF EngineInv, Consistent, TypeOK
<1>2. CASE AskPull(d)
  BY <1>1, <1>2, SnapshotStep DEF AskPull
<1>3. CASE PullFloor(d)
  BY <1>3, PullFloorSound
<1>4. CASE PullHorizon(d)
  BY <1>4, PullHorizonSound
<1>5. CASE \E i \in Id : PullTable(d, i)
  BY <1>5, PullTableSound
<1>6. CASE DeliverPull(d)
  BY <1>6, DeliverPullSound
<1>7. CASE RePull(d)
  BY <1>1, <1>7, SnapshotStep DEF RePull
<1> QED
  BY <1>2, <1>3, <1>4, <1>5, <1>6, <1>7 DEF PullStep

-----------------------------------------------------------------------------
(***************************************************************************)
(* A push's steps.                                                         *)
(***************************************************************************)
\* What is known of a push and of its device's rows.
LEMMA PushFacts ==
  ASSUME EngineInv, NEW d \in Device, job[d].at \notin Pulling
  PROVE  /\ TypeOK /\ ServerTypeOK /\ JobsTyped /\ HistoryInv /\ LockInv
         /\ DeviceInv(d) /\ job[d].view = NoView
         /\ RequestInv(d) /\ MineInv(d) /\ WriteInv(d) /\ AnswerInv(d)
         /\ DegradedInv(d) /\ AcceptedInv(d)
         /\ \A i \in Id : SeenRows(d)[i] =
              IF i \in DOMAIN job[d].mine THEN job[d].mine[i] ELSE srv[i]
         /\ SeenRows(d) \in [Id -> StoredRow]
<1>1. /\ TypeOK /\ ServerTypeOK /\ JobsTyped /\ HistoryInv /\ LockInv
      /\ DeviceInv(d) /\ job[d].view = NoView
      /\ RequestInv(d) /\ MineInv(d) /\ WriteInv(d) /\ AnswerInv(d)
      /\ DegradedInv(d) /\ AcceptedInv(d)
  BY TopsTyped, SoundByDevice DEF Sound, PushInv, TypeOK
<1> QED
  BY <1>1, SeenRow

\* The asked rows, by kind, and their content.
LEMMA RequestRows ==
  ASSUME EngineInv, NEW d \in Device, job[d].at \in {"lock", "accepted"} \cup Pushing
  PROVE  /\ \A i \in Id :
              /\ WellFormed(job[d].request[i])
              /\ i \in Named(job[d].request) <=> IsDirty(rows[d][i])
              /\ i \in Named(job[d].request) => job[d].request[i] = rows[d][i]
              /\ i \in Deletes(job[d].request) => job[d].request[i].data = Gone
              /\ i \in Deletes(job[d].request) => i \notin Upserts(job[d].request)
         /\ Named(job[d].request) = Upserts(job[d].request) \cup Deletes(job[d].request)
         /\ Named(job[d].request) \subseteq Id
<1>1. job[d].at \notin Pulling
  BY DEF Pulling, Pushing
<1>2. /\ TypeOK /\ JobsTyped /\ job[d].request = [k \in Id |-> Frozen(rows[d][k])]
  BY <1>1, PushFacts DEF RequestInv
<1>3. \A i \in Id : job[d].request[i] = Frozen(rows[d][i]) /\ WellFormed(rows[d][i])
  BY <1>2, JobFields
<1>4. \A i \in Id :
        /\ WellFormed(job[d].request[i])
        /\ IsDirty(job[d].request[i]) <=> IsDirty(rows[d][i])
        /\ IsDirty(job[d].request[i]) => job[d].request[i] = rows[d][i]
  BY <1>3, FrozenRow
<1>5. \A i \in Id : job[d].request[i].status = "deleted" => job[d].request[i].data = Gone
  BY <1>4, RowShapes DEF Tombstone
<1> QED
  BY <1>4, <1>5 DEF Named, Upserts, Deletes, IsDirty

\* A device writes a record, which is dirty from then on, and asks.
LEMMA AskPushSound ==
  ASSUME EngineInv, NEW d \in Device, NEW i \in Id, NEW new \in Body, AskPush(d, i, new)
  PROVE  EngineInv'
<1>0. /\ TypeOK /\ ServerTypeOK /\ JobsTyped /\ HistoryInv /\ DeviceInv(d)
  BY PushFacts DEF AskPush, At, Pulling
<1>1. PICK n \in JobRecord :
        /\ Become(d, n) /\ n.at = "lock" /\ n.since = cursor[d] /\ cursor[d] # NoCursor
        /\ n.request = [k \in Id |-> Frozen(rows'[d][k])]
        /\ n.low = Unread /\ n.top = NoCursor /\ n.view = NoView /\ DOMAIN n.mine = {}
        /\ rows' \in [Device -> [Id -> LocalRow]]
        /\ \A e \in Device, k \in Id :
             /\ WellFormed(rows'[e][k])
             /\ e # d \/ k # i => rows'[e][k] = rows[e][k]
             /\ e = d /\ k = i => IsDirty(rows'[e][k])
        /\ rows' = [rows EXCEPT ![d] = rows'[d]]
        /\ UNCHANGED <<serverVars, cursor>>
  BY <1>0, AskPushFields
<1>2. /\ job' = [job EXCEPT ![d] = n] /\ cursor' = cursor
      /\ srv' = srv /\ rev' = rev /\ floor' = floor /\ acked' = acked
  BY <1>1 DEF Become, serverVars
<1>3. job'[d] = n /\ job' \in [Device -> JobRecord]
  BY <1>0, <1>2 DEF JobsTyped
<1>4. \A e \in Device \ {d} : rows'[e] = rows[e]
  <2>1. PICK new_d : rows' = [rows EXCEPT ![d] = new_d]
    BY <1>1
  <2> QED
    BY <1>0, <2>1 DEF JobsTyped
<1>5. TypeOK' /\ JobsTyped'
  <2>1. \A e \in Device : /\ job'[e].at \in Labels /\ job'[e].low \in Nat \cup {Unread}
                          /\ job'[e].top \in Nat \cup {NoCursor}
                          /\ job'[e].got \in [Id -> Change]
    BY <1>3 DEF JobRecord
  <2> QED
    BY <1>0, <1>1, <1>2, <1>3, <2>1 DEF TypeOK, JobsTyped, ServerTypeOK
<1>6. EffMax' = EffMax
  BY <1>0, <1>2, StandingStill
<1>7. DeviceInv(d)'
  BY <1>0, <1>1, <1>2, <1>6 DEF DeviceInv
<1>8. PullInv(d)'
  BY <1>1, <1>3, NotPulling DEF Pulling
<1>9. PushInv(d)'
  <2>1. RequestInv(d)'
    BY <1>1, <1>2, <1>3 DEF RequestInv
  <2>2. MineInv(d)' /\ WriteInv(d)' /\ AnswerInv(d)'
    BY <1>1, <1>3, NotWriting
  <2> QED
    BY <1>1, <1>3, <2>1, <2>2 DEF PushInv, DegradedInv, AcceptedInv
<1> QED
  BY <1>1, <1>2, <1>4, <1>5, <1>7, <1>8, <1>9, OwnStep DEF Sound, Pushing

\* A push that has not begun to write moves on, or ends in a conflict.
LEMMA PushAtSound ==
  ASSUME EngineInv, NEW d \in Device, NEW at \in {"conflict", "scan", "refuse"},
         job[d].at \in {"lock", "scan"}, Reads(d, [job[d] EXCEPT !.at = at]),
         job[d].at = "scan" \/ LockFree(d)
  PROVE  EngineInv'
<1> DEFINE n == [job[d] EXCEPT !.at = at]
<1>0. /\ TypeOK /\ JobsTyped /\ RequestInv(d) /\ MineInv(d) /\ job[d].view = NoView
  BY PushFacts DEF Pulling
<1>1. PICK j \in JobRecord : j = job[d]
  BY <1>0, JobFields
<1>2. /\ n \in JobRecord /\ n.at = at
      /\ n.since = j.since /\ n.low = j.low /\ n.top = j.top /\ n.left = j.left
      /\ n.got = j.got /\ n.view = j.view /\ n.request = j.request
      /\ n.refused = j.refused /\ n.ups = j.ups /\ n.dels = j.dels /\ n.mine = j.mine
  <2>1. at \in Labels
    BY DEF Labels, Pushing
  <2> QED
    BY <1>1, <2>1, FieldsAt
<1>3. Reads(d, n)
  OBVIOUS
<1> HIDE DEF n
<1>4. job'[d] = n /\ rows'[d] = rows[d] /\ cursor'[d] = cursor[d]
  BY <1>2, <1>3, ReadOwn
<1>5. PullInv(d)'
  BY <1>0, <1>1, <1>2, <1>4, NotPulling DEF Pulling
<1>6. PushInv(d)'
  <2>1. DOMAIN n.mine = {}
    BY <1>0, <1>1, <1>2 DEF MineInv, Writing
  <2>2. MineInv(d)' /\ WriteInv(d)' /\ AnswerInv(d)'
    BY <1>2, <1>4, <2>1, NotWriting
  <2>3. RequestInv(d)'
    BY <1>0, <1>1, <1>2, <1>4 DEF RequestInv, Pushing
  <2> QED
    BY <1>2, <1>4, <2>2, <2>3 DEF PushInv, DegradedInv, AcceptedInv
<1> QED
  BY <1>2, <1>3, <1>5, <1>6, ReadStep DEF Pushing

\* A push begins to write what is not refused.
LEMMA PushRefuseSound ==
  ASSUME EngineInv, NEW d \in Device, NEW hooked, PushRefuse(d, hooked)
  PROVE  EngineInv'
<1>0. job[d].at = "refuse"
  BY DEF PushRefuse, At
<1>1. /\ TypeOK /\ JobsTyped /\ RequestInv(d) /\ MineInv(d) /\ job[d].view = NoView
      /\ \A i \in Id : SeenRows(d)[i] =
           IF i \in DOMAIN job[d].mine THEN job[d].mine[i] ELSE srv[i]
  BY <1>0, PushFacts DEF Pulling
<1>2. PICK n \in JobRecord :
        /\ Reads(d, n) /\ At(d, "refuse") /\ n.at = "write" /\ n.left = Id
        /\ n.refused = Refused(job[d].request, hooked)
        /\ n.ups = Upserts(job[d].request) \ n.refused
        /\ n.dels = Deletes(job[d].request) \ n.refused
        /\ n.since = job[d].since /\ n.low = job[d].low /\ n.top = job[d].top
        /\ n.view = job[d].view /\ n.request = job[d].request /\ n.mine = job[d].mine
  BY <1>1, PushRefuseFields
<1>3. /\ job'[d] = n /\ rows'[d] = rows[d] /\ cursor'[d] = cursor[d]
      /\ srv' = srv /\ floor' = floor /\ rev' = rev /\ EffMax' = EffMax
  BY <1>2, ReadOwn
<1>4. DOMAIN n.mine = {}
  BY <1>0, <1>1, <1>2 DEF MineInv, Writing
<1>5. PullInv(d)'
  BY <1>1, <1>2, <1>3, NotPulling DEF Pulling
<1>6. RequestInv(d)'
  BY <1>0, <1>1, <1>2, <1>3 DEF RequestInv, Pushing
<1>7. MineInv(d)'
  BY <1>3, <1>4 DEF MineInv
<1>8. WriteInv(d)'
  <2>1. \A i \in Id : SeenRows(d)'[i] = srv[i]
    BY <1>1, <1>2, <1>3, <1>4 DEF SeenRows
  <2>2. Named(job[d].request) = Upserts(job[d].request) \cup Deletes(job[d].request)
        /\ Named(job[d].request) \subseteq Id
    BY <1>0, RequestRows DEF Pushing
  <2>3. \A i \in n.ups : i \in Id /\ ~IsTombstone(srv[i])
    BY <1>2, <2>2 DEF Refused
  <2>4. Asked(d)' = Named(job[d].request) \ n.refused
    BY <1>2, <1>3 DEF Asked
  <2> QED
    BY <1>2, <1>3, <2>1, <2>2, <2>3, <2>4 DEF WriteInv
<1>9. AnswerInv(d)'
  <2>1. n.low = Unread
    BY <1>0, <1>1, <1>2 DEF RequestInv
  <2> QED
    BY <1>2, <1>3, <2>1 DEF AnswerInv
<1>10. PushInv(d)'
  BY <1>2, <1>3, <1>6, <1>7, <1>8, <1>9 DEF PushInv, DegradedInv, AcceptedInv
<1> QED
  BY <1>0, <1>2, <1>5, <1>10, ReadStep DEF Pushing

\* A statement is written under a revision nobody was served, or needs no row.
LEMMA WriteSound ==
  ASSUME EngineInv, NEW d \in Device, job[d].at = "write", NEW n \in JobRecord,
         NEW i \in Asked(d), NEW row \in StoredRow, NEW stored \in BOOLEAN,
         StoresRow(d, n, i, row, stored), SameRequest(n, job[d]),
         row.rev = rev + 1, row.body = job[d].request[i].data,
         ~stored => SeenRows(d)[i].body = job[d].request[i].data,
         n.ups \subseteq job[d].ups \ {i}, n.dels \subseteq job[d].dels,
         (job[d].ups \cup job[d].dels) \ {i} \subseteq n.ups \cup n.dels
  PROVE  EngineInv'
<1>0. /\ TypeOK /\ ServerTypeOK /\ JobsTyped /\ HistoryInv /\ DeviceInv(d)
      /\ RequestInv(d) /\ MineInv(d) /\ WriteInv(d) /\ AnswerInv(d) /\ job[d].view = NoView
      /\ \A k \in Id : SeenRows(d)[k] =
           IF k \in DOMAIN job[d].mine THEN job[d].mine[k] ELSE srv[k]
  BY PushFacts DEF Pulling
<1>1. /\ Become(d, n) /\ rev' = rev + 1
      /\ srv' = srv /\ floor' = floor /\ acked' = acked /\ rows' = rows /\ cursor' = cursor
      /\ DOMAIN n.mine = DOMAIN job[d].mine \cup (IF stored THEN {i} ELSE {})
      /\ \A k \in DOMAIN n.mine :
           n.mine[k] = IF k = i /\ stored THEN row ELSE job[d].mine[k]
  BY DEF StoresRow
<1>2. /\ n.at = "write" /\ n.since = job[d].since /\ n.low = job[d].low
      /\ n.top = job[d].top /\ n.left = job[d].left /\ n.got = job[d].got
      /\ n.view = job[d].view /\ n.request = job[d].request /\ n.refused = job[d].refused
  BY DEF SameRequest
<1>3. job'[d] = n /\ job' = [job EXCEPT ![d] = n] /\ job' \in [Device -> JobRecord]
  BY <1>0, <1>1 DEF Become, JobsTyped
<1>4. EffMax' = EffMax
  BY <1>0, <1>1, HandingOut
<1>5. TypeOK' /\ JobsTyped'
  <2>1. \A e \in Device : /\ job'[e].at \in Labels /\ job'[e].low \in Nat \cup {Unread}
                          /\ job'[e].top \in Nat \cup {NoCursor}
                          /\ job'[e].got \in [Id -> Change]
    BY <1>3 DEF JobRecord
  <2> QED
    BY <1>0, <1>1, <1>3, <2>1 DEF TypeOK, JobsTyped, ServerTypeOK
<1>6. i \in Id /\ Asked(d) \subseteq Id /\ Asked(d)' = Asked(d)
  BY <1>2, <1>3 DEF Asked, Named
<1>7. \A k \in Id : SeenRows(d)'[k] = IF k = i /\ stored THEN row ELSE SeenRows(d)[k]
  BY <1>0, <1>1, <1>2, <1>3 DEF SeenRows
<1>8. MineInv(d)'
  <2>1. EffMax \in Nat /\ rev \in Nat /\ EffMax <= rev
    BY <1>0, Served
  <2>2. \A k \in DOMAIN job[d].mine :
          /\ job[d].mine[k].rev \in Nat
          /\ EffMax < job[d].mine[k].rev /\ job[d].mine[k].rev <= rev
    BY <1>0, JobFields DEF MineInv, StoredRow
  <2>3. \A k \in DOMAIN n.mine : EffMax < n.mine[k].rev /\ n.mine[k].rev <= rev'
    <3> SUFFICES ASSUME NEW k \in DOMAIN n.mine
                 PROVE  EffMax < n.mine[k].rev /\ n.mine[k].rev <= rev'
      OBVIOUS
    <3>1. CASE k = i /\ stored
      BY <1>1, <2>1, <3>1
    <3>2. CASE ~ (k = i /\ stored)
      <4>1. k \in DOMAIN job[d].mine /\ n.mine[k] = job[d].mine[k]
        BY <1>1, <3>2
      <4> QED
        BY <1>1, <2>1, <2>2, <4>1
    <3> QED
      BY <3>1, <3>2
  <2>4. DOMAIN n.mine \subseteq Asked(d)
    BY <1>0, <1>1 DEF MineInv
  <2>5. Writing(d)'
    BY <1>2, <1>3 DEF Writing
  <2> QED
    BY <1>3, <1>4, <1>6, <2>3, <2>4, <2>5 DEF MineInv
<1>9. WriteInv(d)'
  <2>1. /\ job[d].ups \subseteq Asked(d) \cap Upserts(job[d].request)
        /\ job[d].dels \subseteq Asked(d) \cap Deletes(job[d].request)
        /\ \A k \in job[d].ups : ~IsTombstone(SeenRows(d)[k])
        /\ \A k \in Asked(d) :
             \/ k \in job[d].ups \cup job[d].dels
             \/ SeenRows(d)[k].body = job[d].request[k].data
    BY <1>0 DEF WriteInv, Writing
  <2>2. \A k \in n.ups : ~IsTombstone(SeenRows(d)'[k])
    BY <1>6, <1>7, <2>1
  <2>3. \A k \in Asked(d) :
          k \in n.ups \cup n.dels \/ SeenRows(d)'[k].body = job[d].request[k].data
    BY <1>6, <1>7, <2>1
  <2> QED
    BY <1>2, <1>3, <1>6, <2>1, <2>2, <2>3 DEF WriteInv
<1>10. AnswerInv(d)'
  BY <1>0, <1>1, <1>2, <1>3 DEF AnswerInv
<1>11. PushInv(d)'
  <2>1. RequestInv(d)'
    BY <1>0, <1>1, <1>2, <1>3 DEF RequestInv, Pushing
  <2> QED
    BY <1>2, <1>3, <1>8, <1>9, <1>10, <2>1 DEF PushInv, DegradedInv, AcceptedInv
<1>12. PullInv(d)'
  BY <1>0, <1>2, <1>3, NotPulling DEF Pulling
<1>13. DeviceInv(d)'
  BY <1>0, <1>1, <1>4 DEF DeviceInv
<1> QED
  BY <1>1, <1>5, <1>11, <1>12, <1>13, OwnStep DEF Sound, Pushing

\* An upsert is written.
LEMMA PushUpsertSound ==
  ASSUME EngineInv, Isolated, NEW d \in Device, NEW i \in Id, PushUpsert(d, i)
  PROVE  EngineInv'
<1>0. job[d].at = "write"
  BY DEF PushUpsert, At
<1>1. TypeOK /\ JobsTyped /\ WriteInv(d)
  BY <1>0, PushFacts DEF Pulling
<1>2. PICK n \in JobRecord, row \in StoredRow, stored \in BOOLEAN :
        /\ StoresRow(d, n, i, row, stored) /\ SameRequest(n, job[d])
        /\ At(d, "write") /\ i \in job[d].ups /\ n.ups = job[d].ups \ {i}
        /\ n.dels = job[d].dels
        /\ row.rev = rev + 1 /\ row.body = job[d].request[i].data
        /\ stored = ~IsTombstone(SeenRows(d)[i])
  BY <1>1, UpsertFields
<1>3. i \in Asked(d) /\ ~IsTombstone(SeenRows(d)[i])
  BY <1>0, <1>1, <1>2 DEF WriteInv, Writing
<1>4. stored
  BY <1>2, <1>3
<1>5. /\ n.ups \subseteq job[d].ups \ {i} /\ n.dels \subseteq job[d].dels
      /\ (job[d].ups \cup job[d].dels) \ {i} \subseteq n.ups \cup n.dels
  BY <1>2
<1> QED
  BY <1>0, <1>2, <1>3, <1>4, <1>5, WriteSound

\* A deletion is written.
LEMMA PushTombstoneSound ==
  ASSUME EngineInv, Isolated, NEW d \in Device, NEW i \in Id, PushTombstone(d, i)
  PROVE  EngineInv'
<1>0. job[d].at = "write"
  BY DEF PushTombstone, At
<1>1. TypeOK /\ JobsTyped /\ WriteInv(d)
  BY <1>0, PushFacts DEF Pulling
<1>2. PICK n \in JobRecord, row \in StoredRow, stored \in BOOLEAN :
        /\ StoresRow(d, n, i, row, stored) /\ SameRequest(n, job[d])
        /\ At(d, "write") /\ job[d].ups = {} /\ n.ups = job[d].ups
        /\ i \in job[d].dels /\ n.dels = job[d].dels \ {i}
        /\ row.rev = rev + 1 /\ row.body = Gone
        /\ stored = (SeenRows(d)[i].body # Gone)
  BY <1>1, TombstoneFields
<1>3. i \in Asked(d) /\ i \in Deletes(job[d].request)
  BY <1>0, <1>1, <1>2 DEF WriteInv, Writing
<1>4. job[d].request[i].data = Gone
  BY <1>0, <1>3, RequestRows DEF Pushing
<1>5. ~stored => SeenRows(d)[i].body = job[d].request[i].data
  BY <1>2, <1>4
<1>6. /\ n.ups \subseteq job[d].ups \ {i} /\ n.dels \subseteq job[d].dels
      /\ (job[d].ups \cup job[d].dels) \ {i} \subseteq n.ups \cup n.dels
      /\ row.body = job[d].request[i].data
  BY <1>2, <1>4
<1> QED
  BY <1>0, <1>2, <1>3, <1>5, <1>6, WriteSound

\* A table is collected after the writes: what it answers of an unasked id is the
\* committed row.
LEMMA PushTableSound ==
  ASSUME EngineInv, NEW d \in Device, NEW i \in Id, PushTable(d, i)
  PROVE  EngineInv'
<1> DEFINE n == Collect(d, i)
<1>0. /\ job[d].at = "write" /\ i \in job[d].left /\ Reads(d, n)
      /\ job[d].ups = {} /\ job[d].dels = {}
  BY DEF PushTable, Written, At
<1>1. /\ TypeOK /\ ServerTypeOK /\ JobsTyped /\ HistoryInv
      /\ RequestInv(d) /\ MineInv(d) /\ WriteInv(d) /\ AnswerInv(d) /\ job[d].view = NoView
      /\ \A k \in Id : SeenRows(d)[k] =
           IF k \in DOMAIN job[d].mine THEN job[d].mine[k] ELSE srv[k]
  BY <1>0, PushFacts DEF Pulling
<1>2. job[d].since # NoCursor /\ job[d].since = cursor[d]
  BY <1>0, <1>1 DEF RequestInv, Pushing
<1>3. /\ n \in JobRecord /\ n.left = job[d].left \ {i}
      /\ \A k \in Id : n.got[k] =
           IF k # i THEN job[d].got[k]
           ELSE IF i \in Named(job[d].request) \/ SeenRows(d)[i].rev <= job[d].since
             THEN Omitted ELSE SeenRows(d)[i].body
      /\ n.at = job[d].at /\ n.since = job[d].since /\ n.low = job[d].low
      /\ n.top = job[d].top /\ n.view = job[d].view /\ n.request = job[d].request
      /\ n.refused = job[d].refused /\ n.ups = job[d].ups /\ n.dels = job[d].dels
      /\ n.mine = job[d].mine
  BY <1>0, <1>1, <1>2, CollectFields DEF At
<1> HIDE DEF n
<1>4. /\ job'[d] = n /\ rows'[d] = rows[d] /\ cursor'[d] = cursor[d]
      /\ srv' = srv /\ floor' = floor /\ rev' = rev /\ EffMax' = EffMax
  BY <1>0, <1>3, ReadOwn DEF n
<1>5. /\ SeenRows(d)' = SeenRows(d) /\ Asked(d)' = Asked(d) /\ (Writing(d)' <=> Writing(d))
  BY <1>3, <1>4 DEF SeenRows, Asked, Writing
<1>6. MineInv(d)' /\ WriteInv(d)' /\ RequestInv(d)'
  BY <1>0, <1>1, <1>3, <1>4, <1>5 DEF MineInv, WriteInv, RequestInv
<1>7. AnswerInv(d)'
  <2>1. job[d].low = Unread
    BY <1>0, <1>1 DEF AnswerInv
  <2>2. ASSUME NEW k \in Id \ n.left
        PROVE  IF k \in Named(job[d].request) THEN n.got[k] = Omitted
               ELSE IF n.got[k] = Omitted THEN srv[k].rev <= job[d].since
               ELSE n.got[k] = srv[k].body
    <3>1. CASE k # i
      <4>1. k \in Id \ job[d].left /\ n.got[k] = job[d].got[k]
        BY <1>3, <2>2, <3>1
      <4> QED
        BY <1>0, <1>1, <4>1 DEF AnswerInv
    <3>2. CASE k = i
      <4>1. i \notin Named(job[d].request) => SeenRows(d)[i] = srv[i]
        BY <1>1 DEF MineInv, Asked
      <4>2. srv[i].body \in Body /\ srv[i].body # Omitted
        BY <1>1, MarkersAreNoContent DEF ServerTypeOK, StoredRow, Body
      <4> QED
        BY <1>3, <3>2, <4>1, <4>2
    <3> QED
      BY <3>1, <3>2
  <2> QED
    BY <1>0, <1>3, <1>4, <2>1, <2>2 DEF AnswerInv
<1>8. PushInv(d)'
  BY <1>0, <1>3, <1>4, <1>6, <1>7 DEF PushInv, DegradedInv, AcceptedInv
<1>9. PullInv(d)'
  BY <1>0, <1>1, <1>3, <1>4, NotPulling DEF Pulling
<1> QED
  BY <1>0, <1>3, <1>8, <1>9, ReadStep DEF n, Pushing

\* The floor read behind the collection is the one that matters: a clean row the
\* answer omits is one the device's cursor has reached.
LEMMA PushFloorSound ==
  ASSUME EngineInv, NEW d \in Device, PushFloor(d)
  PROVE  EngineInv'
<1>0. job[d].at = "write"
  BY DEF PushFloor, Written, At
<1>1. /\ TypeOK /\ ServerTypeOK /\ JobsTyped /\ HistoryInv /\ DeviceInv(d)
      /\ RequestInv(d) /\ MineInv(d) /\ WriteInv(d) /\ AnswerInv(d) /\ job[d].view = NoView
  BY <1>0, PushFacts DEF Pulling
<1>2. PICK n \in JobRecord :
        /\ Reads(d, n) /\ Written(d) /\ job[d].left = {}
        /\ n.low = floor /\ n.at = job[d].at /\ n.since = job[d].since
        /\ n.top = job[d].top /\ n.left = job[d].left /\ n.got = job[d].got
        /\ n.view = job[d].view /\ n.request = job[d].request
        /\ n.refused = job[d].refused /\ n.ups = job[d].ups /\ n.dels = job[d].dels
        /\ n.mine = job[d].mine
  BY <1>1, PushFloorFields
<1>3. /\ job'[d] = n /\ rows'[d] = rows[d] /\ cursor'[d] = cursor[d]
      /\ srv' = srv /\ floor' = floor /\ rev' = rev /\ EffMax' = EffMax
  BY <1>2, ReadOwn
<1>4. /\ SeenRows(d)' = SeenRows(d) /\ Asked(d)' = Asked(d) /\ (Writing(d)' <=> Writing(d))
  BY <1>2, <1>3 DEF SeenRows, Asked, Writing
<1>5. MineInv(d)' /\ WriteInv(d)' /\ RequestInv(d)'
  BY <1>0, <1>1, <1>2, <1>3, <1>4 DEF MineInv, WriteInv, RequestInv
<1>6. AnswerInv(d)'
  <2>1. \A i \in Id : IF i \in Named(job[d].request) THEN job[d].got[i] = Omitted
                      ELSE IF job[d].got[i] = Omitted THEN srv[i].rev <= job[d].since
                      ELSE job[d].got[i] = srv[i].body
    BY <1>0, <1>1, <1>2 DEF AnswerInv
  <2>2. job[d].since = cursor[d]
    BY <1>0, <1>1 DEF RequestInv, Pushing
  <2>3. ASSUME floor <= job[d].since, NEW i \in Id \ Named(job[d].request),
               job[d].got[i] = Omitted, ~IsDirty(rows[d][i])
        PROVE  rows[d][i].data = srv[i].body
    BY <1>1, <2>1, <2>2, <2>3 DEF DeviceInv
  <2>4. floor <= floor
    BY <1>1 DEF ServerTypeOK
  <2> QED
    BY <1>0, <1>2, <1>3, <2>1, <2>3, <2>4 DEF AnswerInv
<1>7. PushInv(d)'
  BY <1>0, <1>2, <1>3, <1>5, <1>6 DEF PushInv, DegradedInv, AcceptedInv
<1>8. PullInv(d)'
  BY <1>0, <1>1, <1>2, <1>3, NotPulling DEF Pulling
<1> QED
  BY <1>0, <1>2, <1>7, <1>8, ReadStep DEF Pushing

\* The answer's cursor is at most what is committed with it, and there is none
\* below the floor.
LEMMA PushTopSound ==
  ASSUME EngineInv, NEW d \in Device, PushTop(d)
  PROVE  EngineInv'
<1>0. job[d].at = "write" /\ Written(d) /\ job[d].left = {} /\ job[d].low # Unread
  BY DEF PushTop, Written, At
<1>1. /\ TypeOK /\ ServerTypeOK /\ JobsTyped /\ HistoryInv /\ DeviceInv(d)
      /\ RequestInv(d) /\ MineInv(d) /\ WriteInv(d) /\ AnswerInv(d) /\ job[d].view = NoView
  BY <1>0, PushFacts DEF Pulling
<1>2. job[d].low \in 0 .. floor
  BY <1>0, <1>1, JobFields DEF AnswerInv, Unread, ServerTypeOK
<1>3. /\ TopOf(SeenRows(d), job[d].low) \in Nat
      /\ TopOf(SeenRows(d), job[d].low) <= TopOf(SeenRows(d), floor)
  BY <1>0, <1>2, TopsTyped DEF Pulling
<1>4. PICK n \in JobRecord :
        /\ Reads(d, n) /\ Written(d) /\ job[d].left = {} /\ job[d].low # Unread
        /\ n.at = "top" /\ n.since = job[d].since /\ n.low = job[d].low
        /\ IF job[d].since < job[d].low
             THEN n.got = NoChanges /\ n.top = job[d].top
             ELSE n.got = job[d].got /\ n.top = TopOf(SeenRows(d), job[d].low)
        /\ n.left = job[d].left
        /\ n.view = job[d].view /\ n.request = job[d].request
        /\ n.refused = job[d].refused /\ n.ups = job[d].ups /\ n.dels = job[d].dels
        /\ n.mine = job[d].mine
  BY <1>1, <1>3, PushTopFields
<1>5. /\ job'[d] = n /\ rows'[d] = rows[d] /\ cursor'[d] = cursor[d]
      /\ srv' = srv /\ floor' = floor /\ rev' = rev /\ EffMax' = EffMax
  BY <1>4, ReadOwn
<1>6. /\ SeenRows(d)' = SeenRows(d) /\ Asked(d)' = Asked(d) /\ Writing(d)' /\ Writing(d)
  BY <1>0, <1>4, <1>5 DEF SeenRows, Asked, Writing
<1>7. MineInv(d)' /\ RequestInv(d)'
  BY <1>0, <1>1, <1>4, <1>5, <1>6 DEF MineInv, RequestInv, Pushing
<1>8. WriteInv(d)'
  BY <1>0, <1>1, <1>4, <1>5, <1>6 DEF WriteInv, Written
<1>9. job[d].since \in Nat \cup {NoCursor} /\ floor \in Nat /\ job[d].top = NoCursor
  BY <1>0, <1>1, JobFields DEF RequestInv, ServerTypeOK
<1>10. AnswerInv(d)' /\ DegradedInv(d)'
  <2>1. CASE job[d].since < job[d].low
    <3>1. job[d].since < floor
      BY <1>2, <1>9, <2>1 DEF NoCursor
    <3>2. n.top = NoCursor /\ n.got = NoChanges
      BY <1>4, <1>9, <2>1
    <3> QED
      BY <1>4, <1>5, <3>1, <3>2 DEF AnswerInv, DegradedInv
  <2>2. CASE ~ (job[d].since < job[d].low)
    <3>1. job[d].low <= job[d].since
      BY <1>2, <1>9, <2>2 DEF NoCursor
    <3>2. n.top = TopOf(SeenRows(d), job[d].low) /\ n.got = job[d].got /\ n.top # NoCursor
      BY <1>3, <1>4, <2>2 DEF NoCursor
    <3>3. TopOf(SeenRows(d), floor)' = TopOf(SeenRows(d), floor)
      BY <1>5, <1>6 DEF TopOf
    <3>4. AnswerInv(d)'
      BY <1>0, <1>1, <1>3, <1>4, <1>5, <3>1, <3>2, <3>3 DEF AnswerInv
    <3> QED
      BY <1>5, <3>2, <3>4 DEF DegradedInv
  <2> QED
    BY <2>1, <2>2
<1>11. PushInv(d)'
  BY <1>4, <1>5, <1>7, <1>8, <1>10 DEF PushInv, AcceptedInv
<1>12. PullInv(d)'
  BY <1>1, <1>4, <1>5, NotPulling DEF Pulling
<1> QED
  BY <1>0, <1>4, <1>11, <1>12, ReadStep DEF Pushing

\* Once a push is delivered, its device's clean rows are what it commits.
LEMMA FinalRows ==
  ASSUME EngineInv, NEW d \in Device, job[d].at = "top", job[d].top # NoCursor,
         NEW i \in Id, ~IsDirty(Final(d, i))
  PROVE  Final(d, i).data = SeenRows(d)[i].body
<1>1. /\ TypeOK /\ JobsTyped /\ MineInv(d) /\ WriteInv(d) /\ AnswerInv(d)
      /\ SeenRows(d)[i] = IF i \in DOMAIN job[d].mine THEN job[d].mine[i] ELSE srv[i]
  BY PushFacts DEF Pulling
<1> DEFINE row    == rows[d][i]
           frozen == job[d].request[i]
           got    == job[d].got[i]
<1>2. /\ WellFormed(row) /\ WellFormed(frozen) /\ got \in Change
      /\ i \in Named(job[d].request) <=> IsDirty(row)
      /\ i \in Named(job[d].request) => frozen = row
      /\ i \in Named(job[d].request) <=> IsDirty(frozen)
  BY <1>1, JobFields, RequestRows DEF Pushing, Named
<1>no. PICK no \in BOOLEAN : no <=> i \in job[d].refused
  <2>1. CASE i \in job[d].refused
    BY <2>1
  <2>2. CASE i \notin job[d].refused
    BY <2>2
  <2> QED
    BY <2>1, <2>2
<1> DEFINE marked == MarkSynced(row, frozen, no)
<1>fin. Final(d, i) = ApplyChange(marked, got, FALSE)
  BY <1>no DEF Final, MarkSynced
<1> HIDE DEF row, frozen, got
<1>3. /\ WellFormed(marked)
      /\ \/ marked = row
         \/ IsDirty(frozen) /\ ~no /\ row = frozen /\ ~IsDirty(marked) /\ marked.data = frozen.data
  BY <1>2, MarkSyncedRow
<1> HIDE DEF marked
<1>4. /\ got # Gone => (IsDirty(Final(d, i)) <=> IsDirty(marked))
      /\ got # Omitted /\ ~IsDirty(Final(d, i)) => Final(d, i).data = got
      /\ got = Omitted => Final(d, i) = marked
  <2>1. LET a == ApplyChange(marked, got, FALSE)
        IN  /\ got # Gone => (IsDirty(a) <=> IsDirty(marked))
            /\ got # Omitted /\ ~IsDirty(a) => a.data = got
            /\ got = Omitted /\ ~FALSE => a = marked
    BY <1>2, <1>3, ApplyChangeRow
  <2> QED
    BY <1>fin, <2>1
<1>5. /\ job[d].low # Unread /\ job[d].left = {} /\ job[d].low <= job[d].since
      /\ IF i \in Named(job[d].request) THEN got = Omitted
         ELSE got = Omitted \/ got = srv[i].body
      /\ i \notin Named(job[d].request) /\ got = Omitted /\ ~IsDirty(row) =>
           row.data = srv[i].body
  BY <1>1 DEF AnswerInv, row, got
<1>6. CASE i \in Named(job[d].request)
  <2>1. Final(d, i) = marked /\ IsDirty(row)
    BY <1>2, <1>4, <1>5, <1>6, MarkersAreNoContent
  <2>2. ~no /\ marked.data = frozen.data
    BY <1>3, <2>1
  <2>3. i \in Asked(d) /\ SeenRows(d)[i].body = frozen.data
    BY <1>1, <1>6, <1>no, <2>2 DEF WriteInv, Writing, Asked, frozen
  <2> QED
    BY <2>1, <2>2, <2>3
<1>7. CASE i \notin Named(job[d].request)
  <2>1. marked = row /\ ~IsDirty(row)
    BY <1>2, <1>3, <1>7
  <2>2. SeenRows(d)[i] = srv[i]
    BY <1>1, <1>7 DEF MineInv, Asked
  <2>3. CASE got = Omitted
    BY <1>4, <1>5, <1>7, <2>1, <2>2, <2>3
  <2>4. CASE got # Omitted
    BY <1>4, <1>5, <1>7, <2>2, <2>4
  <2> QED
    BY <2>3, <2>4
<1> QED
  BY <1>6, <1>7

\* The commit publishes the push's rows above every cursor that was handed out.
LEMMA PushCommitSound ==
  ASSUME EngineInv, NEW d \in Device, PushCommit(d)
  PROVE  EngineInv'
<1>0. job[d].at = "top"
  BY DEF PushCommit, At
<1>1. /\ TypeOK /\ ServerTypeOK /\ JobsTyped /\ HistoryInv /\ LockInv
      /\ RequestInv(d) /\ AnswerInv(d) /\ DegradedInv(d) /\ job[d].view = NoView
      /\ SeenRows(d) \in [Id -> StoredRow]
  BY <1>0, PushFacts DEF Pulling
<1>2. PICK n \in JobRecord :
        /\ Become(d, n) /\ At(d, "top") /\ n.at = "accepted" /\ DOMAIN n.mine = {}
        /\ srv' = SeenRows(d) /\ acked' = AckedAfter(job[d].request, job[d].refused)
        /\ UNCHANGED <<rev, floor, rows, cursor>>
        /\ n.since = job[d].since /\ n.low = job[d].low /\ n.top = job[d].top
        /\ n.left = job[d].left /\ n.got = job[d].got /\ n.view = job[d].view
        /\ n.request = job[d].request /\ n.refused = job[d].refused
        /\ n.ups = job[d].ups /\ n.dels = job[d].dels
  BY <1>1, PushCommitFields
<1>3. /\ job' = [job EXCEPT ![d] = n] /\ job'[d] = n /\ job' \in [Device -> JobRecord]
      /\ rows' = rows /\ cursor' = cursor /\ floor' = floor /\ rev' = rev
      /\ \A e \in Device \ {d} : Untouched(e)
  BY <1>1, <1>2 DEF Become, JobsTyped, Untouched
<1>4. TypeOK' /\ JobsTyped' /\ ServerTypeOK'
  <2>1. acked' \in [Id -> SUBSET Body]
    <3>1. \A i \in Id : job[d].request[i].data \in Body
      BY <1>1, JobFields DEF LocalRow
    <3> QED
      BY <1>1, <1>2, <3>1 DEF AckedAfter, ServerTypeOK
  <2>2. ServerTypeOK'
    BY <1>1, <1>2, <1>3, <2>1 DEF ServerTypeOK
  <2>3. \A e \in Device : /\ job'[e].at \in Labels /\ job'[e].low \in Nat \cup {Unread}
                          /\ job'[e].top \in Nat \cup {NoCursor}
                          /\ job'[e].got \in [Id -> Change]
    BY <1>3 DEF JobRecord
  <2> QED
    BY <1>1, <1>3, <2>2, <2>3 DEF TypeOK, JobsTyped
<1>5. HistoryInv' /\ EngineMoves
  BY <1>4, Committing
<1>6. ASSUME NEW e \in Device \ {d} PROVE Sound(e)'
  <2>1. job[e].at \notin {"write", "top"}
    BY <1>0, <1>1 DEF LockInv, Pushing
  <2>2. Untouched(e)
    BY <1>3
  <2>3. MineInv(e)' /\ WriteInv(e)' /\ AnswerInv(e)'
    BY <2>1, <2>2, NotWritingStays
  <2>4. /\ DeviceInv(e)' /\ PullInv(e)'
        /\ RequestInv(e)' /\ DegradedInv(e)' /\ AcceptedInv(e)'
    BY <1>4, <1>5, <2>2, UntouchedStays
  <2> QED
    BY <2>3, <2>4 DEF Sound, PushInv
<1>7. DeviceInv(d)'
  BY <1>3, <1>4, <1>5, DeviceStays
<1>8. PullInv(d)'
  BY <1>1, <1>2, <1>3, NotPulling DEF Pulling
<1>9. AcceptedInv(d)'
  <2>1. \A i \in Id : Final(d, i)' = Final(d, i)
    BY <1>2, <1>3 DEF Final
  <2>2. EffMax' = TopOf(SeenRows(d), floor)
    BY <1>2, <1>3 DEF EffMax, TopOf
  <2>3. job[d].top # NoCursor => job[d].top <= EffMax'
    BY <1>0, <1>1, <2>2 DEF AnswerInv
  <2>4. \A i \in Id : job[d].top # NoCursor /\ ~IsDirty(Final(d, i)) =>
          Final(d, i).data = srv'[i].body
    BY <1>0, <1>2, FinalRows
  <2> QED
    BY <1>2, <1>3, <2>1, <2>3, <2>4 DEF AcceptedInv
<1>10. PushInv(d)'
  <2>1. RequestInv(d)'
    BY <1>0, <1>1, <1>2, <1>3 DEF RequestInv, Pushing
  <2>2. DegradedInv(d)'
    BY <1>0, <1>1, <1>2, <1>3 DEF DegradedInv
  <2>3. MineInv(d)' /\ WriteInv(d)' /\ AnswerInv(d)'
    BY <1>2, <1>3, NotWriting
  <2> QED
    BY <1>9, <2>1, <2>2, <2>3 DEF PushInv
<1>11. LockInv'
  <2>1. job'[d].at \notin Pushing
    BY <1>2, <1>3 DEF Pushing
  <2> QED
    BY <1>1, <1>3, <2>1 DEF LockInv, Untouched
<1>12. \A e \in Device : Sound(e)'
  BY <1>6, <1>7, <1>8, <1>10 DEF Sound
<1> QED
  BY <1>4, <1>5, <1>11, <1>12, NextSoundByDevice

\* The answer is delivered.
LEMMA DeliverPushSound ==
  ASSUME EngineInv, NEW d \in Device, DeliverPush(d)
  PROVE  EngineInv'
<1>0. job[d].at = "accepted"
  BY DEF DeliverPush, At
<1>1. /\ TypeOK /\ ServerTypeOK /\ JobsTyped /\ HistoryInv /\ DeviceInv(d)
      /\ RequestInv(d) /\ DegradedInv(d) /\ AcceptedInv(d)
  BY <1>0, PushFacts DEF Pulling
<1> DEFINE final == [i \in Id |-> Final(d, i)]
           next  == IF job[d].top = NoCursor THEN cursor[d] ELSE job[d].top
<1>2. /\ rows' = [rows EXCEPT ![d] = final] /\ Become(d, NoJob)
      /\ cursor' = [cursor EXCEPT ![d] = next]
      /\ srv' = srv /\ rev' = rev /\ floor' = floor /\ acked' = acked
  <2>1. rows' = [rows EXCEPT ![d] = final]
    BY DEF DeliverPush, Final
  <2>2. /\ cursor' = IF job[d].top = NoCursor THEN cursor
                     ELSE [cursor EXCEPT ![d] = job[d].top]
        /\ Become(d, NoJob)
        /\ srv' = srv /\ rev' = rev /\ floor' = floor /\ acked' = acked
    BY DEF DeliverPush, serverVars
  <2>3. cursor \in [Device -> Nat \cup {NoCursor}]
    BY <1>1 DEF TypeOK
  <2>4. cursor' = [cursor EXCEPT ![d] = next]
    BY <2>2, <2>3
  <2> QED
    BY <2>1, <2>2, <2>4
<1>3. \A i \in Id : WellFormed(Final(d, i))
  <2> SUFFICES ASSUME NEW i \in Id PROVE WellFormed(Final(d, i))
    OBVIOUS
  <2> DEFINE marked == MarkSynced(rows[d][i], job[d].request[i], i \in job[d].refused)
  <2>1. WellFormed(rows[d][i]) /\ WellFormed(job[d].request[i]) /\ job[d].got[i] \in Change
    BY <1>0, <1>1, JobFields, RequestRows
  <2>2. WellFormed(marked)
    <3>1. (i \in job[d].refused) \in BOOLEAN
      BY SMT
    <3> QED
      BY <2>1, <3>1, MarkSyncedRow
  <2>3. Final(d, i) = ApplyChange(marked, job[d].got[i], FALSE)
    BY DEF Final
  <2> HIDE DEF marked
  <2> QED
    BY <2>1, <2>2, <2>3, ApplyChangeRow
<1>4. next \in Nat \cup {NoCursor}
  BY <1>1, JobFields
<1> HIDE DEF next
<1>5. /\ rows'[d] = final /\ cursor'[d] = next /\ job'[d] = NoJob
      /\ \A e \in Device \ {d} : rows'[e] = rows[e] /\ cursor'[e] = cursor[e]
  BY <1>1, <1>2 DEF TypeOK, JobsTyped, Become
<1>6. rows' \in [Device -> [Id -> LocalRow]] /\ \A e \in Device, i \in Id : WellFormed(rows'[e][i])
  <2>1. \A i \in Id : Final(d, i) \in LocalRow
    BY <1>3 DEF WellFormed
  <2>2. final \in [Id -> LocalRow] /\ \A i \in Id : WellFormed(final[i])
    BY <1>3, <2>1
  <2> HIDE DEF final
  <2> QED
    BY <1>1, <1>2, <1>5, <2>2 DEF TypeOK, JobsTyped
<1>7. TypeOK' /\ JobsTyped'
  <2>1. cursor' \in [Device -> Nat \cup {NoCursor}]
    BY <1>1, <1>2, <1>4 DEF TypeOK
  <2>2. job' \in [Device -> JobRecord]
    BY <1>1, <1>2, NoJobTyped DEF JobsTyped, Become
  <2>3. \A e \in Device : /\ job'[e].at \in Labels /\ job'[e].low \in Nat \cup {Unread}
                          /\ job'[e].top \in Nat \cup {NoCursor}
                          /\ job'[e].got \in [Id -> Change]
    BY <2>2 DEF JobRecord
  <2> QED
    BY <1>1, <1>2, <1>6, <2>1, <2>2, <2>3 DEF TypeOK, JobsTyped, ServerTypeOK
<1>8. EffMax' = EffMax
  BY <1>1, <1>2, StandingStill
<1>9. DeviceInv(d)'
  <2>1. CASE job[d].top = NoCursor
    <3>1. next = cursor[d] /\ cursor[d] < floor
      BY <1>0, <1>1, <2>1 DEF next, DegradedInv, RequestInv
    <3>2. ~ (floor <= cursor[d]) /\ cursor[d] <= EffMax
      BY <1>1, <3>1 DEF TypeOK, ServerTypeOK, NoCursor, DeviceInv
    <3> QED
      BY <1>2, <1>5, <1>8, <3>1, <3>2 DEF DeviceInv
  <2>2. CASE job[d].top # NoCursor
    <3>1. next = job[d].top
      BY <2>2 DEF next
    <3>2. \A i \in Id : rows'[d][i] = Final(d, i)
      BY <1>5
    <3> QED
      BY <1>0, <1>1, <1>2, <1>5, <1>8, <2>2, <3>1, <3>2 DEF DeviceInv, AcceptedInv
  <2> QED
    BY <2>1, <2>2
<1>10. PullInv(d)' /\ PushInv(d)' /\ NoJob.at \notin Pushing
  BY <1>5, NoJobFields, NotPulling, NotPushing DEF Pulling, Pushing
<1> QED
  BY <1>2, <1>5, <1>7, <1>9, <1>10, NoJobTyped, OwnStep DEF Sound

\* A conflict, or an answer nobody hears.
LEMMA ForgetSound ==
  ASSUME EngineInv, NEW d \in Device, Forget(d)
  PROVE  EngineInv'
<1>1. Reads(d, NoJob)
  BY DEF Forget
<1>2. job'[d] = NoJob
  BY <1>1, NoJobTyped, ReadOwn
<1>3. PullInv(d)' /\ PushInv(d)' /\ NoJob.at \notin Pushing
  BY <1>2, NoJobFields, NotPulling, NotPushing DEF Pulling, Pushing
<1> QED
  BY <1>1, <1>3, NoJobTyped, ReadStep

\* Pruning takes deletions that no served cursor is below.
LEMMA RetainSound ==
  ASSUME EngineInv, NEW f \in Nat, Retain(f)
  PROVE  EngineInv'
<1>0. TypeOK /\ JobsTyped /\ LockInv
  BY SoundByDevice
<1>1. ServerTypeOK' /\ HistoryInv' /\ EngineMoves /\ EffMax' = EffMax /\ RowsPruned
  BY Pruning
<1>2. rows' = rows /\ cursor' = cursor /\ job' = job /\ rev' = rev
  BY DEF Retain, Gc
<1>3. TypeOK' /\ JobsTyped' /\ LockInv'
  BY <1>0, <1>1, <1>2 DEF TypeOK, JobsTyped, LockInv
<1>4. ASSUME NEW e \in Device PROVE Sound(e)'
  <2>1. Untouched(e)
    BY <1>2 DEF Untouched
  <2>2. MineInv(e)' /\ WriteInv(e)' /\ AnswerInv(e)'
    BY <1>1, <1>2, <2>1, WriterSurvivesPruning
  <2>3. /\ DeviceInv(e)' /\ PullInv(e)'
        /\ RequestInv(e)' /\ DegradedInv(e)' /\ AcceptedInv(e)'
    BY <1>1, <2>1, UntouchedStays
  <2> QED
    BY <2>2, <2>3 DEF Sound, PushInv
<1> QED
  BY <1>1, <1>3, <1>4, NextSoundByDevice

-----------------------------------------------------------------------------
(***************************************************************************)
(* The theorem.                                                            *)
(***************************************************************************)
\* Every step of a push.
LEMMA PushStepSound ==
  ASSUME EngineInv, Isolated, NEW d \in Device, PushStep(d)
  PROVE  EngineInv'
<1>1. CASE \E i \in Id, new \in Body : AskPush(d, i, new)
  BY <1>1, AskPushSound
<1>2. CASE PushHorizon(d)
  <2>1. PICK at \in {"conflict", "scan"} : Reads(d, [job[d] EXCEPT !.at = at])
    BY <1>2 DEF PushHorizon
  <2> QED
    BY <1>2, <2>1, PushAtSound DEF PushHorizon, At
<1>3. CASE PushScan(d)
  <2>1. PICK at \in {"conflict", "refuse"} : Reads(d, [job[d] EXCEPT !.at = at])
    BY <1>3 DEF PushScan
  <2> QED
    BY <1>3, <2>1, PushAtSound DEF PushScan, At
<1>4. CASE \E hooked \in SUBSET HookIds : PushRefuse(d, hooked)
  BY <1>4, PushRefuseSound
<1>5. CASE \E i \in Id : PushUpsert(d, i) \/ PushTombstone(d, i) \/ PushTable(d, i)
  BY <1>5, PushUpsertSound, PushTombstoneSound, PushTableSound
<1>6. CASE PushFloor(d)
  BY <1>6, PushFloorSound
<1>7. CASE PushTop(d)
  BY <1>7, PushTopSound
<1>8. CASE PushCommit(d)
  BY <1>8, PushCommitSound
<1>9. CASE DeliverPush(d)
  BY <1>9, DeliverPushSound
<1>10. CASE Forget(d)
  BY <1>10, ForgetSound
<1> QED
  BY <1>1, <1>2, <1>3, <1>4, <1>5, <1>6, <1>7, <1>8, <1>9, <1>10 DEF PushStep

\* Nothing is stored and nobody has asked.
LEMMA InitSound ==
  ASSUME Init
  PROVE  EngineInv
<1>1. /\ srv = [i \in Id |-> Unstored] /\ rev = 0 /\ floor = 0 /\ acked = [i \in Id |-> {}]
      /\ rows = [d \in Device |-> [i \in Id |-> Absent]]
      /\ cursor = [d \in Device |-> NoCursor] /\ job = [d \in Device |-> NoJob]
  BY DEF Init, ServerInit
<1>2. ServerTypeOK
  BY <1>1 DEF ServerTypeOK, Unstored, StoredRow, Body
<1>3. JobsTyped
  <2>1. Absent \in LocalRow
    BY AbsentWellFormed DEF WellFormed
  <2> QED
    BY <1>1, <2>1, NoJobTyped DEF JobsTyped
<1>4. TypeOK
  <2>1. \A d \in Device : /\ job[d].at \in Labels /\ job[d].low \in Nat \cup {Unread}
                          /\ job[d].top \in Nat \cup {NoCursor}
                          /\ job[d].got \in [Id -> Change]
    BY <1>3 DEF JobsTyped, JobRecord
  <2> QED
    BY <1>1, <1>2, <2>1, AbsentWellFormed DEF TypeOK
<1>5. HistoryInv
  <2>1. \A i \in Id : srv[i].rev <= 0
    BY <1>1 DEF Unstored
  <2>2. Topped(srv, floor)
    BY <1>1, <2>1, ToppedByFloor
  <2> QED
    BY <1>1, <2>1, <2>2 DEF HistoryInv, HistoryBounded, UnstoredIsGone, Unstored
<1>6. EffMax \in Nat
  BY <1>2, <1>5, Served
<1>7. ASSUME NEW d \in Device PROVE Sound(d)
  <2>1. job[d] = NoJob /\ cursor[d] = NoCursor
    BY <1>1
  <2>2. DeviceInv(d)
    BY <1>1, <1>6, <2>1 DEF DeviceInv, NoCursor
  <2>3. PullInv(d)
    BY <2>1, NoJobFields DEF PullInv, ViewInv, ViewReached, ViewAgrees, GatherInv, Pulling
  <2>4. PushInv(d)
    BY <2>1, NoJobFields DEF PushInv, RequestInv, MineInv, WriteInv, AnswerInv,
       DegradedInv, AcceptedInv, Writing, Pushing
  <2> QED
    BY <2>2, <2>3, <2>4 DEF Sound
<1>8. LockInv
  BY <1>1, NoJobFields DEF LockInv, Pushing
<1> QED
  BY <1>3, <1>4, <1>5, <1>7, <1>8, SoundByDevice

\* Stuttering.
LEMMA UnchangedSound ==
  ASSUME EngineInv, UNCHANGED vars
  PROVE  EngineInv'
<1>0. TypeOK /\ ServerTypeOK /\ JobsTyped /\ HistoryInv /\ LockInv
  BY SoundByDevice DEF TypeOK
<1>1. /\ srv' = srv /\ rev' = rev /\ floor' = floor /\ acked' = acked
      /\ rows' = rows /\ cursor' = cursor /\ job' = job
  BY DEF vars, serverVars
<1>2. HistoryInv' /\ EngineMoves /\ EffMax' = EffMax
  BY <1>0, <1>1, StandingStill
<1>3. TypeOK' /\ JobsTyped' /\ LockInv' /\ ServerTypeOK'
  BY <1>0, <1>1 DEF TypeOK, JobsTyped, LockInv, ServerTypeOK
<1>4. ASSUME NEW e \in Device PROVE Sound(e)'
  <2>1. Untouched(e)
    BY <1>1 DEF Untouched
  <2>2. MineInv(e)' /\ WriteInv(e)' /\ AnswerInv(e)'
    <3>1. rev <= rev' /\ rev' \in Nat
      BY <1>0, <1>1 DEF ServerTypeOK
    <3> QED
      BY <1>1, <1>2, <2>1, <3>1, WriterStays
  <2> QED
    BY <1>2, <1>3, <2>1, <2>2, UntouchedStays DEF Sound, PushInv
<1> QED
  BY <1>2, <1>3, <1>4, NextSoundByDevice

\* The invariant is inductive.
LEMMA StepSound ==
  ASSUME EngineInv, Isolated, [Next]_vars
  PROVE  EngineInv'
<1>1. CASE \E d \in Device : PullStep(d) \/ PushStep(d)
  BY <1>1, PullStepSound, PushStepSound
<1>2. CASE \E f \in 1 .. rev : Retain(f)
  <2>1. rev \in Nat
    BY DEF EngineInv, Consistent, TypeOK, ServerTypeOK
  <2> QED
    BY <1>2, <2>1, RetainSound
<1>3. CASE UNCHANGED vars
  BY <1>3, UnchangedSound
<1> QED
  BY <1>1, <1>2, <1>3 DEF Next

\* However the handlers' store calls interleave with each other and with pruning
\* over store-drizzle, a clean record equals the server's row as far as its
\* device's served cursor reaches, and no cursor is above what was served.
THEOREM InterleavedConsistent ==
  ASSUME Isolated
  PROVE  Spec => []Consistent
<1>1. Init => EngineInv
  BY InitSound
<1>2. EngineInv /\ [Next]_vars => EngineInv'
  BY StepSound
<1>3. EngineInv => Consistent
  BY DEF EngineInv
<1> QED
  BY <1>1, <1>2, <1>3, PTL DEF Spec

-----------------------------------------------------------------------------
(***************************************************************************)
(* What a push commits over.                                               *)
(***************************************************************************)

\* Past the scan, no row the push names is newer than its cursor: the scope's lock
\* holds other pushes off, and pruning makes no row newer.
ScannedInv ==
  \A d \in Device :
    job[d].at \in {"refuse", "write", "top"} =>
      \A i \in Named(job[d].request) : srv[i].rev <= job[d].since

\* A handler that is no writer keeps it, its own scan established.
LEMMA ScanKept ==
  ASSUME EngineInv, ScannedInv, NEW d \in Device, NEW n \in JobRecord, Become(d, n),
         srv' = srv,
         \/ n.at \notin {"refuse", "write", "top"}
         \/ /\ n.since = job[d].since /\ n.request = job[d].request
            /\ job[d].at \in {"refuse", "write", "top"} \/ (At(d, "scan") /\ ~Stale(d))
  PROVE  ScannedInv'
<1>1. job' = [job EXCEPT ![d] = n] /\ job \in [Device -> JobRecord]
  BY DEF EngineInv, JobsTyped, Become
<1>2. job'[d] = n /\ \A e \in Device \ {d} : job'[e] = job[e]
  BY <1>1
<1>3. TypeOK /\ JobsTyped
  BY DEF EngineInv, Consistent
<1>4. ASSUME At(d, "scan"), ~Stale(d), NEW i \in Named(job[d].request)
      PROVE  srv[i].rev <= job[d].since
  <2>1. srv[i].rev \in Nat /\ job[d].since \in Nat \cup {NoCursor}
    BY <1>3, JobFields DEF TypeOK, ServerTypeOK, StoredRow, Named
  <2>2. ~ (srv[i].rev > job[d].since)
    BY <1>4 DEF Stale
  <2> QED
    BY <2>1, <2>2 DEF NoCursor
<1> QED
  BY <1>2, <1>4 DEF ScannedInv

\* Pulls scan and write nothing.
LEMMA ScanKeptByPull ==
  ASSUME EngineInv, Isolated, ScannedInv, NEW d \in Device, PullStep(d)
  PROVE  ScannedInv'
<1>0. TypeOK /\ JobsTyped /\ cursor[d] \in Nat \cup {NoCursor}
      /\ NoCursor \in Nat \cup {NoCursor}
  BY DEF EngineInv, Consistent, TypeOK
<1>1. CASE AskPull(d)
  <2>1. /\ PullJob(cursor[d]) \in JobRecord /\ PullJob(cursor[d]).at = "pull"
        /\ Become(d, PullJob(cursor[d])) /\ srv' = srv
    BY <1>0, <1>1, PullJobFields DEF AskPull, Reads, serverVars
  <2> QED
    BY <2>1, ScanKept
<1>2. CASE PullFloor(d)
  <2>1. PICK n \in JobRecord : Reads(d, n) /\ n.at = "horizon"
    BY <1>2, PullFloorFields
  <2> QED
    BY <2>1, ScanKept DEF Reads, serverVars
<1>3. CASE PullHorizon(d)
  <2>1. PICK n \in JobRecord : Reads(d, n) /\ n.at \in {"expired", "gather"}
    BY <1>3, PullHorizonFields
  <2> QED
    BY <2>1, ScanKept DEF Reads, serverVars
<1>4. CASE \E i \in Id : PullTable(d, i)
  <2>1. PICK i \in Id : PullTable(d, i)
    BY <1>4
  <2>2. /\ Collect(d, i) \in JobRecord /\ Collect(d, i).at = "gather"
        /\ Become(d, Collect(d, i)) /\ srv' = srv
    BY <1>0, <2>1, CollectFields DEF PullTable, At, Reads, serverVars
  <2> QED
    BY <2>2, ScanKept
<1>5. CASE DeliverPull(d)
  BY <1>5, NoJobTyped, NoJobFields, ScanKept DEF DeliverPull, serverVars
<1>6. CASE RePull(d)
  <2>1. /\ PullJob(NoCursor) \in JobRecord /\ PullJob(NoCursor).at = "pull"
        /\ Become(d, PullJob(NoCursor)) /\ srv' = srv
    BY <1>0, <1>6, PullJobFields DEF RePull, Reads, serverVars
  <2> QED
    BY <2>1, ScanKept
<1> QED
  BY <1>1, <1>2, <1>3, <1>4, <1>5, <1>6 DEF PullStep

\* A push commits while no other is past the lock.
LEMMA ScanKeptByPush ==
  ASSUME EngineInv, Isolated, ScannedInv, NEW d \in Device, PushStep(d)
  PROVE  ScannedInv'
<1>0. TypeOK /\ JobsTyped
  BY DEF EngineInv, Consistent
<1> DEFINE Kept(n) == /\ n.at \in {"write", "top"} /\ n.since = job[d].since
                      /\ n.request = job[d].request
                      /\ job[d].at \in {"refuse", "write", "top"}
<1>1. ASSUME NEW n \in JobRecord, Become(d, n), srv' = srv, Kept(n) PROVE ScannedInv'
  BY <1>1, ScanKept
<1>2. ASSUME NEW n \in JobRecord, Become(d, n), srv' = srv,
             n.at \in {"idle", "lock", "conflict", "scan", "accepted"}
      PROVE  ScannedInv'
  BY <1>2, ScanKept
<1>3. CASE \E i \in Id, new \in Body : AskPush(d, i, new)
  <2>1. PICK n \in JobRecord : Become(d, n) /\ n.at = "lock" /\ UNCHANGED serverVars
    BY <1>0, <1>3, AskPushFields
  <2> QED
    BY <1>2, <2>1 DEF serverVars
<1>4. CASE PushHorizon(d) \/ PushScan(d)
  <2>1. PICK at \in {"conflict", "scan", "refuse"} :
          /\ Reads(d, [job[d] EXCEPT !.at = at])
          /\ at = "refuse" => At(d, "scan") /\ ~Stale(d)
    BY <1>4 DEF PushHorizon, PushScan
  <2>2. PICK j \in JobRecord : j = job[d]
    BY <1>0, JobFields
  <2>3. at \in Labels
    BY DEF Labels, Pushing
  <2>4. /\ [j EXCEPT !.at = at] \in JobRecord /\ [j EXCEPT !.at = at].at = at
        /\ [j EXCEPT !.at = at].since = j.since /\ [j EXCEPT !.at = at].request = j.request
    BY <2>3, FieldsAt
  <2> DEFINE n == [j EXCEPT !.at = at]
  <2>5. Become(d, n) /\ srv' = srv /\ n.since = job[d].since /\ n.request = job[d].request
    BY <2>1, <2>2, <2>4 DEF Reads, serverVars
  <2> HIDE DEF n
  <2> QED
    BY <1>2, <2>1, <2>4, <2>5, ScanKept DEF n
<1>5. CASE \E hooked \in SUBSET HookIds : PushRefuse(d, hooked)
  <2>1. PICK n \in JobRecord : Reads(d, n) /\ Kept(n)
    BY <1>0, <1>5, PushRefuseFields DEF At
  <2> QED
    BY <1>1, <2>1 DEF Reads, serverVars
<1>6. CASE \E i \in Id : PushUpsert(d, i) \/ PushTombstone(d, i)
  <2>1. PICK i \in Id : PushUpsert(d, i) \/ PushTombstone(d, i)
    BY <1>6
  <2>2. PICK n \in JobRecord, row \in StoredRow, stored \in BOOLEAN :
          StoresRow(d, n, i, row, stored) /\ SameRequest(n, job[d]) /\ At(d, "write")
    BY <1>0, <2>1, UpsertFields, TombstoneFields
  <2>3. Become(d, n) /\ srv' = srv /\ Kept(n)
    BY <2>2 DEF StoresRow, SameRequest, At
  <2> QED
    BY <1>1, <2>3
<1>7. CASE \E i \in Id : PushTable(d, i)
  <2>1. PICK i \in Id : PushTable(d, i)
    BY <1>7
  <2>2. Collect(d, i) \in JobRecord /\ Reads(d, Collect(d, i)) /\ Kept(Collect(d, i))
    BY <1>0, <2>1, CollectFields DEF PushTable, Written, At
  <2> QED
    BY <1>1, <2>2 DEF Reads, serverVars
<1>8. CASE PushFloor(d)
  <2>1. PICK n \in JobRecord : Reads(d, n) /\ Kept(n)
    BY <1>0, <1>8, PushFloorFields DEF Written, At
  <2> QED
    BY <1>1, <2>1 DEF Reads, serverVars
<1>9. CASE PushTop(d)
  <2>1. job[d].at = "write" /\ job[d].low # Unread
    BY <1>9 DEF PushTop, Written, At
  <2>2. job[d].low \in 0 .. floor
    BY <1>0, <2>1, PushFacts, JobFields DEF AnswerInv, Unread, ServerTypeOK, Pulling
  <2>3. TopOf(SeenRows(d), job[d].low) \in Nat
    BY <2>1, <2>2, TopsTyped DEF Pulling
  <2>4. PICK n \in JobRecord : Reads(d, n) /\ Kept(n)
    BY <1>0, <1>9, <2>1, <2>3, PushTopFields
  <2> QED
    BY <1>1, <2>4 DEF Reads, serverVars
<1>10. CASE PushCommit(d)
  <2>1. PICK n \in JobRecord : Become(d, n) /\ At(d, "top") /\ n.at = "accepted"
    BY <1>0, <1>10, PushCommitFields
  <2>2. \A e \in Device \ {d} : /\ job[e].at \notin Pushing
                                /\ job'[e].at = job[e].at
    BY <1>0, <2>1 DEF EngineInv, LockInv, Pushing, At, Become, JobsTyped
  <2>3. job'[d].at = "accepted"
    BY <1>0, <2>1 DEF Become, JobsTyped
  <2> QED
    BY <2>2, <2>3 DEF ScannedInv, Pushing
<1>11. CASE DeliverPush(d) \/ Forget(d)
  <2>1. Become(d, NoJob) /\ srv' = srv
    BY <1>11 DEF DeliverPush, Forget, Reads, serverVars
  <2> QED
    BY <1>2, <2>1, NoJobTyped, NoJobFields
<1> QED
  BY <1>3, <1>4, <1>5, <1>6, <1>7, <1>8, <1>9, <1>10, <1>11 DEF PushStep

\* Nor does pruning make a row newer.
LEMMA ScanKeptByStep ==
  ASSUME EngineInv, Isolated, ScannedInv, [Next]_vars
  PROVE  ScannedInv'
<1>0. TypeOK /\ ServerTypeOK /\ JobsTyped
  BY DEF EngineInv, Consistent, TypeOK
<1>1. CASE \E d \in Device : PullStep(d) \/ PushStep(d)
  BY <1>1, ScanKeptByPull, ScanKeptByPush
<1>2. CASE \E f \in 1 .. rev : Retain(f)
  <2>1. PICK f \in 1 .. rev : Retain(f)
    BY <1>2
  <2>2. f \in Nat
    BY <1>0 DEF ServerTypeOK
  <2>3. job' = job /\ RowsPruned
    BY <2>1, <2>2, Pruning DEF Retain
  <2> SUFFICES ASSUME NEW d \in Device, job[d].at \in {"refuse", "write", "top"},
                      NEW i \in Named(job[d].request)
               PROVE  srv'[i].rev <= job[d].since
    BY <2>3 DEF ScannedInv
  <2>4. i \in Id /\ srv[i].rev <= job[d].since /\ srv[i].rev \in Nat
    BY <1>0 DEF ScannedInv, Named, ServerTypeOK, StoredRow
  <2>5. job[d].since \in Nat \cup {NoCursor}
    BY <1>0, JobFields
  <2> QED
    BY <2>3, <2>4, <2>5 DEF RowsPruned, Unstored, NoCursor
<1>3. CASE UNCHANGED vars
  BY <1>3 DEF vars, serverVars, ScannedInv
<1> QED
  BY <1>1, <1>2, <1>3 DEF Next

\* A push never overwrites or deletes a row newer than the cursor of its pull,
\* though the rows are scanned several store calls before they are written.
THEOREM NeverOverwritesBlindly ==
  ASSUME Isolated
  PROVE  Spec => NoBlindOverwrite
<1>1. Init => EngineInv
  BY InitSound
<1>2. Init => ScannedInv
  BY NoJobFields DEF Init, ScannedInv
<1>3. EngineInv /\ [Next]_vars => EngineInv'
  BY StepSound
<1>4. EngineInv /\ ScannedInv /\ [Next]_vars => ScannedInv'
  BY ScanKeptByStep
<1>5. ScannedInv => SeenBeforeWritten
  BY DEF ScannedInv, SeenBeforeWritten, At
<1> QED
  BY <1>1, <1>2, <1>3, <1>4, <1>5, PTL DEF Spec, NoBlindOverwrite

==============================================================================
