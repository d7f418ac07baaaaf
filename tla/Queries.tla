------------------------------ MODULE Queries ------------------------------
(***************************************************************************)
(* What a query means.  A query is data: clauses put together by the Q     *)
(* builders into a description, compiled by encodeQuery to one SELECT      *)
(* over LEFT JOINs.  Text is left out: this module gives the rows that     *)
(* the compiled statement returns from a storage, and beside it Answer,    *)
(* the rows a reader of the query asks for.                                *)
(***************************************************************************)
EXTENDS StoredRows, Integers, Sequences, FiniteSets, SequencesExt, FiniteSetsExt, Functions

CONSTANT Associations   \* the declared ones: [from, to, many]

LiveRows(store, t) == {store[t][id] : id \in {i \in DOMAIN store[t] : Live(store[t][i])}}

-----------------------------------------------------------------------------
(* The builders.  right is one value, a list of values or a column.        *)

Value(v) == [value |-> v]
Values(vs) == [values |-> vs]
Column(c) == [column |-> c]

Where(left, operator, right) ==
    [type |-> "where", left |-> left, operator |-> operator, right |-> right]
And(conditions) == [type |-> "and", conditions |-> conditions]
Or(conditions) == [type |-> "or", conditions |-> conditions]
On(table, conditions) == [type |-> "on", table |-> table, conditions |-> conditions]

JoinTables(tables) == [type |-> "joinTables", tables |-> tables]
NestedJoin(from, to) == [type |-> "nestedJoinTable", from |-> from, to |-> to]
SortBy(column, order) == [type |-> "sortBy", column |-> column, order |-> order]
Take(n) == [type |-> "take", count |-> n]
Skip(n) == [type |-> "skip", count |-> n]

OfType(clauses, types) == SelectSeq(clauses, LAMBDA c : c.type \in types)

(* Each table once, where it is first named.                               *)
Once(tables) ==
    FoldLeft(LAMBDA seen, t : IF t \in Range(seen) THEN seen ELSE Append(seen, t),
             <<>>, tables)

(* What buildQueryDescription throws for.                                  *)
Buildable(clauses) ==
    /\ Len(OfType(clauses, {"take"})) <= 1
    /\ Len(OfType(clauses, {"skip"})) <= Len(OfType(clauses, {"take"}))

(* A top-level On joins its table by itself; a nested one must be declared.*)
BuildQueryDescription(clauses) ==
    LET counts(type) == [i \in DOMAIN OfType(clauses, {type}) |->
                            OfType(clauses, {type})[i].count]
    IN  [where |-> OfType(clauses, {"where", "and", "or", "on"}),
         joinTables |->
            Once(FlattenSeq([i \in DOMAIN OfType(clauses, {"on", "joinTables"}) |->
                    LET c == OfType(clauses, {"on", "joinTables"})[i]
                    IN  IF c.type = "on" THEN <<c.table>> ELSE c.tables])),
         nestedJoinTables |-> OfType(clauses, {"nestedJoinTable"}),
         sortBy |-> OfType(clauses, {"sortBy"}),
         take |-> counts("take"),
         skip |-> counts("skip")]

-----------------------------------------------------------------------------
(* The types of a description (text patterns and raw SQL are left out).    *)

Operators == {"eq", "notEq", "gt", "gte", "lt", "lte", "oneOf", "notIn", "between"}

(* Several values go with the operators that take several, no others.      *)
IsComparison(operator, right) ==
    /\ operator \in Operators
    /\ DOMAIN right = IF operator \in {"oneOf", "notIn", "between"} THEN {"values"}
                      ELSE IF "column" \in DOMAIN right THEN {"column"} ELSE {"value"}

RECURSIVE IsWhere(_)
IsWhere(clause) ==
    CASE clause.type = "where" -> IsComparison(clause.operator, clause.right)
      [] clause.type \in {"and", "or", "on"} ->
            \A i \in DOMAIN clause.conditions : IsWhere(clause.conditions[i])
      [] OTHER -> FALSE

IsDescription(d) ==
    /\ \A i \in DOMAIN d.where : IsWhere(d.where[i])
    /\ \A i \in DOMAIN d.nestedJoinTables : d.nestedJoinTables[i].type = "nestedJoinTable"
    /\ \A i \in DOMAIN d.sortBy : d.sortBy[i].order \in {"asc", "desc"}
    /\ IsInjective(d.joinTables)
    /\ Len(d.take) <= 1 /\ Len(d.skip) <= Len(d.take)

-----------------------------------------------------------------------------
(* Conditions.  The grammar has no negation above the comparisons, so a    *)
(* comparison SQL finds unknown counts as one that is false.               *)

(* is and is not are null-safe; every other operator is unknown of a null  *)
(* column, except that "in ()" is false and "not in ()" true of anything.  *)
Compared(operator, left, right) ==
    CASE operator = "eq" -> left = right
      [] operator = "notEq" -> left # right
      [] operator = "oneOf" -> left \in Range(right) /\ left # Null
      [] operator = "notIn" -> right = <<>> \/ (left # Null /\ left \notin Range(right))
      [] operator = "between" -> left # Null /\ right[1] <= left /\ left <= right[2]
      [] left = Null \/ right = Null -> FALSE
      [] operator = "gt" -> left > right
      [] operator = "gte" -> left >= right
      [] operator = "lt" -> left < right
      [] OTHER -> left <= right

(* A Column on the right is a column of the same table.                    *)
OperandOf(right, row) ==
    IF "column" \in DOMAIN right THEN row[right.column]
    ELSE IF "values" \in DOMAIN right THEN right.values ELSE right.value

(* binding gives every joined table its row; table is the context that a   *)
(* plain column name is read in, which On changes.                         *)
RECURSIVE Holds(_, _, _)
Holds(clause, table, binding) ==
    CASE clause.type = "where" ->
            Compared(clause.operator, binding[table][clause.left],
                     OperandOf(clause.right, binding[table]))
      [] clause.type = "and" ->
            \A i \in DOMAIN clause.conditions : Holds(clause.conditions[i], table, binding)
      [] clause.type = "or" ->
            \E i \in DOMAIN clause.conditions : Holds(clause.conditions[i], table, binding)
      [] clause.type = "on" ->
            \A i \in DOMAIN clause.conditions :
                Holds(clause.conditions[i], clause.table, binding)

-----------------------------------------------------------------------------
(* The joins, in the order they are compiled: those from the query's own   *)
(* table, then the nested ones.                                            *)

Joins(table, d) ==
    [i \in DOMAIN d.joinTables |-> [from |-> table, to |-> d.joinTables[i]]]
        \o [i \in DOMAIN d.nestedJoinTables |->
              [from |-> d.nestedJoinTables[i].from, to |-> d.nestedJoinTables[i].to]]

Associated(from, to) == {a \in Associations : a.from = from /\ a.to = to}

(* Every join needs a declared association, and a nested one a table that  *)
(* is joined before it; every On, a joined table.                          *)
RECURSIVE Named(_)
Named(clause) ==
    IF clause.type = "where" THEN {}
    ELSE (IF clause.type = "on" THEN {clause.table} ELSE {})
            \cup UNION {Named(clause.conditions[i]) : i \in DOMAIN clause.conditions}

Compilable(table, d) ==
    LET js == Joins(table, d)
    IN  /\ \A i \in DOMAIN js :
              /\ Associated(js[i].from, js[i].to) # {}
              /\ js[i].from \in {table} \cup {js[k].to : k \in 1..i - 1}
        /\ \A i \in DOMAIN d.where : Named(d.where[i]) \subseteq {j.to : j \in Range(js)}

(* belongs_to reads the key of the row joined from, has_many that of the   *)
(* rows joined to.                                                         *)
Matches(assoc, row, other) ==
    IF assoc.many THEN other.ref = row.id /\ row.id # Null
    ELSE other.id = row.ref /\ row.ref # Null

LeftJoin(store, bindings, join) ==
    LET assoc == CHOOSE a \in Associated(join.from, join.to) : TRUE
        partners(b) == {r \in LiveRows(store, join.to) : Matches(assoc, b[join.from], r)}
    IN  UNION {{join.to :> r @@ b : r \in IF partners(b) = {} THEN {NoRow} ELSE partners(b)}
                 : b \in bindings}

(* Every row of the table with every choice of partners for it.            *)
Joined(store, table, d) ==
    FoldLeft(LAMBDA bs, join : LeftJoin(store, bs, join),
             {table :> r : r \in LiveRows(store, table)}, Joins(table, d))

Kept(store, table, d) ==
    {b \in Joined(store, table, d) : \A i \in DOMAIN d.where : Holds(d.where[i], table, b)}

HasToManyJoin(table, d) ==
    \E i \in DOMAIN Joins(table, d) :
        \E a \in Associated(Joins(table, d)[i].from, Joins(table, d)[i].to) : a.many

-----------------------------------------------------------------------------
(* order by: null sorts first; ties, which SQL leaves open, go by id.      *)

Smaller(v, w) == v # w /\ (v = Null \/ (w # Null /\ v < w))

Before(sorts, r, s) ==
    LET apart == {i \in DOMAIN sorts : r[sorts[i].column] # s[sorts[i].column]}
        first == sorts[Min(apart)]
    IN  IF apart = {} THEN r.id < s.id
        ELSE IF first.order = "asc" THEN Smaller(r[first.column], s[first.column])
        ELSE Smaller(s[first.column], r[first.column])

(* limit and offset.                                                       *)
Limited(rows, d) ==
    IF d.take = <<>> THEN rows
    ELSE LET from == IF d.skip = <<>> THEN 0 ELSE d.skip[1]
         IN  SubSeq(rows, from + 1, Min({from + d.take[1], Len(rows)}))

(* A to-many join fans the table's rows out: select distinct takes each    *)
(* once.  Without one, a row comes once per binding that keeps it.         *)
Rows(store, table, d) ==
    IF HasToManyJoin(table, d)
    THEN SetToSortSeq({b[table] : b \in Kept(store, table, d)},
                      LAMBDA r, s : Before(d.sortBy, r, s))
    ELSE LET ordered == SetToSortSeq(Kept(store, table, d),
                                     LAMBDA b, c : Before(d.sortBy, b[table], c[table]))
         IN  [i \in DOMAIN ordered |-> ordered[i][table]]

Selected(store, table, d) == Limited(Rows(store, table, d), d)

(* count(distinct id) when a to-many join fans out, count(all) otherwise;  *)
(* take and skip cannot be counted.                                        *)
Countable(d) == d.take = <<>> /\ d.skip = <<>>

Counted(store, table, d) ==
    IF HasToManyJoin(table, d)
    THEN Cardinality({b[table].id : b \in Kept(store, table, d)})
    ELSE Cardinality(Kept(store, table, d))

-----------------------------------------------------------------------------
(* The reference: what is asked for, with no notion of a join table.       *)

(* The rows a row of the table leads to along the joins, nulls where a     *)
(* join leads nowhere: a partner is chosen for every joined table at once. *)
Leads(store, table, d, row, b) ==
    /\ b[table] = row
    /\ \A j \in Range(Joins(table, d)) :
          LET assoc == CHOOSE a \in Associations : a.from = j.from /\ a.to = j.to
              partner(r) == Live(r) /\ IF assoc.many THEN r.ref = b[j.from].id
                                                       /\ b[j.from].id # Null
                                       ELSE r.id = b[j.from].ref /\ r.id # Null
          IN  \/ partner(b[j.to])
              \/ b[j.to] = NoRow /\ ~\E r \in Range(store[j.to]) : partner(r)

Wanted(store, table, d) ==
    LET tables == {table} \cup {j.to : j \in Range(Joins(table, d))}
        rows == {NoRow} \cup UNION {Range(store[t]) : t \in tables}
    IN  {row \in Range(store[table]) :
            /\ Live(row)
            /\ \E b \in [tables -> rows] :
                  /\ \A t \in tables : b[t] = NoRow \/ b[t] \in Range(store[t])
                  /\ Leads(store, table, d, row, b)
                  /\ \A i \in DOMAIN d.where : Holds(d.where[i], table, b)}

(* Each wanted row once, in the order asked for, cut to the window.        *)
Answer(store, table, d) ==
    Limited(SetToSortSeq(Wanted(store, table, d), LAMBDA r, s : Before(d.sortBy, r, s)), d)

-----------------------------------------------------------------------------
(* A query as its observers know it.                                       *)

(* Everything whose change makes an observer fetch again.                  *)
AllTables(table, d) ==
    {table} \cup Range(d.joinTables)
        \cup {d.nestedJoinTables[i].to : i \in DOMAIN d.nestedJoinTables}

Query(table, clauses) ==
    LET d == BuildQueryDescription(clauses)
    IN  [table |-> table, tables |-> AllTables(table, d), countable |-> Countable(d), d |-> d]
=============================================================================
