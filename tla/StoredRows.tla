------------------------------ MODULE StoredRows -------------------------------
(***************************************************************************)
(* Rows as storage holds them.  A table is a function from ids to rows;    *)
(* every table has the columns val and ref, ref being its foreign key, and *)
(* gone says that _status is 'deleted' (a tombstone sync has not reaped    *)
(* yet).                                                                   *)
(***************************************************************************)
CONSTANT Null   \* SQL's null

Columns == {"id", "val", "ref", "gone"}

(* A row that is not in its table, and the side of a LEFT JOIN that found  *)
(* no partner: every column is null.                                       *)
NoRow == [id |-> Null, val |-> Null, ref |-> Null, gone |-> FALSE]

(* A row the compiler's deleted filter lets through.                       *)
Live(row) == row # NoRow /\ ~row.gone

(* The columns that row has, laid over those of base.                      *)
Over(row, base) ==
    LET Of(c) == IF c \in DOMAIN row THEN row[c] ELSE base[c]
    IN  [id |-> Of("id"), val |-> Of("val"), ref |-> Of("ref"), gone |-> Of("gone")]
=============================================================================
