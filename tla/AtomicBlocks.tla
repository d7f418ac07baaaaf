----------------------------- MODULE AtomicBlocks -----------------------------
(***************************************************************************)
(* What db.read and db.write promise to the application, whatever the      *)
(* number of tabs: every block happens at once, between its call and its   *)
(* end, and reads the record as it then is.  A writer leaves what it read  *)
(* plus one, or, if it fails, nothing.  Only the blocks of a tab that is   *)
(* leaving may read something else.                                        *)
(***************************************************************************)
EXTENDS Integers

CONSTANTS Block, Writer

VARIABLES
  record,   \* the record all blocks share
  seen,     \* what each block read, once it has happened
  leaving   \* the blocks of tabs that are closing

vars == <<record, seen, leaving>>

None == -1

Init ==
  /\ record = 0
  /\ seen = [b \in Block |-> None]
  /\ leaving = {}

\* One block happens, and reads the record.
Happen(b) ==
  /\ seen[b] = None
  /\ seen'[b] \in Nat
  /\ b \notin leaving => seen'[b] = record
  /\ seen' = [seen EXCEPT ![b] = seen'[b]]
  /\ UNCHANGED leaving

Look(b)  == Happen(b) /\ record' = record
Write(b) == b \in Writer /\ Happen(b) /\ record' = seen'[b] + 1

\* A tab begins to close.
Leave == leaving \subseteq leaving' /\ UNCHANGED <<record, seen>>

Next == Leave \/ \E b \in Block : Look(b) \/ Write(b)

Spec == Init /\ [][Next]_vars
=============================================================================
